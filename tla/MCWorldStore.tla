------------------------------ MODULE MCWorldStore ------------------------------
(* Small instances of the world store for TLC. *)
EXTENDS WorldStore
================================================================================
