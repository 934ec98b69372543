---------------------------- MODULE MCGuestTasks ----------------------------
(***************************************************************************)
(* Instances of GuestTasks for TLC.                                        *)
(***************************************************************************)
EXTENDS GuestTasks

=============================================================================
