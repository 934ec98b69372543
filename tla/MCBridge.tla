-------------------------------- MODULE MCBridge --------------------------------
(***************************************************************************)
(* Bridge for TLC: two threads of the host, six calls between them.        *)
(***************************************************************************)
EXTENDS Bridge, TLC

\* Every handle two objects in a table can be issued, and the null handle.
MCHandles == [slot : 0 .. 2, generation : 0 .. 2]
================================================================================
