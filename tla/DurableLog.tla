------------------------------- MODULE DurableLog -------------------------------
(***************************************************************************)
(* What the persistent store promises each computer: its mutations form a  *)
(* log; a growing prefix of it is durable; and the only thing a crash or a *)
(* fault may take away is a suffix that was never reported durable.        *)
(***************************************************************************)
EXTENDS Naturals, Sequences

CONSTANTS Computers, Bodies

VARIABLES
    log,       \* the mutations of each computer, oldest first
    reported   \* how many of them have been reported durable

Init ==
    /\ log = [c \in Computers |-> <<>>]
    /\ reported = [c \in Computers |-> 0]

Mutate(c, body) ==
    /\ log' = [log EXCEPT ![c] = Append(log[c], body)]
    /\ UNCHANGED reported

Report(c, n) ==
    /\ reported[c] < n
    /\ n <= Len(log[c])
    /\ reported' = [reported EXCEPT ![c] = n]
    /\ UNCHANGED log

\* Reopening a computer keeps a prefix that contains all that was reported; all
\* that it keeps is durable.
Recover(c, n) ==
    /\ reported[c] <= n
    /\ n <= Len(log[c])
    /\ log' = [log EXCEPT ![c] = SubSeq(log[c], 1, n)]
    /\ reported' = [reported EXCEPT ![c] = n]

Next == \E c \in Computers :
    \/ \E body \in Bodies : Mutate(c, body)
    \/ \E n \in 0 .. Len(log[c]) : Report(c, n) \/ Recover(c, n)

Spec == Init /\ [][Next]_<<log, reported>>
================================================================================
