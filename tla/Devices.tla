------------------------------ MODULE Devices ------------------------------
(***************************************************************************)
(* The input devices of a computer as the values their operations compute: *)
(* the standard streams (stdio.rs), which hand the keyboard to one task of *)
(* one process frame at a time, and the redstone register (redstone.rs),   *)
(* which keeps the tasks that wait for a level.  Computer owns one of each *)
(* and applies these operators in its actions.                             *)
(*                                                                         *)
(* A line is the sequence of its characters, each given by its width in    *)
(* UTF-16 code units; a pair of surrogates is one character of width 2.    *)
(***************************************************************************)
EXTENDS Integers, FiniteSets, SequencesExt

CONSTANTS
    MaxLine,     \* maximum_line_code_units
    MaxWaiters,  \* RedstoneDevice.maximum_waiters
    Sides,       \* sides of the computer
    Levels       \* signal levels

ASSUME DeviceBounds == MaxLine \in Nat \ {0} /\ MaxWaiters \in Nat

---------------------------------------------------------------------------
(* Standard streams. *)

InputOwner(mode, frame, task) == [mode |-> mode, frame |-> frame, task |-> task]

NoStreams == [owner |-> {}, editing |-> << >>]

\* StandardStreams::acquire: the owner keeps the input, nobody takes it over.
CanAcquire(s, o) == s.owner \subseteq {o}
Acquire(s, o) == [s EXCEPT !.owner = {o}]

\* finish_raw, take_line and submit_complete_line give the input up.
Release(s) == [s EXCEPT !.owner = {}]

\* cancel and cancel_frame: the line being edited goes with its owner.
Cancel(s, frame) ==
    IF \E o \in s.owner : o.frame = frame THEN NoStreams ELSE s

Units(line) == FoldSeq(LAMBDA width, sum : width + sum, 0, line)

\* accept_text and accept_key for one event; text beyond the limit is dropped whole.
Edited(line, e) ==
    CASE e.kind = "text" /\ Units(line) + Units(e.text) <= MaxLine -> line \o e.text
      [] e.kind = "backspace" /\ line # << >> -> Front(line)
      [] OTHER -> line

\* advance_pending_stdio: the queued events up to and including the first Enter.  The
\* other errors of accept_text and accept_key need a reader that is not canonical, a line
\* already taken, or a terminal that refuses text, which write_utf16 never does.
Enters(queue) == {i \in DOMAIN queue : queue[i].kind = "enter"}
Polled(s, queue) ==
    LET last == IF Enters(queue) = {} THEN Len(queue) ELSE Min(Enters(queue))
        line == FoldLeft(Edited, s.editing, SubSeq(queue, 1, last))
    IN  [done |-> Enters(queue) # {},
         line |-> line,
         queue |-> SubSeq(queue, last + 1, Len(queue)),
         streams |-> IF Enters(queue) # {} THEN NoStreams ELSE [s EXCEPT !.editing = line]]

\* checkpoint/stdio.rs: what restore accepts of the streams.
StreamsAccepted(s) ==
    /\ Units(s.editing) <= MaxLine
    /\ s.editing # << >> => \E o \in s.owner : o.mode = "canonical"

---------------------------------------------------------------------------
(* Redstone. *)

NoRedstone == [levels |-> [side \in Sides |-> 0], waiters |-> << >>]

\* InputPredicate and predicate_matches.
Matches(p, level) ==
    CASE p.kind = "changed" -> TRUE
      [] p.kind = "exact" -> level = p.signal
      [] p.kind = "atLeast" -> level >= p.signal
      [] p.kind = "atMost" -> level <= p.signal

Waiter(task, id, side, p) == [task |-> task, id |-> id, side |-> side, predicate |-> p]
IsWaiting(r, task, id) == \E i \in DOMAIN r.waiters : r.waiters[i].task = task /\ r.waiters[i].id = id

\* RedstoneDevice::register: a level wait that already holds is answered at once, a
\* change is always waited for.
ReadyAtOnce(r, w) == w.predicate.kind # "changed" /\ Matches(w.predicate, r.levels[w.side])
CanRegister(r, w) == ~IsWaiting(r, w.task, w.id) /\ Len(r.waiters) < MaxWaiters
Registered(r, w) == [r EXCEPT !.waiters = Append(@, w)]

\* RedstoneDevice::submit_input: the waiters a packet wakes, and the register after it.
Woken(r, changed, levels) ==
    {w \in Range(r.waiters) : w.side \in changed /\ Matches(w.predicate, levels[w.side])}
Submitted(r, changed, levels) ==
    [levels |-> levels,
     waiters |-> SelectSeq(r.waiters, LAMBDA w : w \notin Woken(r, changed, levels))]

\* checkpoint/redstone.rs: what restore accepts of the register.
RedstoneAccepted(r) ==
    /\ Len(r.waiters) <= MaxWaiters
    /\ \A i, j \in DOMAIN r.waiters :
        i # j => <<r.waiters[i].task, r.waiters[i].id>> # <<r.waiters[j].task, r.waiters[j].id>>
=============================================================================
