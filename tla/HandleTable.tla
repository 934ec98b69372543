------------------------------- MODULE HandleTable -------------------------------
(***************************************************************************)
(* The table behind the handles of the foreign interface                   *)
(* (ffi/src/handle_table.rs).  The host's threads name objects by handles  *)
(* of a slot and a generation.  A call resolves the handle to the slot's   *)
(* cell under the table's mutex, leaves that mutex, and then tries the     *)
(* cell's own mutex: between the two steps any other thread may close the  *)
(* handle and the slot may be given to another object.                     *)
(*                                                                         *)
(* The table's mutex is only ever held for one short block of code that    *)
(* takes no other lock, so each such block is one step.  A cell is         *)
(* allocated once, by insert, so its index also names the object that was  *)
(* put into it.                                                            *)
(***************************************************************************)
EXTENDS Integers, Sequences

CONSTANTS
    Threads,       \* threads of the host
    Nobody,        \* no thread
    Handles,       \* handles the host may pass, issued or not
    Width,         \* number of values of a generation, 2^32 in the code
    MaxCells       \* bound: objects ever inserted, fewer than a slot has generations

AllHandles == [slot : Nat, generation : Nat]

ASSUME TableAssumption ==
    /\ Nobody \notin Threads
    /\ Handles \subseteq AllHandles
    /\ Width \in Nat
    /\ MaxCells \in Nat
    /\ MaxCells + 1 < Width

VARIABLES
    slots,  \* the slots: generation and cell, 0 for none
    cells,  \* the cells ever allocated: is there a value, who holds the mutex
    calls,  \* what each thread is doing in the table
    issued  \* the object each handle was issued for (history)

tableVars == <<slots, cells, calls, issued>>

Kinds == {"with", "close", "consume"}
Idle == [pc |-> "idle"]

TableInit ==
    /\ slots = <<>>
    /\ cells = <<>>
    /\ calls = [t \in Threads |-> Idle]
    /\ issued = [h \in {} |-> 0]

\* What `issued' looks like once handle h names the object in cell c.
Issue(h, c) == [k \in DOMAIN issued \cup {h} |-> IF k = h THEN c ELSE issued[k]]

\* encode_handle for the slot a new object goes into.
HandleFor(i) ==
    [slot |-> i, generation |-> IF i <= Len(slots) THEN slots[i].generation ELSE 1]

\* insert looks for the first slot without a cell and otherwise adds one.
FirstFree(i) ==
    /\ i \in 1 .. Len(slots) + 1
    /\ \A j \in 1 .. i - 1 : slots[j].cell # 0
    /\ i <= Len(slots) => slots[i].cell = 0

\* insert: the object gets a cell of its own and the handle of its slot.
Insert(i) ==
    /\ Len(cells) < MaxCells
    /\ FirstFree(i)
    /\ cells' = Append(cells, [full |-> TRUE, holder |-> Nobody, poisoned |-> FALSE])
    /\ LET h == HandleFor(i)
           filled == [generation |-> h.generation, cell |-> Len(cells) + 1]
       IN  /\ slots' = IF i <= Len(slots) THEN [slots EXCEPT ![i] = filled]
                                          ELSE Append(slots, filled)
           /\ issued' = Issue(h, Len(cells) + 1)
    /\ UNCHANGED calls

\* decode_handle and resolve: the cell of the handle, or why there is none.
Resolution(h) ==
    IF h.slot = 0 \/ h.generation = 0 \/ h.slot > Len(slots) THEN "Invalid"
    ELSE IF slots[h.slot].generation # h.generation \/ slots[h.slot].cell = 0 THEN "Stale"
    ELSE "Found"

\* The first step of with, close and consume_if.
Resolve(t, kind, h) ==
    /\ calls[t].pc = "idle"
    /\ calls' = [calls EXCEPT ![t] =
           IF Resolution(h) = "Found"
           THEN [pc |-> "lock", kind |-> kind, handle |-> h, cell |-> slots[h.slot].cell]
           ELSE Idle]
    /\ UNCHANGED <<slots, cells, issued>>

\* What try_lock finds.
LockResult(t) ==
    LET c == cells[calls[t].cell]
    IN  IF c.holder # Nobody THEN "Busy"
        ELSE IF c.poisoned THEN "Poisoned"
        ELSE IF ~c.full THEN "Stale"
        ELSE "Locked"

\* Mutant: the call waits for the cell's mutex.
TryLockWaiting(t) ==
    /\ calls[t].pc = "lock"
    /\ LockResult(t) # "Busy"
    /\ IF LockResult(t) = "Locked"
       THEN /\ cells' = [cells EXCEPT ![calls[t].cell] =
                  [@ EXCEPT !.holder = t, !.full = calls[t].kind # "consume"]]
            /\ calls' = [calls EXCEPT ![t] = [@ EXCEPT !.pc = "inside"]]
       ELSE /\ calls' = [calls EXCEPT ![t] = Idle]
            /\ UNCHANGED cells
    /\ UNCHANGED <<slots, issued>>

\* The second step: try_lock never waits; consume_if takes the value out.
TryLock(t) ==
    /\ calls[t].pc = "lock"
    /\ IF LockResult(t) = "Locked"
       THEN /\ cells' = [cells EXCEPT ![calls[t].cell] =
                  [@ EXCEPT !.holder = t, !.full = calls[t].kind # "consume"]]
            /\ calls' = [calls EXCEPT ![t] = [@ EXCEPT !.pc = "inside"]]
       ELSE /\ calls' = [calls EXCEPT ![t] = Idle]
            /\ UNCHANGED cells
    /\ UNCHANGED <<slots, issued>>

Inside(t, kind) == calls[t].pc = "inside" /\ calls[t].kind = kind

\* The guard of the cell is dropped, leaving a value in it or not.
Unlock(t, full, poisoned) ==
    cells' = [cells EXCEPT ![calls[t].cell] =
                  [full |-> full, holder |-> Nobody, poisoned |-> poisoned]]

\* with: the action has run on the object.
Leave(t) ==
    /\ Inside(t, "with")
    /\ Unlock(t, TRUE, FALSE)
    /\ calls' = [calls EXCEPT ![t] = Idle]
    /\ UNCHANGED <<slots, issued>>

\* consume_if: the action failed and gave the object back.
GiveBack(t) ==
    /\ Inside(t, "consume")
    /\ Unlock(t, TRUE, FALSE)
    /\ calls' = [calls EXCEPT ![t] = Idle]
    /\ UNCHANGED <<slots, issued>>

\* next_generation: wrapping, and never 0.
NextGeneration(g) == IF g + 1 = Width THEN 1 ELSE g + 1

\* Does the slot still hold the cell the call resolved?
StillThere(t) ==
    LET h == calls[t].handle
    IN  /\ h.slot <= Len(slots)
        /\ slots[h.slot].generation = h.generation
        /\ slots[h.slot].cell = calls[t].cell

\* Mutant: the slot is emptied, the cell keeps its value.
ClearLeavingValue(t) ==
    /\ IF StillThere(t)
       THEN /\ slots' = [slots EXCEPT ![calls[t].handle.slot] =
                             [generation |-> NextGeneration(@.generation), cell |-> 0]]
            /\ Unlock(t, TRUE, FALSE)
       ELSE /\ Unlock(t, cells[calls[t].cell].full, FALSE)
            /\ UNCHANGED slots
    /\ calls' = [calls EXCEPT ![t] = Idle]
    /\ UNCHANGED issued

\* The end of close and of a consume_if whose action succeeded: under the table's
\* mutex the slot is checked again and emptied for the next object.
Clear(t) ==
    /\ IF StillThere(t)
       THEN /\ slots' = [slots EXCEPT ![calls[t].handle.slot] =
                             [generation |-> NextGeneration(@.generation), cell |-> 0]]
            /\ Unlock(t, FALSE, FALSE)
       ELSE /\ Unlock(t, cells[calls[t].cell].full, FALSE)
            /\ UNCHANGED slots
    /\ calls' = [calls EXCEPT ![t] = Idle]
    /\ UNCHANGED issued

Close(t) == Inside(t, "close") /\ Clear(t)
Consumed(t) == Inside(t, "consume") /\ Clear(t)

\* The action panics: catch_unwind answers the host, the mutex stays poisoned, and
\* a value that had been taken out is gone.
Panic(t) ==
    /\ \E kind \in {"with", "consume"} :
          Inside(t, kind) /\ Unlock(t, kind = "with", TRUE)
    /\ calls' = [calls EXCEPT ![t] = Idle]
    /\ UNCHANGED <<slots, issued>>

TableNext ==
    \/ \E i \in 1 .. Len(slots) + 1 : Insert(i)
    \/ \E t \in Threads :
         \/ \E kind \in Kinds, h \in Handles : Resolve(t, kind, h)
         \/ TryLock(t)
         \/ Leave(t)
         \/ GiveBack(t)
         \/ Close(t)
         \/ Consumed(t)
         \/ Panic(t)

TableSpec == TableInit /\ [][TableNext]_tableVars

--------------------------------------------------------------------------------
(* What the table promises *)

\* Every call works on the object its handle was issued for, however often the slot
\* was closed and reused between the two steps of the call (with, close, consume_if).
HandleNamesOneObject ==
    \A t \in Threads : calls[t].pc # "idle" =>
        /\ calls[t].handle \in DOMAIN issued
        /\ issued[calls[t].handle] = calls[t].cell

\* A call that is about to empty a slot finds it as it resolved it.  The second check
\* of close and consume_if never fails, so a deployment that was installed is never
\* answered with "stale".
ClearIsCertain ==
    \A t \in Threads : calls[t].pc = "inside" => StillThere(t)

\* A handle that has gone stale is never alive again (next_generation, resolve).
StaleStaysStale ==
    [][\A h \in DOMAIN issued :
          Resolution(h) = "Stale" => Resolution(h)' = "Stale"]_tableVars

--------------------------------------------------------------------------------
(* Why the table keeps its promises.  They are not inductive by themselves: what makes *)
(* them so is how a slot and the handles issued for it hang together.                  *)

Slot == [generation : Nat, cell : Nat]
Cell == [full : BOOLEAN, holder : Threads \cup {Nobody}, poisoned : BOOLEAN]
CallState == [pc : {"idle"}]
               \cup [pc : {"lock", "inside"}, kind : Kinds, handle : AllHandles, cell : Nat]

\* The type of the table.
TableTypeOK ==
    /\ slots \in Seq(Slot)
    /\ cells \in Seq(Cell)
    /\ Len(cells) <= MaxCells
    /\ calls \in [Threads -> CallState]
    /\ DOMAIN issued \subseteq AllHandles
    /\ issued \in [DOMAIN issued -> Nat]

\* A slot is no further than the objects inserted allow; so no generation wraps.
SlotsInv ==
    \A i \in 1 .. Len(slots) :
        /\ slots[i].generation \in 1 .. Len(cells) + 1
        /\ slots[i].cell # 0 =>
              /\ slots[i].cell \in 1 .. Len(cells)
              /\ slots[i].generation <= Len(cells)
              /\ [slot |-> i, generation |-> slots[i].generation] \in DOMAIN issued
              /\ issued[[slot |-> i, generation |-> slots[i].generation]] = slots[i].cell

\* No handle is ahead of its slot, and a handle of an empty slot is behind it.
IssuedInv ==
    \A h \in DOMAIN issued :
        /\ h.slot \in 1 .. Len(slots)
        /\ h.generation >= 1
        /\ issued[h] \in 1 .. Len(cells)
        /\ h.generation <= slots[h.slot].generation
        /\ slots[h.slot].cell = 0 => h.generation < slots[h.slot].generation

\* Does the slot of handle h hold the object h was issued for?
Holds(h) ==
    slots[h.slot].generation = h.generation /\ slots[h.slot].cell = issued[h]

\* A cell that has its value, or whose value a call has in its hands, is the one its
\* slot holds.
InUse(cell) == cell.full \/ cell.holder # Nobody
FullInv == \A h \in DOMAIN issued : InUse(cells[issued[h]]) => Holds(h)

\* A call works on the object its handle was issued for; inside, it is the only one and
\* the slot still holds the object.
CallsInv ==
    \A t \in Threads :
        /\ calls[t].pc # "idle" =>
              /\ calls[t].handle \in DOMAIN issued
              /\ issued[calls[t].handle] = calls[t].cell
        /\ calls[t].pc = "inside" =>
              /\ cells[calls[t].cell].holder = t
              /\ Holds(calls[t].handle)

\* The inductive invariant.
TableInv == TableTypeOK /\ SlotsInv /\ IssuedInv /\ FullInv /\ CallsInv

\* There are no more slots than objects were inserted, and a value that consume_if has
\* taken out is not in its cell.
UserInv ==
    /\ Len(slots) <= Len(cells)
    /\ \A t \in Threads : Inside(t, "consume") => ~cells[calls[t].cell].full

\* What thread t does in the table in one step.
StepOf(t) ==
    \/ \E kind \in Kinds, h \in Handles : Resolve(t, kind, h)
    \/ TryLock(t) \/ Leave(t) \/ GiveBack(t) \/ Close(t) \/ Consumed(t) \/ Panic(t)

InsertStep == \E i \in 1 .. Len(slots) + 1 : Insert(i)
================================================================================
