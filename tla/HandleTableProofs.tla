---------------------------- MODULE HandleTableProofs ----------------------------
(***************************************************************************)
(* Theorems about HandleTable, for every number of threads, every width of *)
(* a generation and every number of objects below it.                      *)
(*                                                                         *)
(* The promises of the table are not inductive by themselves; they follow  *)
(* from TableInv, which is.                                                *)
(***************************************************************************)
EXTENDS HandleTable, TLAPS

--------------------------------------------------------------------------------
(* The initial state *)

\* The empty table satisfies the invariant.
LEMMA InitInv == TableInit => TableInv
  BY TableAssumption
  DEF TableInit, TableInv, TableTypeOK, SlotsInv, IssuedInv, FullInv, CallsInv, CallState,
      Idle, Slot, Cell

--------------------------------------------------------------------------------
(* The steps *)

\* insert keeps the invariant: the new handle is none that was issued before.
LEMMA InsertInv ==
  ASSUME TableInv, NEW i \in 1 .. Len(slots) + 1, Insert(i)
  PROVE  TableInv'
<1> DEFINE g == HandleFor(i).generation
           h == [slot |-> i, generation |-> g]
           c == Len(cells) + 1
<1> USE DEF TableInv
<1>0. /\ i \in Nat /\ i >= 1 /\ i <= Len(slots) + 1
      /\ Len(slots) \in Nat /\ Len(cells) \in Nat /\ c \in Nat /\ MaxCells \in Nat
  BY TableAssumption DEF TableTypeOK
<1>1. /\ g \in 1 .. c /\ h \in AllHandles
      /\ HandleFor(i) = h
      /\ i <= Len(slots) => slots[i].cell = 0 /\ slots[i].generation = g
  BY <1>0, SMTT(30) DEF HandleFor, AllHandles, Insert, FirstFree, SlotsInv, TableTypeOK, Slot
<1>2. h \notin DOMAIN issued
  BY <1>0, <1>1 DEF IssuedInv, TableTypeOK, AllHandles
<1>3. /\ cells' = Append(cells, [full |-> TRUE, holder |-> Nobody, poisoned |-> FALSE])
      /\ slots' = IF i <= Len(slots)
                  THEN [slots EXCEPT ![i] = [generation |-> g, cell |-> c]]
                  ELSE Append(slots, [generation |-> g, cell |-> c])
      /\ issued' = [k \in DOMAIN issued \cup {h} |-> IF k = h THEN c ELSE issued[k]]
      /\ calls' = calls
      /\ Len(cells) < MaxCells
  BY <1>1 DEF Insert, Issue
<1> HIDE DEF g, h, c
<1>4. /\ cells' \in Seq(Cell) /\ Len(cells') = c
      /\ \A k \in 1 .. Len(cells) : cells'[k] = cells[k]
      /\ cells'[c] = [full |-> TRUE, holder |-> Nobody, poisoned |-> FALSE]
  BY <1>0, <1>3 DEF TableTypeOK, Cell, c
<1>5. [generation |-> g, cell |-> c] \in Slot
  BY <1>0, <1>1 DEF Slot
<1>6. /\ slots' \in Seq(Slot) /\ Len(slots') \in Nat
      /\ Len(slots') >= Len(slots) /\ i \in 1 .. Len(slots')
      /\ slots'[i] = [generation |-> g, cell |-> c]
      /\ \A j \in 1 .. Len(slots') : j # i => j \in 1 .. Len(slots) /\ slots'[j] = slots[j]
  <2>1. CASE i <= Len(slots)
    BY <2>1, <1>0, <1>3, <1>5 DEF TableTypeOK
  <2>2. CASE ~(i <= Len(slots))
    BY <2>2, <1>0, <1>3, <1>5 DEF TableTypeOK
  <2> QED BY <2>1, <2>2
<1>7. /\ DOMAIN issued' = DOMAIN issued \cup {h}
      /\ issued'[h] = c
      /\ \A k \in DOMAIN issued : k # h /\ issued'[k] = issued[k]
  BY <1>2, <1>3
<1>8. TableTypeOK'
  <2>1. issued' \in [DOMAIN issued' -> Nat] /\ DOMAIN issued' \subseteq AllHandles
    BY <1>0, <1>1, <1>3, <1>7 DEF TableTypeOK
  <2> QED BY <2>1, <1>0, <1>3, <1>4, <1>6 DEF TableTypeOK, c
<1>9. \A k \in DOMAIN issued : k.slot \in 1 .. Len(slots) /\ k.slot \in Nat /\ k.generation \in Nat
  BY DEF IssuedInv, TableTypeOK, AllHandles
<1>10. SlotsInv'
  <2> SUFFICES ASSUME NEW j \in 1 .. Len(slots')
               PROVE  /\ slots'[j].generation \in 1 .. c + 1
                      /\ slots'[j].cell # 0 =>
                           /\ slots'[j].cell \in 1 .. c
                           /\ slots'[j].generation <= c
                           /\ [slot |-> j, generation |-> slots'[j].generation] \in DOMAIN issued'
                           /\ issued'[[slot |-> j, generation |-> slots'[j].generation]] = slots'[j].cell
    BY <1>4, Zenon DEF SlotsInv
  <2>1. CASE j = i
    BY <2>1, <1>0, <1>1, <1>6, <1>7 DEF h, c
  <2>2. CASE j # i
    <3>1. j \in 1 .. Len(slots) /\ slots'[j] = slots[j]
      BY <2>2, <1>6
    <3>2. slots[j].generation \in 1 .. Len(cells) + 1
      BY <3>1, Zenon DEF SlotsInv
    <3>4. c = Len(cells) + 1 /\ Len(cells) \in Nat
      BY <1>0 DEF c
    <3>3. CASE slots[j].cell # 0
      <4> DEFINE k == [slot |-> j, generation |-> slots[j].generation]
      <4>1. k \in DOMAIN issued /\ issued[k] = slots[j].cell
        BY <3>1, <3>3 DEF SlotsInv
      <4>2. slots[j].cell \in 1 .. Len(cells) /\ slots[j].generation <= Len(cells)
        BY <3>1, <3>3, Zenon DEF SlotsInv
      <4>3. slots[j].cell \in 1 .. c /\ slots[j].generation <= c
        BY <4>2, <3>2, <3>4
      <4> QED BY <3>1, <3>2, <3>4, <4>1, <4>3, <1>7
    <3> QED BY <3>1, <3>2, <3>3, <3>4
  <2> QED BY <2>1, <2>2
<1>11. IssuedInv'
  <2> SUFFICES ASSUME NEW k \in DOMAIN issued'
               PROVE  /\ k.slot \in 1 .. Len(slots')
                      /\ k.generation >= 1
                      /\ issued'[k] \in 1 .. c
                      /\ k.generation <= slots'[k.slot].generation
                      /\ slots'[k.slot].cell = 0 => k.generation < slots'[k.slot].generation
    BY <1>4 DEF IssuedInv
  <2>1. CASE k = h
    BY <2>1, <1>0, <1>1, <1>6, <1>7 DEF h, c
  <2>2. CASE k \in DOMAIN issued
    <3>1. CASE k.slot = i
      BY <2>2, <3>1, <1>0, <1>1, <1>6, <1>7, <1>9, SMTT(30) DEF IssuedInv, c
    <3>2. CASE k.slot # i
      BY <2>2, <3>2, <1>0, <1>6, <1>7, <1>9, SMTT(30) DEF IssuedInv, c
    <3> QED BY <3>1, <3>2
  <2> QED BY <2>1, <2>2, <1>7
<1>12. \A k \in DOMAIN issued : Holds(k) => Holds(k)'
  <2> SUFFICES ASSUME NEW k \in DOMAIN issued, Holds(k) PROVE Holds(k)'
    OBVIOUS
  <2>1. issued[k] # 0 /\ k.slot \in 1 .. Len(slots)
    BY <1>0 DEF IssuedInv
  <2>2. k.slot # i
    BY <2>1, <1>0, <1>1 DEF Holds
  <2> QED BY <2>1, <2>2, <1>0, <1>6, <1>7 DEF Holds
<1>13. FullInv'
  <2> SUFFICES ASSUME NEW k \in DOMAIN issued', InUse(cells'[issued'[k]]) PROVE Holds(k)'
    BY DEF FullInv, InUse
  <2>1. CASE k = h
    BY <2>1, <1>6, <1>7 DEF Holds, h
  <2>2. CASE k \in DOMAIN issued
    BY <2>2, <1>0, <1>4, <1>7, <1>12 DEF FullInv, IssuedInv
  <2> QED BY <2>1, <2>2, <1>7
<1>14. CallsInv'
  BY <1>0, <1>3, <1>4, <1>7, <1>12 DEF CallsInv, IssuedInv
<1> QED BY <1>8, <1>10, <1>11, <1>13, <1>14

\* A step that leaves the slots and the handles alone, puts v into cell c, and moves
\* thread t on to call.
CellStep(t, c, v, call) ==
    /\ c \in 1 .. Len(cells) /\ v \in Cell /\ call \in CallState
    /\ slots' = slots /\ issued' = issued
    /\ cells' = [cells EXCEPT ![c] = v]
    /\ calls' = [calls EXCEPT ![t] = call]
    /\ InUse(v) => \A h \in DOMAIN issued : issued[h] = c => Holds(h)
    /\ \A u \in Threads : u # t /\ calls[u].pc = "inside" => calls[u].cell # c
    /\ call.pc # "idle" => call.handle \in DOMAIN issued /\ issued[call.handle] = call.cell
    /\ call.pc = "inside" => call.cell = c /\ v.holder = t /\ Holds(call.handle)

\* Such a step keeps the invariant.
LEMMA CellStepInv ==
  ASSUME TableInv, NEW t \in Threads, NEW c, NEW v, NEW call, CellStep(t, c, v, call)
  PROVE  TableInv'
<1> USE DEF CellStep
<1> USE DEF TableInv
<1>1. /\ cells' \in Seq(Cell) /\ Len(cells') = Len(cells)
      /\ cells'[c] = v
      /\ \A k \in 1 .. Len(cells) : k # c => cells'[k] = cells[k]
  BY DEF TableTypeOK
<1>2. /\ calls' \in [Threads -> CallState]
      /\ calls'[t] = call
      /\ \A u \in Threads : u # t => calls'[u] = calls[u]
  BY DEF TableTypeOK
<1>3. TableTypeOK'
  BY <1>1, <1>2 DEF TableTypeOK
<1>4. SlotsInv' /\ IssuedInv'
  BY <1>1 DEF SlotsInv, IssuedInv
<1>5. \A h \in DOMAIN issued : Holds(h)' <=> Holds(h)
  BY DEF Holds
<1>6. FullInv'
  <2> SUFFICES ASSUME NEW h \in DOMAIN issued, InUse(cells'[issued[h]]) PROVE Holds(h)
    BY <1>5 DEF FullInv, InUse
  <2>1. CASE issued[h] = c
    BY <2>1, <1>1
  <2>2. CASE issued[h] # c
    BY <2>2, <1>1 DEF FullInv, IssuedInv
  <2> QED BY <2>1, <2>2
<1>7. CallsInv'
  <2> SUFFICES ASSUME NEW u \in Threads
               PROVE  /\ calls'[u].pc # "idle" =>
                           /\ calls'[u].handle \in DOMAIN issued
                           /\ issued[calls'[u].handle] = calls'[u].cell
                      /\ calls'[u].pc = "inside" =>
                           /\ cells'[calls'[u].cell].holder = u
                           /\ Holds(calls'[u].handle)
    BY <1>5 DEF CallsInv
  <2>1. CASE u = t
    BY <2>1, <1>1, <1>2
  <2>2. CASE u # t
    <3>1. calls'[u] = calls[u]
      BY <2>2, <1>2
    <3>2. calls[u].pc = "inside" =>
            calls[u].cell \in 1 .. Len(cells) /\ cells'[calls[u].cell] = cells[calls[u].cell]
      BY <2>2, <1>1 DEF CallsInv, IssuedInv
    <3> QED BY <3>1, <3>2 DEF CallsInv
  <2> QED BY <2>1, <2>2
<1> QED BY <1>3, <1>4, <1>6, <1>7

\* What the invariant says of a thread that is inside a cell.
LEMMA InsideFacts ==
  ASSUME TableInv, NEW t \in Threads, calls[t].pc = "inside"
  PROVE  /\ calls[t].cell \in 1 .. Len(cells)
         /\ calls[t].handle \in DOMAIN issued
         /\ issued[calls[t].handle] = calls[t].cell
         /\ cells[calls[t].cell].holder = t
         /\ Holds(calls[t].handle)
         /\ \A u \in Threads : u # t /\ calls[u].pc = "inside" => calls[u].cell # calls[t].cell
         /\ StillThere(t)
<1>1. /\ calls[t].handle \in DOMAIN issued
      /\ issued[calls[t].handle] = calls[t].cell
      /\ cells[calls[t].cell].holder = t
      /\ Holds(calls[t].handle)
  BY DEF TableInv, CallsInv
<1>2. /\ calls[t].cell \in 1 .. Len(cells)
      /\ calls[t].handle.slot \in 1 .. Len(slots)
  BY <1>1 DEF TableInv, IssuedInv
<1>3. \A u \in Threads : u # t /\ calls[u].pc = "inside" => calls[u].cell # calls[t].cell
  BY <1>1 DEF TableInv, CallsInv
<1>4. StillThere(t)
  BY <1>1, <1>2 DEF StillThere, Holds
<1> QED BY <1>1, <1>2, <1>3, <1>4

\* resolve keeps the invariant: what it finds is the object the handle was issued for.
LEMMA ResolveInv ==
  ASSUME TableInv, NEW t \in Threads, NEW kind \in Kinds, NEW h \in AllHandles, Resolve(t, kind, h)
  PROVE  TableInv'
<1> DEFINE found == [pc |-> "lock", kind |-> kind, handle |-> h, cell |-> slots[h.slot].cell]
<1>1. /\ slots' = slots /\ cells' = cells /\ issued' = issued
      /\ calls' = [calls EXCEPT ![t] = IF Resolution(h) = "Found" THEN found ELSE Idle]
  BY DEF Resolve
<1>2. Resolution(h) = "Found" => found \in CallState /\ h \in DOMAIN issued /\ issued[h] = found.cell
  <2> SUFFICES ASSUME Resolution(h) = "Found"
               PROVE  found \in CallState /\ h \in DOMAIN issued /\ issued[h] = found.cell
    OBVIOUS
  <2>1. /\ h.slot \in 1 .. Len(slots) /\ slots[h.slot].cell # 0
        /\ h.generation = slots[h.slot].generation
    BY DEF Resolution, AllHandles, TableInv, TableTypeOK
  <2>2. h = [slot |-> h.slot, generation |-> slots[h.slot].generation]
    BY <2>1 DEF AllHandles
  <2>3. h \in DOMAIN issued /\ issued[h] = slots[h.slot].cell /\ slots[h.slot].cell \in Nat
    BY <2>1, <2>2 DEF TableInv, SlotsInv
  <2> QED BY <2>3 DEF CallState
<1>3. Idle \in CallState /\ Idle.pc = "idle"
  BY DEF Idle, CallState
<1>4. /\ calls' \in [Threads -> CallState]
      /\ \A u \in Threads : u # t => calls'[u] = calls[u]
      /\ calls'[t] = IF Resolution(h) = "Found" THEN found ELSE Idle
  BY <1>1, <1>2, <1>3 DEF TableInv, TableTypeOK
<1>5. TableTypeOK' /\ SlotsInv' /\ IssuedInv' /\ FullInv'
  BY <1>1, <1>4 DEF TableInv, TableTypeOK, SlotsInv, IssuedInv, FullInv, InUse, Holds
<1>6. CallsInv'
  <2> SUFFICES ASSUME NEW u \in Threads
               PROVE  /\ calls'[u].pc # "idle" =>
                           /\ calls'[u].handle \in DOMAIN issued
                           /\ issued[calls'[u].handle] = calls'[u].cell
                      /\ calls'[u].pc = "inside" =>
                           /\ cells[calls'[u].cell].holder = u
                           /\ Holds(calls'[u].handle)
    BY <1>1 DEF CallsInv, Holds
  <2>1. CASE u = t
    BY <2>1, <1>2, <1>3, <1>4
  <2>2. CASE u # t
    BY <2>2, <1>4 DEF TableInv, CallsInv
  <2> QED BY <2>1, <2>2, SMTT(30)
<1> QED BY <1>5, <1>6 DEF TableInv

\* try_lock keeps the invariant: it enters a cell nobody is in and that has its value,
\* and such a cell is still the one the slot holds.
LEMMA TryLockInv ==
  ASSUME TableInv, NEW t \in Threads, TryLock(t)
  PROVE  TableInv'
<1> DEFINE c == calls[t].cell
           call == [calls[t] EXCEPT !.pc = "inside"]
           v == [cells[c] EXCEPT !.holder = t, !.full = calls[t].kind # "consume"]
<1>1. /\ calls[t].handle \in DOMAIN issued
      /\ issued[calls[t].handle] = c
      /\ c \in 1 .. Len(cells)
      /\ slots' = slots /\ issued' = issued
      /\ calls[t] \in CallState /\ calls[t].pc = "lock"
      /\ cells[c] \in Cell
  BY DEF TableInv, CallsInv, IssuedInv, TryLock, TableTypeOK
<1>2. CASE LockResult(t) = "Locked"
  <2>1. cells[c].holder = Nobody /\ cells[c].full
    BY <1>2 DEF LockResult
  <2>2. \A h \in DOMAIN issued : issued[h] = c => Holds(h)
    BY <2>1 DEF TableInv, FullInv, InUse
  <2>3. \A u \in Threads : calls[u].pc = "inside" => calls[u].cell # c
    BY <2>1, TableAssumption DEF TableInv, CallsInv
  <2>4. v \in Cell /\ v.holder = t
    BY <1>1, Zenon DEF Cell
  <2>5. /\ call \in CallState /\ call.pc = "inside" /\ call.cell = c
        /\ call.handle = calls[t].handle
    BY <1>1 DEF CallState
  <2>6. cells' = [cells EXCEPT ![c] = v] /\ calls' = [calls EXCEPT ![t] = call]
    BY <1>2, <1>1 DEF TryLock
  <2> HIDE DEF v, call, c
  <2>7. Holds(call.handle) /\ call.handle \in DOMAIN issued /\ issued[call.handle] = call.cell
    BY <1>1, <2>2, <2>5
  <2>8. CellStep(t, c, v, call)
    BY <1>1, <2>2, <2>3, <2>4, <2>5, <2>6, <2>7 DEF CellStep
  <2> QED BY <2>8, CellStepInv
<1>3. CASE LockResult(t) # "Locked"
  <2>1. cells' = cells /\ calls' = [calls EXCEPT ![t] = Idle]
    BY <1>3 DEF TryLock
  <2>2. Idle \in CallState /\ Idle.pc = "idle"
    BY DEF Idle, CallState
  <2>3. /\ calls' \in [Threads -> CallState]
        /\ calls'[t] = Idle
        /\ \A u \in Threads : u # t => calls'[u] = calls[u]
    BY <2>1, <2>2 DEF TableInv, TableTypeOK
  <2>4. TableTypeOK' /\ SlotsInv' /\ IssuedInv' /\ FullInv'
    BY <1>1, <2>1, <2>3 DEF TableInv, TableTypeOK, SlotsInv, IssuedInv, FullInv, InUse, Holds
  <2>5. CallsInv'
    BY <1>1, <2>1, <2>2, <2>3 DEF TableInv, CallsInv, Holds
  <2> QED BY <2>4, <2>5 DEF TableInv
<1> QED BY <1>2, <1>3

\* Dropping the guard of a cell keeps the invariant, whatever is left in the cell: Leave,
\* GiveBack and Panic.
LEMMA UnlockInv ==
  ASSUME TableInv, NEW t \in Threads, calls[t].pc = "inside",
         NEW full \in BOOLEAN, NEW poisoned \in BOOLEAN, Unlock(t, full, poisoned),
         calls' = [calls EXCEPT ![t] = Idle], slots' = slots, issued' = issued
  PROVE  TableInv'
<1> DEFINE c == calls[t].cell
           v == [full |-> full, holder |-> Nobody, poisoned |-> poisoned]
<1>1. /\ c \in 1 .. Len(cells)
      /\ cells[c].holder = t
      /\ \A u \in Threads : u # t /\ calls[u].pc = "inside" => calls[u].cell # c
  BY InsideFacts
<1>2. \A h \in DOMAIN issued : issued[h] = c => Holds(h)
  BY <1>1, TableAssumption DEF TableInv, FullInv, InUse
<1>3. v \in Cell
  BY Zenon DEF Cell
<1>4. Idle \in CallState /\ Idle.pc = "idle"
  BY DEF Idle, CallState
<1>5. cells' = [cells EXCEPT ![c] = v]
  BY DEF Unlock
<1> HIDE DEF c, v
<1>6. CellStep(t, c, v, Idle)
  BY <1>1, <1>2, <1>3, <1>4, <1>5 DEF CellStep
<1> QED BY <1>6, CellStepInv

\* Emptying a slot keeps the invariant: its handles fall behind, and only the caller was
\* inside its cell.
LEMMA ClearInv ==
  ASSUME TableInv, NEW t \in Threads, calls[t].pc = "inside", Clear(t)
  PROVE  TableInv'
<1> DEFINE c == calls[t].cell
           i == calls[t].handle.slot
           g == slots[i].generation
           v == [full |-> FALSE, holder |-> Nobody, poisoned |-> FALSE]
           s == [generation |-> NextGeneration(g), cell |-> 0]
<1>1. /\ c \in 1 .. Len(cells)
      /\ cells[c].holder = t
      /\ calls[t].handle \in DOMAIN issued
      /\ issued[calls[t].handle] = c
      /\ StillThere(t)
      /\ \A u \in Threads : u # t /\ calls[u].pc = "inside" => calls[u].cell # c
  BY InsideFacts
<1>2. /\ cells' = [cells EXCEPT ![c] = v]
      /\ slots' = [slots EXCEPT ![i] = s]
      /\ calls' = [calls EXCEPT ![t] = Idle]
      /\ issued' = issued
  BY <1>1 DEF Clear, Unlock
<1>3. /\ i \in 1 .. Len(slots) /\ slots[i].cell = c /\ c # 0
      /\ Len(cells) \in Nat /\ Len(slots) \in Nat
      /\ g \in 1 .. Len(cells) /\ g + 1 # Width
  <2>1. i \in 1 .. Len(slots) /\ slots[i].cell = c /\ c # 0
    BY <1>1 DEF TableInv, IssuedInv, StillThere
  <2>2. Len(cells) \in Nat /\ Len(slots) \in Nat /\ Len(cells) <= MaxCells
    BY DEF TableInv, TableTypeOK
  <2>3. g \in 1 .. Len(cells) + 1
    BY <2>1, Zenon DEF TableInv, SlotsInv
  <2>4. g <= Len(cells)
    BY <2>1, Zenon DEF TableInv, SlotsInv
  <2> QED BY <2>1, <2>2, <2>3, <2>4, TableAssumption, SMTT(30)
<1>4. NextGeneration(g) = g + 1
  BY <1>3 DEF NextGeneration
<1>5. v \in Cell /\ ~InUse(v)
  BY DEF Cell, InUse
<1>6. s \in Slot /\ s.generation = g + 1 /\ s.cell = 0
  BY <1>3, <1>4 DEF Slot
<1>7. Idle \in CallState /\ Idle.pc = "idle"
  BY DEF Idle, CallState
<1> HIDE DEF c, i, g, v, s
<1>8. /\ cells' \in Seq(Cell) /\ Len(cells') = Len(cells)
      /\ cells'[c] = v
      /\ \A k \in 1 .. Len(cells) : k # c => cells'[k] = cells[k]
  BY <1>1, <1>2, <1>5 DEF TableInv, TableTypeOK
<1>9. /\ slots' \in Seq(Slot) /\ Len(slots') = Len(slots)
      /\ slots'[i] = s
      /\ \A k \in 1 .. Len(slots) : k # i => slots'[k] = slots[k]
  BY <1>2, <1>3, <1>6 DEF TableInv, TableTypeOK
<1>10. /\ calls' \in [Threads -> CallState]
       /\ calls'[t] = Idle
       /\ \A u \in Threads : u # t => calls'[u] = calls[u]
  BY <1>2, <1>7 DEF TableInv, TableTypeOK
<1>11. TableTypeOK'
  BY <1>2, <1>8, <1>9, <1>10 DEF TableInv, TableTypeOK
<1>12. SlotsInv'
  <2> SUFFICES ASSUME NEW j \in 1 .. Len(slots)
               PROVE  /\ slots'[j].generation \in 1 .. Len(cells) + 1
                      /\ slots'[j].cell # 0 =>
                           /\ slots'[j].cell \in 1 .. Len(cells)
                           /\ slots'[j].generation <= Len(cells)
                           /\ [slot |-> j, generation |-> slots'[j].generation] \in DOMAIN issued
                           /\ issued[[slot |-> j, generation |-> slots'[j].generation]] = slots'[j].cell
    BY <1>2, <1>8, <1>9 DEF SlotsInv
  <2>1. CASE j = i
    BY <2>1, <1>3, <1>6, <1>9
  <2>2. CASE j # i
    BY <2>2, <1>9 DEF TableInv, SlotsInv
  <2> QED BY <2>1, <2>2
<1>13. IssuedInv'
  <2> SUFFICES ASSUME NEW k \in DOMAIN issued
               PROVE  /\ k.slot \in 1 .. Len(slots)
                      /\ k.generation >= 1
                      /\ issued[k] \in 1 .. Len(cells)
                      /\ k.generation <= slots'[k.slot].generation
                      /\ slots'[k.slot].cell = 0 => k.generation < slots'[k.slot].generation
    BY <1>2, <1>8, <1>9 DEF IssuedInv
  <2>1. /\ k.slot \in 1 .. Len(slots) /\ k.generation \in Nat /\ k.generation >= 1
        /\ issued[k] \in 1 .. Len(cells)
        /\ k.generation <= slots[k.slot].generation
        /\ slots[k.slot].cell = 0 => k.generation < slots[k.slot].generation
    BY DEF TableInv, IssuedInv, TableTypeOK, AllHandles
  <2>2. CASE k.slot = i
    BY <2>1, <2>2, <1>3, <1>6, <1>9 DEF g
  <2>3. CASE k.slot # i
    BY <2>1, <2>3, <1>9
  <2> QED BY <2>2, <2>3
<1>14. \A k \in DOMAIN issued : Holds(k) /\ issued[k] # c => Holds(k)'
  <2> SUFFICES ASSUME NEW k \in DOMAIN issued, Holds(k), issued[k] # c PROVE Holds(k)'
    OBVIOUS
  <2>1. k.slot # i /\ k.slot \in 1 .. Len(slots)
    BY <1>3 DEF Holds, TableInv, IssuedInv
  <2> QED BY <2>1, <1>2, <1>9 DEF Holds
<1>15. FullInv'
  <2> SUFFICES ASSUME NEW k \in DOMAIN issued, InUse(cells'[issued[k]]) PROVE Holds(k)'
    BY <1>2 DEF FullInv, InUse
  <2>1. issued[k] # c
    BY <1>5, <1>8
  <2>2. InUse(cells[issued[k]])
    BY <2>1, <1>8 DEF TableInv, IssuedInv
  <2> QED BY <2>1, <2>2, <1>14 DEF TableInv, FullInv
<1>16. CallsInv'
  <2> SUFFICES ASSUME NEW u \in Threads
               PROVE  /\ calls'[u].pc # "idle" =>
                           /\ calls'[u].handle \in DOMAIN issued
                           /\ issued[calls'[u].handle] = calls'[u].cell
                      /\ calls'[u].pc = "inside" =>
                           /\ cells'[calls'[u].cell].holder = u
                           /\ Holds(calls[u].handle)'
    BY <1>2 DEF CallsInv, Holds
  <2>1. CASE u = t
    BY <2>1, <1>7, <1>10
  <2>2. CASE u # t
    <3>1. calls'[u] = calls[u]
      BY <2>2, <1>10
    <3>2. calls[u].pc # "idle" =>
            calls[u].handle \in DOMAIN issued /\ issued[calls[u].handle] = calls[u].cell
      BY DEF TableInv, CallsInv
    <3>3. ASSUME calls[u].pc = "inside"
          PROVE  cells'[calls[u].cell].holder = u /\ Holds(calls[u].handle)'
      <4>1. /\ calls[u].handle \in DOMAIN issued
            /\ issued[calls[u].handle] = calls[u].cell
            /\ calls[u].cell # c
            /\ calls[u].cell \in 1 .. Len(cells)
            /\ cells[calls[u].cell].holder = u
            /\ Holds(calls[u].handle)
        BY <2>2, <3>2, <3>3, <1>1 DEF TableInv, CallsInv, IssuedInv
      <4>2. cells'[calls[u].cell] = cells[calls[u].cell]
        BY <4>1, <1>8, SMTT(30)
      <4>3. Holds(calls[u].handle)'
        BY <4>1, <3>1, <1>2, <1>3, <1>9 DEF Holds, TableInv, IssuedInv
      <4> QED BY <4>1, <4>2, <4>3
    <3> QED BY <3>1, <3>2, <3>3
  <2> QED BY <2>1, <2>2, SMTT(30)
<1> QED BY <1>11, <1>12, <1>13, <1>15, <1>16 DEF TableInv

\* Every step of the table keeps the invariant.
LEMMA StepInv == TableInv /\ [TableNext]_tableVars => TableInv'
<1> SUFFICES ASSUME TableInv, [TableNext]_tableVars PROVE TableInv'
  OBVIOUS
<1>1. ASSUME NEW i \in 1 .. Len(slots) + 1, Insert(i) PROVE TableInv'
  BY <1>1, InsertInv
<1>2. ASSUME NEW t \in Threads, NEW kind \in Kinds, NEW h \in Handles, Resolve(t, kind, h)
      PROVE  TableInv'
  BY <1>2, ResolveInv, TableAssumption
<1>3. ASSUME NEW t \in Threads, TryLock(t) PROVE TableInv'
  BY <1>3, TryLockInv
<1>4. ASSUME NEW t \in Threads, Leave(t) \/ GiveBack(t) PROVE TableInv'
  <2>1. /\ calls[t].pc = "inside" /\ Unlock(t, TRUE, FALSE)
        /\ calls' = [calls EXCEPT ![t] = Idle] /\ slots' = slots /\ issued' = issued
    BY <1>4, Zenon DEF Leave, GiveBack, Inside
  <2> QED BY <2>1, UnlockInv, Zenon
<1>5. ASSUME NEW t \in Threads, Close(t) \/ Consumed(t) PROVE TableInv'
  BY <1>5, ClearInv DEF Close, Consumed, Inside
<1>6. ASSUME NEW t \in Threads, Panic(t) PROVE TableInv'
  <2>1. PICK kind \in {"with", "consume"} : Inside(t, kind) /\ Unlock(t, kind = "with", TRUE)
    BY <1>6, Zenon DEF Panic
  <2>2. /\ calls[t].pc = "inside"
        /\ calls' = [calls EXCEPT ![t] = Idle] /\ slots' = slots /\ issued' = issued
    BY <1>6, <2>1 DEF Panic, Inside
  <2>3. Unlock(t, TRUE, TRUE) \/ Unlock(t, FALSE, TRUE)
    <3>1. CASE kind = "with"
      BY <2>1, <3>1, Zenon DEF Unlock
    <3>2. CASE kind = "consume"
      BY <2>1, <3>2, Zenon DEF Unlock
    <3> QED BY <2>1, <3>1, <3>2, Zenon
  <2> QED BY <2>2, <2>3, UnlockInv, Zenon
<1>7. ASSUME UNCHANGED tableVars PROVE TableInv'
  BY <1>7 DEF tableVars, TableInv, TableTypeOK, SlotsInv, IssuedInv, FullInv, InUse, Holds, CallsInv
<1> QED BY <1>1, <1>2, <1>3, <1>4, <1>5, <1>6, <1>7 DEF TableNext

\* The invariant holds in every state the table can be in.
LEMMA TableInvariant == TableSpec => []TableInv
  BY InitInv, StepInv, PTL DEF TableSpec

--------------------------------------------------------------------------------
(* The promises *)

\* Whatever the host's threads do, a call works on the object its handle was issued for:
\* the steps of with, close and consume_if may be interleaved with any number of closings
\* and insertions.
THEOREM HandlesNameOneObject == TableSpec => []HandleNamesOneObject
<1>1. TableInv => HandleNamesOneObject
  BY DEF TableInv, CallsInv, HandleNamesOneObject
<1> QED BY <1>1, TableInvariant, PTL

\* The second check of close and consume_if, under the table's mutex, never fails.
THEOREM ClearingIsCertain == TableSpec => []ClearIsCertain
<1>1. TableInv => ClearIsCertain
  BY InsideFacts DEF ClearIsCertain
<1> QED BY <1>1, TableInvariant, PTL

\* A slot never goes back to an earlier generation, so a handle that has gone stale stays
\* stale (next_generation, insert).
THEOREM StaleHandlesStayStale == TableSpec => StaleStaysStale
<1>1. ASSUME TableInv, TableInv', [TableNext]_tableVars, NEW h \in DOMAIN issued,
             Resolution(h) = "Stale"
      PROVE  Resolution(h)' = "Stale"
  <2>1. /\ h.slot \in 1 .. Len(slots) /\ h.generation \in Nat /\ h.generation >= 1
        /\ slots[h.slot].generation \in Nat
        /\ h.generation < slots[h.slot].generation
    <3>1. /\ h.slot \in 1 .. Len(slots) /\ h.generation \in Nat /\ h.generation >= 1
          /\ slots[h.slot].generation \in Nat
      <4>1. h.slot \in 1 .. Len(slots) /\ h.generation >= 1
        BY <1>1 DEF TableInv, IssuedInv
      <4>2. h.generation \in Nat
        BY <1>1 DEF TableInv, TableTypeOK, AllHandles
      <4>3. slots[h.slot] \in Slot
        BY <1>1, <4>1 DEF TableInv, TableTypeOK
      <4> QED BY <4>1, <4>2, <4>3 DEF Slot
    <3>2. slots[h.slot].generation # h.generation \/ slots[h.slot].cell = 0
      BY <1>1, <3>1 DEF Resolution
    <3> QED BY <1>1, <3>1, <3>2 DEF TableInv, IssuedInv
  <2>2. \/ slots' = slots
        \/ \E i \in 1 .. Len(slots) + 1 : Insert(i)
        \/ \E t \in Threads : calls[t].pc = "inside" /\ Clear(t)
    BY <1>1, Zenon DEF TableNext, tableVars, Resolve, TryLock, Leave, GiveBack, Close, Consumed,
                Panic, Inside
  <2>3. /\ Len(slots') >= Len(slots) /\ Len(slots') \in Nat /\ Len(slots) \in Nat
        /\ slots'[h.slot].generation \in Nat
        /\ slots'[h.slot].generation >= slots[h.slot].generation
    <3>1. CASE slots' = slots
      BY <2>1, <3>1, <1>1 DEF TableInv, TableTypeOK
    <3>2. ASSUME NEW i \in 1 .. Len(slots) + 1, Insert(i)
          PROVE  /\ Len(slots') >= Len(slots) /\ Len(slots') \in Nat /\ Len(slots) \in Nat
                 /\ slots'[h.slot].generation = slots[h.slot].generation
      <4>0. slots \in Seq(Slot) /\ Len(slots) \in Nat
        BY <1>1 DEF TableInv, TableTypeOK
      <4>1. CASE i <= Len(slots)
        <5>1. slots' = [slots EXCEPT ![i] = [generation |-> slots[i].generation, cell |-> Len(cells) + 1]]
          BY <3>2, <4>1 DEF Insert, HandleFor
        <5> QED BY <5>1, <4>0, <4>1, <2>1
      <4>2. CASE ~(i <= Len(slots))
        <5>1. slots' = Append(slots, [generation |-> 1, cell |-> Len(cells) + 1])
          BY <3>2, <4>2 DEF Insert, HandleFor
        <5> QED BY <5>1, <4>0, <2>1
      <4> QED BY <4>1, <4>2
    <3>3. ASSUME NEW t \in Threads, calls[t].pc = "inside", Clear(t)
          PROVE  /\ Len(slots') >= Len(slots) /\ Len(slots') \in Nat /\ Len(slots) \in Nat
                 /\ slots'[h.slot].generation \in Nat
                 /\ slots'[h.slot].generation >= slots[h.slot].generation
      <4> DEFINE i == calls[t].handle.slot
                 g == slots[i].generation
      <4>0. /\ slots \in Seq(Slot) /\ Len(slots) \in Nat /\ Len(cells) \in Nat
            /\ Len(cells) <= MaxCells
        BY <1>1, SMTT(30) DEF TableInv, TableTypeOK
      <4>1. StillThere(t) /\ calls[t].cell # 0 /\ i \in 1 .. Len(slots) /\ slots[i].cell # 0
        BY <1>1, <3>3, InsideFacts, SMTT(30) DEF TableInv, IssuedInv, StillThere
      <4>2. slots' = [slots EXCEPT ![i] = [generation |-> NextGeneration(g), cell |-> 0]]
        BY <3>3, <4>1 DEF Clear
      <4>3. g \in 1 .. Len(cells) + 1
        BY <1>1, <4>1, Zenon DEF TableInv, SlotsInv
      <4>4. g <= Len(cells)
        BY <1>1, <4>1, Zenon DEF TableInv, SlotsInv
      <4>5. NextGeneration(g) = g + 1 /\ g \in Nat
        BY <4>0, <4>3, <4>4, TableAssumption, SMTT(30) DEF NextGeneration
      <4> HIDE DEF i, g
      <4>6. CASE h.slot = i
        BY <4>0, <4>2, <4>5, <4>6, <2>1 DEF g
      <4>7. CASE h.slot # i
        BY <4>0, <4>2, <4>7, <2>1
      <4> QED BY <4>6, <4>7
    <3> QED BY <2>1, <2>2, <3>1, <3>2, <3>3
  <2> QED BY <2>1, <2>3 DEF Resolution
<1>2. TableInv /\ TableInv' /\ [TableNext]_tableVars =>
        [\A h \in DOMAIN issued : Resolution(h) = "Stale" => Resolution(h)' = "Stale"]_tableVars
  BY <1>1
<1> QED BY <1>2, TableInvariant, PTL DEF TableSpec, StaleStaysStale

--------------------------------------------------------------------------------
(* What a module that uses a table relies on *)

\* insert leaves the calls, the old objects and the old handles alone.
LEMMA InsertedThen ==
  ASSUME TableInv, InsertStep
  PROVE  /\ calls' = calls
         /\ Len(cells') = Len(cells) + 1
         /\ \A c \in 1 .. Len(cells) : cells'[c] = cells[c]
         /\ Len(slots') <= Len(slots) \/ Len(slots') <= Len(slots) + 1
         /\ \A h \in DOMAIN issued : h \in DOMAIN issued' /\ issued'[h] = issued[h]
<1>0. PICK i \in 1 .. Len(slots) + 1 : Insert(i)
  BY DEF InsertStep
<1> DEFINE h == HandleFor(i)
<1>1. slots \in Seq(Slot) /\ Len(slots) \in Nat /\ cells \in Seq(Cell) /\ Len(cells) \in Nat
  BY DEF TableInv, TableTypeOK
<1>2. h.slot = i /\ h.generation = (IF i <= Len(slots) THEN slots[i].generation ELSE 1)
  BY DEF HandleFor
<1>3. i <= Len(slots) => slots[i].cell = 0
  BY <1>0 DEF Insert, FirstFree
<1>4. h \notin DOMAIN issued
  <2> SUFFICES ASSUME h \in DOMAIN issued
               PROVE  FALSE
    OBVIOUS
  <2>1. h.slot \in 1 .. Len(slots) /\ h.generation <= slots[h.slot].generation
          /\ (slots[h.slot].cell = 0 => h.generation < slots[h.slot].generation)
    BY DEF TableInv, IssuedInv
  <2>2. slots[i] \in Slot
    BY <1>1, <1>2, <2>1
  <2> QED
    BY <1>1, <1>2, <1>3, <2>1, <2>2 DEF Slot
<1>5. issued' = [k \in DOMAIN issued \cup {h} |-> IF k = h THEN Len(cells) + 1 ELSE issued[k]]
  BY <1>0 DEF Insert, Issue
<1>6. cells' = Append(cells, [full |-> TRUE, holder |-> Nobody, poisoned |-> FALSE]) /\ calls' = calls
  BY <1>0 DEF Insert
<1>7. Len(slots') \in {Len(slots), Len(slots) + 1}
  BY <1>0, <1>1 DEF Insert
<1> HIDE DEF h
<1>8. \A k \in DOMAIN issued : k \in DOMAIN issued' /\ issued'[k] = issued[k]
  BY <1>4, <1>5
<1>9. Len(cells') = Len(cells) + 1 /\ \A c \in 1 .. Len(cells) : cells'[c] = cells[c]
  BY <1>1, <1>6
<1> QED
  BY <1>1, <1>6, <1>7, <1>8, <1>9

\* A call changes at most the cell it works on.
LEMMA SteppedThen ==
  ASSUME TableInv, NEW t \in Threads, StepOf(t)
  PROVE  /\ issued' = issued
         /\ Len(cells') = Len(cells) /\ Len(slots') = Len(slots)
         /\ \A u \in Threads : u # t => calls'[u] = calls[u]
         /\ \A c \in 1 .. Len(cells) :
               \/ cells'[c] = cells[c]
               \/ /\ calls[t].pc = "inside" \/ cells[c].full
                  /\ calls[t].pc # "idle" /\ calls[t].cell = c
<1>0. /\ slots \in Seq(Slot) /\ cells \in Seq(Cell) /\ calls \in [Threads -> CallState]
      /\ calls[t].pc # "idle" => calls[t].cell \in 1 .. Len(cells)
  BY SMTT(30) DEF TableInv, TableTypeOK, CallsInv, IssuedInv
<1>1. CASE \E kind \in Kinds, h \in Handles : Resolve(t, kind, h)
  BY <1>0, <1>1 DEF Resolve
<1>2. CASE TryLock(t)
  <2>1. issued' = issued /\ slots' = slots /\ calls[t].pc = "lock"
    BY <1>2 DEF TryLock
  <2>2. \A u \in Threads : u # t => calls'[u] = calls[u]
    BY <1>0, <1>2 DEF TryLock
  <2>3. LockResult(t) = "Locked" => cells[calls[t].cell].full
    BY DEF LockResult
  <2>4. \/ cells' = cells
        \/ LockResult(t) = "Locked" /\ \E v : cells' = [cells EXCEPT ![calls[t].cell] = v]
    BY <1>2 DEF TryLock
  <2>5. Len(cells') = Len(cells)
    BY <1>0, <2>4
  <2> QED
    BY <1>0, <2>1, <2>2, <2>3, <2>4, <2>5
<1>3. CASE Leave(t) \/ GiveBack(t) \/ Close(t) \/ Consumed(t) \/ Panic(t)
  <2>1. issued' = issued /\ calls[t].pc = "inside" /\ calls' = [calls EXCEPT ![t] = Idle]
    BY <1>3, Zenon DEF Leave, GiveBack, Close, Consumed, Panic, Clear, Inside
  <2>2. \E v : cells' = [cells EXCEPT ![calls[t].cell] = v]
    BY <1>3, SMTT(30) DEF Leave, GiveBack, Close, Consumed, Panic, Clear, Unlock
  <2>3. slots' = slots \/ \E v : slots' = [slots EXCEPT ![calls[t].handle.slot] = v]
    BY <1>3, Zenon DEF Leave, GiveBack, Close, Consumed, Panic, Clear
  <2>4. Len(slots') = Len(slots)
    BY <1>0, <2>3
  <2>5. Len(cells') = Len(cells) /\ \A c \in 1 .. Len(cells) :
            cells'[c] = cells[c] \/ calls[t].cell = c
    BY <1>0, <2>2
  <2> QED
    BY <1>0, <2>1, <2>4, <2>5
<1> QED
  BY <1>1, <1>2, <1>3 DEF StepOf

\* What thread t is doing in the table after its step.
LEMMA CallThen ==
  ASSUME TableInv, NEW t \in Threads
  PROVE  /\ Leave(t) \/ GiveBack(t) \/ Close(t) \/ Consumed(t) \/ Panic(t) =>
               calls[t].pc = "inside" /\ calls'[t].pc = "idle"
         /\ TryLock(t) =>
               /\ calls[t].pc = "lock"
               /\ \/ calls'[t].pc = "idle"
                  \/ /\ calls'[t].pc = "inside"
                     /\ calls'[t].kind = calls[t].kind
                     /\ calls'[t].handle = calls[t].handle
                     /\ calls'[t].cell = calls[t].cell
         /\ \A kind, h : Resolve(t, kind, h) =>
               /\ calls[t].pc = "idle"
               /\ \/ calls'[t].pc = "idle"
                  \/ /\ calls'[t].pc = "lock"
                     /\ calls'[t].kind = kind
                     /\ calls'[t].handle = h
<1>0. calls \in [Threads -> CallState]
  BY DEF TableInv, TableTypeOK
<1>1. CASE Leave(t) \/ GiveBack(t) \/ Close(t) \/ Consumed(t) \/ Panic(t)
  <2>1. calls[t].pc = "inside" /\ calls' = [calls EXCEPT ![t] = Idle]
    BY <1>1, Zenon DEF Leave, GiveBack, Close, Consumed, Panic, Clear, Inside
  <2> QED
    BY <1>0, <2>1 DEF Idle, TryLock, Resolve
<1>2. CASE TryLock(t)
  <2>1. calls[t].pc = "lock"
    BY <1>2 DEF TryLock
  <2>2. \/ calls' = [calls EXCEPT ![t] = Idle]
        \/ calls' = [calls EXCEPT ![t] = [calls[t] EXCEPT !.pc = "inside"]]
    BY <1>0, <1>2 DEF TryLock
  <2>3. calls[t] \in [pc : {"lock", "inside"}, kind : Kinds, handle : AllHandles, cell : Nat]
    BY <1>0, <2>1 DEF CallState
  <2>4. \/ calls'[t] = Idle
        \/ calls'[t] = [calls[t] EXCEPT !.pc = "inside"]
    BY <1>0, <2>2
  <2> QED
    BY <2>1, <2>3, <2>4, <1>1 DEF Idle, Resolve
<1>3. ASSUME NEW kind, NEW h, Resolve(t, kind, h)
      PROVE  /\ calls[t].pc = "idle"
             /\ \/ calls'[t].pc = "idle"
                \/ /\ calls'[t].pc = "lock"
                   /\ calls'[t].kind = kind
                   /\ calls'[t].handle = h
  BY <1>0, <1>3, SMTT(30) DEF Resolve, Idle
<1> QED
  BY <1>1, <1>2, <1>3

\* A call gets inside only where there is a value.
LEMMA TakenThen ==
  ASSUME TableInv, NEW t \in Threads, StepOf(t), calls'[t].pc = "inside"
  PROVE  calls[t].pc = "lock" /\ cells[calls[t].cell].full /\ calls'[t].cell = calls[t].cell
<1>1. TryLock(t)
  BY CallThen DEF StepOf
<1>2. LockResult(t) = "Locked"
  <2>1. LockResult(t) # "Locked" => calls'[t].pc = "idle"
    BY <1>1 DEF TryLock, Idle, TableInv, TableTypeOK
  <2> QED
    BY <2>1
<1> QED
  BY <1>1, <1>2, CallThen, SMTT(30) DEF LockResult

\* A consume_if whose action succeeded leaves its cell empty.
LEMMA ConsumedThen ==
  ASSUME TableInv, NEW t \in Threads, Consumed(t)
  PROVE  ~cells'[calls[t].cell].full
<1>1. calls[t].pc = "inside" /\ Clear(t)
  BY DEF Consumed, Inside
<1>2. StillThere(t) /\ calls[t].cell \in 1 .. Len(cells)
  BY <1>1, InsideFacts
<1>3. cells \in Seq(Cell)
  BY DEF TableInv, TableTypeOK
<1>4. cells' = [cells EXCEPT ![calls[t].cell] =
                  [full |-> FALSE, holder |-> Nobody, poisoned |-> FALSE]]
  BY <1>1, <1>2 DEF Clear, Unlock
<1> QED
  BY <1>2, <1>3, <1>4

LEMMA InitUser == TableInit => UserInv
BY DEF TableInit, UserInv, Inside, Idle

LEMMA StepUser ==
  ASSUME TableInv, UserInv, [InsertStep \/ \E t \in Threads : StepOf(t)]_tableVars
  PROVE  UserInv'
<1>0. Len(slots) \in Nat /\ Len(cells) \in Nat
  BY DEF TableInv, TableTypeOK
<1>1. CASE UNCHANGED tableVars
  BY <1>1 DEF tableVars, UserInv, Inside
<1>2. CASE InsertStep
  <2>1. \A t \in Threads : calls[t].pc # "idle" => calls[t].cell \in 1 .. Len(cells)
    BY DEF TableInv, CallsInv, IssuedInv
  <2>2. Len(slots') <= Len(cells')
    BY <1>0, <1>2, InsertedThen, SMTT(30) DEF UserInv
  <2>3. calls' = calls /\ \A c \in 1 .. Len(cells) : cells'[c] = cells[c]
    BY <1>2, InsertedThen
  <2> QED
    BY <2>1, <2>2, <2>3 DEF UserInv, Inside
<1>3. ASSUME NEW t \in Threads, StepOf(t)
      PROVE  UserInv'
  <2>1. Len(slots') <= Len(cells')
    BY <1>3, SteppedThen DEF UserInv
  <2>2. ASSUME NEW u \in Threads, calls'[u].pc = "inside", calls'[u].kind = "consume"
        PROVE  ~cells'[calls'[u].cell].full
    <3>1. CASE u # t
      <4>1. calls'[u] = calls[u]
        BY <1>3, <3>1, SteppedThen
      <4>2. ~cells[calls[u].cell].full /\ calls[u].cell \in 1 .. Len(cells)
        BY <2>2, <4>1, InsideFacts DEF UserInv, Inside
      <4>3. ~(calls[t].pc = "inside" /\ calls[t].cell = calls[u].cell)
        BY <2>2, <3>1, <4>1, InsideFacts
      <4> QED
        BY <1>3, <4>1, <4>2, <4>3, SteppedThen
    <3>2. CASE u = t
      <4>1. TryLock(t)
        BY <1>3, <2>2, <3>2, CallThen DEF StepOf
      <4>2. /\ LockResult(t) = "Locked"
            /\ cells' = [cells EXCEPT ![calls[t].cell] =
                  [@ EXCEPT !.holder = t, !.full = calls[t].kind # "consume"]]
        <5>1. calls \in [Threads -> CallState]
          BY SMTT(30) DEF TableInv, TableTypeOK
        <5> QED
          BY <2>2, <3>2, <4>1, <5>1 DEF TryLock, Idle
      <4>3. calls'[t].kind = calls[t].kind /\ calls'[t].cell = calls[t].cell
        BY <2>2, <3>2, <4>1, CallThen
      <4>4. calls[t].cell \in 1 .. Len(cells) /\ cells \in Seq(Cell)
        BY <4>1, SMTT(30) DEF TableInv, CallsInv, IssuedInv, TryLock, TableTypeOK
      <4>5. cells'[calls[t].cell].full = (calls[t].kind # "consume")
        BY <4>2, <4>4 DEF Cell
      <4> QED
        BY <2>2, <3>2, <4>3, <4>5, Zenon
    <3> QED
      BY <3>1, <3>2
  <2> QED
    BY <2>1, <2>2 DEF UserInv, Inside
<1> QED
  BY <1>1, <1>2, <1>3

\* The handles issued are bounded by the objects inserted.
LEMMA HandleBounds ==
  ASSUME TableInv, UserInv, NEW h \in DOMAIN issued
  PROVE  h \in [slot : 0 .. MaxCells, generation : 0 .. MaxCells]
<1>1. /\ h \in AllHandles
      /\ slots \in Seq(Slot) /\ Len(slots) \in Nat
      /\ Len(cells) \in Nat /\ Len(cells) <= MaxCells /\ MaxCells \in Nat
  BY TableAssumption DEF TableInv, TableTypeOK
<1>2. /\ h.slot \in 1 .. Len(slots)
      /\ h.generation <= slots[h.slot].generation
      /\ slots[h.slot].cell = 0 => h.generation < slots[h.slot].generation
  BY DEF TableInv, IssuedInv
<1>3. /\ slots[h.slot].generation \in 1 .. Len(cells) + 1
      /\ slots[h.slot].cell # 0 => slots[h.slot].generation <= Len(cells)
  BY <1>2, Zenon DEF TableInv, SlotsInv
<1>4. h.slot \in Nat /\ h.generation \in Nat
  BY <1>1 DEF AllHandles
<1>5. h.slot \in 0 .. MaxCells
  BY <1>1, <1>2, <1>4 DEF UserInv
<1>6. h.generation \in 0 .. MaxCells
  BY <1>1, <1>2, <1>3, <1>4, SMTT(30)
<1> QED
  BY <1>1, <1>5, <1>6 DEF AllHandles
================================================================================
