-------------------------------- MODULE GuestHeap --------------------------------
(***************************************************************************)
(* A machine's tasks, its heap and the incremental collector               *)
(* (execution/gc.rs, and the parts of machine.rs, heap_ops.rs and text.rs  *)
(* that allocate).  The active task's frames are loaded; every other       *)
(* task's frames lie in its save slot.  An allocation that does not fit    *)
(* starts a collection, which advances one bounded action at a time while  *)
(* no Guest instruction runs.  Between any two actions the host may answer *)
(* a waiting task with a String or ByteArray: that task's frames are then  *)
(* loaded in place of the active task's until its object is complete.      *)
(*                                                                         *)
(* A frame has one reference register.  The roots scanned before frames     *)
(* (static fields, external handles, failures, the operands of a pending   *)
(* instruction) change only when Guest instructions run, as the registers  *)
(* of a caller's frame do, which stand for them here.                      *)
(***************************************************************************)
EXTENDS Heap

CONSTANTS
    TaskCount,      \* task slots
    MaxDepth,       \* image.maximum_call_depth()
    Types,          \* what the Guest allocates: [size, slots, array], slots of references
    ResponseSize,   \* block size of a response's object, which holds no references
    RepliesDuring   \* phases of the collector in which the host answers

ASSUME MachineAssumption ==
    /\ TaskCount \in Nat \ {0}
    /\ MaxDepth \in Nat \ {0}
    /\ \A t \in Types :
          /\ t.slots \in Nat
          /\ t.array \in BOOLEAN
          /\ IF t.array THEN t.size \in Nat ELSE t.size \in BlockSizes
    /\ ResponseSize \in BlockSizes
    /\ RepliesDuring \subseteq {"idle", "roots", "mark", "sweep"}

VARIABLES
    heap,
    fields,         \* the reference slots of every live object
    frames,         \* the loaded frames, outermost first
    task_frames,    \* the save slots
    active,         \* the active task, or 0
    waiting,        \* tasks waiting for a response
    pending,        \* the active task's allocation
    response,       \* the response being materialised
    gc,             \* the collector
    outcome         \* "running", or how the machine ended: memory "exhausted" after a
                    \* collection or "refused" without one, stack "crashed", "fault"

heapVars == <<heap, fields, frames, task_frames, active, waiting,
              pending, response, gc, outcome>>

Slots == 1 .. TaskCount
Null == NoBlock
None == [at |-> "none"]

IdleCollector ==
    [phase |-> "idle", frame |-> 0, saved |-> 0,
     head |-> NoBlock, tail |-> NoBlock, scan |-> None, sweep |-> 0, before |-> 0]

GuestHeapInit ==
    /\ heap = NewHeap
    /\ fields = <<>>
    /\ frames = <<Null>>
    /\ task_frames = [t \in Slots |-> IF t = 1 THEN <<>> ELSE <<Null>>]
    /\ active = 1
    /\ waiting = {}
    /\ pending = None
    /\ response = None
    /\ gc = IdleCollector
    /\ outcome = "running"

Top == Len(frames)

--------------------------------------------------------------------------------
(* Guest instructions, run while neither a collection nor a response is under way *)

GuestRuns ==
    /\ outcome = "running"
    /\ gc.phase = "idle"
    /\ response = None
    /\ active # 0

Executes == GuestRuns /\ pending = None

UnchangedHeap == UNCHANGED <<heap, fields, pending, response, gc, outcome>>
UnchangedTasks == UNCHANGED <<task_frames, active, waiting>>

\* A move, a load of a field, a reference going out of use.
SetRegister ==
    /\ Executes
    /\ \E r \in {Null, frames[1]}
               \cup (IF frames[Top] = Null THEN {}
                     ELSE {fields[frames[Top]][i] : i \in DOMAIN fields[frames[Top]]}) :
          frames' = [frames EXCEPT ![Top] = r]
    /\ UnchangedTasks
    /\ UnchangedHeap

\* A field or array store.
SetField ==
    /\ Executes
    /\ frames[Top] # Null
    /\ \E i \in DOMAIN fields[frames[Top]], r \in {frames[1], frames[Top]} :
          fields' = [fields EXCEPT ![frames[Top]][i] = r]
    /\ UNCHANGED <<heap, frames, pending, response, gc, outcome>>
    /\ UnchangedTasks

\* The reference is passed to the callee; too deep a call ends the machine.
CallFunction ==
    /\ Executes
    /\ IF Top < MaxDepth
         THEN frames' = Append(frames, frames[Top]) /\ UNCHANGED outcome
         ELSE outcome' = "crashed" /\ UNCHANGED frames
    /\ UNCHANGED <<heap, fields, pending, response, gc>>
    /\ UnchangedTasks

Return ==
    /\ Executes
    /\ Top > 1
    /\ \E r \in {Null, frames[Top]} :
          frames' = [SubSeq(frames, 1, Top - 1) EXCEPT ![Top - 1] = IF r = Null THEN @ ELSE r]
    /\ UnchangedTasks
    /\ UnchangedHeap

\* Machine::save_task then Machine::restore_task, on the loaded frames.
Saved(slots, t, loaded) == [slots EXCEPT ![t] = loaded]
Restored(slots, t) == [slots EXCEPT ![t] = <<>>]

\* A host call suspends the task and another one is activated, if any is ready.
HostCall ==
    /\ Executes
    /\ waiting' = waiting \cup {active}
    /\ LET saved == Saved(task_frames, active, frames)
       IN \/ \E t \in Slots \ waiting' :
                /\ active' = t
                /\ frames' = saved[t]
                /\ task_frames' = Restored(saved, t)
          \/ /\ waiting' = Slots
             /\ active' = 0
             /\ frames' = <<>>
             /\ task_frames' = saved
    /\ UnchangedHeap

\* The object of a type is complete: commit, with null references.
Committed(b, slots) ==
    /\ heap' = Commit(heap, b)
    /\ fields' = [o \in DOMAIN fields \cup {b} |->
                     IF o = b THEN [i \in 1 .. slots |-> Null] ELSE fields[o]]

Collect == [IdleCollector EXCEPT !.phase = "roots"]

\* NewObject and NewArray: the block is reserved and initialised later, or a
\* collection is started.
ReserveOrCollect(t) ==
    LET r == Reserve(heap, t.size)
    IN IF r.block # NoBlock
         THEN /\ heap' = r.heap
              /\ pending' = [at |-> "reserved", block |-> r.block, type |-> t]
              /\ UNCHANGED gc
         ELSE /\ pending' = [at |-> "retry", type |-> t]
              /\ gc' = Collect
              /\ UNCHANGED heap

\* An array that no arena could hold is refused before either.
Allocate ==
    /\ Executes
    /\ \E t \in Types :
          IF t.array /\ t.size > ArenaBytes
            THEN outcome' = "refused" /\ UNCHANGED <<heap, pending, gc>>
            ELSE ReserveOrCollect(t) /\ UNCHANGED outcome
    /\ UNCHANGED <<fields, frames, response>>
    /\ UnchangedTasks

\* resume_pending_allocation: the last of the slices that zero the payload.
Initialise ==
    /\ GuestRuns
    /\ pending.at = "reserved"
    /\ Committed(pending.block, pending.type.slots)
    /\ frames' = [frames EXCEPT ![Top] = pending.block]
    /\ pending' = None
    /\ UNCHANGED <<response, gc, outcome>>
    /\ UnchangedTasks

--------------------------------------------------------------------------------
(* Responses *)

\* begin_task_host_response: the active task's frames give way to the waiting
\* task's, whatever the collector is doing for the active task.
BeginResponse ==
    /\ outcome = "running"
    /\ response = None
    /\ gc.phase \in RepliesDuring
    /\ \E t \in waiting :
          LET saved == IF active = 0 THEN task_frames
                       ELSE Saved(task_frames, active, frames)
          IN /\ frames' = saved[t]
             /\ task_frames' = Restored(saved, t)
             /\ response' = [at |-> "begun", task |-> t, collected |-> FALSE]
    /\ UNCHANGED <<heap, fields, active, waiting, pending, gc, outcome>>

ResponseRuns ==
    /\ outcome = "running"
    /\ response # None
    /\ gc.phase = "idle"

\* run_capability_reference_slice up to the reservation.
ReserveResponse ==
    /\ ResponseRuns
    /\ response.at = "begun"
    /\ LET r == Reserve(heap, ResponseSize)
       IN IF r.block # NoBlock
            THEN /\ heap' = r.heap
                 /\ response' = [at |-> "reserved", task |-> response.task, block |-> r.block]
                 /\ UNCHANGED <<gc, outcome>>
          ELSE IF response.collected
            THEN outcome' = "exhausted" /\ UNCHANGED <<heap, response, gc>>
          ELSE /\ gc' = Collect
               /\ UNCHANGED <<heap, response, outcome>>
    /\ UNCHANGED <<fields, frames, pending>>
    /\ UnchangedTasks

\* The last slice: complete_capability writes the reference into the waiting
\* task's frame, finish_task_host_response puts the frames back, and if no
\* task is active the answered one is activated.
FinishResponse ==
    /\ ResponseRuns
    /\ response.at = "reserved"
    /\ Committed(response.block, 0)
    /\ LET t == response.task
           answered == [frames EXCEPT ![Top] = response.block]
           saved == Saved(task_frames, t, answered)
           next == IF active = 0 THEN t ELSE active
       IN /\ active' = next
          /\ frames' = saved[next]
          /\ task_frames' = Restored(saved, next)
          /\ waiting' = waiting \ {t}
    /\ response' = None
    /\ UNCHANGED <<pending, gc, outcome>>

--------------------------------------------------------------------------------
(* The collector.  Collector::step, once per unit of the maintenance budget *)

Collecting(phase) == outcome = "running" /\ gc.phase = phase

UnchangedMutator == UNCHANGED <<fields, frames, response>> /\ UnchangedTasks

\* enqueue_value: null is no reference; a reference to no live object faults.
Enqueue(r, cursor) ==
    IF r = Null \/ (LiveBlock(heap, r) /\ heap.blocks[r].marked)
      THEN gc' = cursor /\ UNCHANGED <<heap, outcome>>
    ELSE IF ~LiveBlock(heap, r)
      THEN outcome' = "fault" /\ UNCHANGED <<heap, gc>>
    ELSE /\ heap' = MarkGray(heap, r, gc.tail)
         /\ gc' = [cursor EXCEPT !.head = IF gc.tail = NoBlock THEN r ELSE @, !.tail = r]
         /\ UNCHANGED outcome

\* The save slots as one array of frames, MaxDepth per task.
SavedTask(i) == (i \div MaxDepth) + 1
SavedFrames ==
    {i \in gc.saved .. TaskCount * MaxDepth - 1 :
        (i % MaxDepth) + 1 \in DOMAIN task_frames[SavedTask(i)]}

\* Mutant of ScanRoots: the save slots are not scanned.
ScanLoadedRoots ==
    /\ Collecting("roots")
    /\ IF gc.frame < Len(frames)
         THEN Enqueue(frames[gc.frame + 1], [gc EXCEPT !.frame = @ + 1])
       ELSE gc' = [gc EXCEPT !.phase = "mark"] /\ UNCHANGED <<heap, outcome>>
    /\ UNCHANGED pending
    /\ UnchangedMutator

\* next_root: the loaded frames, then the saved ones, each from its cursor.
ScanRoots ==
    /\ Collecting("roots")
    /\ IF gc.frame < Len(frames)
         THEN Enqueue(frames[gc.frame + 1], [gc EXCEPT !.frame = @ + 1])
       ELSE IF SavedFrames # {}
         THEN LET i == Min(SavedFrames)
              IN Enqueue(task_frames[SavedTask(i)][(i % MaxDepth) + 1],
                         [gc EXCEPT !.saved = i + 1])
       ELSE gc' = [gc EXCEPT !.phase = "mark"] /\ UNCHANGED <<heap, outcome>>
    /\ UNCHANGED pending
    /\ UnchangedMutator

\* mark_step: one reference of the object being scanned, ...
MarkEdge ==
    /\ Collecting("mark")
    /\ gc.scan # None
    /\ LET o == gc.scan.object
           i == gc.scan.next
       IN Enqueue(fields[o][i],
                  [gc EXCEPT !.scan = IF i < Len(fields[o]) THEN [@ EXCEPT !.next = i + 1]
                                      ELSE None])
    /\ UNCHANGED pending
    /\ UnchangedMutator

\* ... or the next gray object (dequeue_gray), or the end of marking.
MarkNext ==
    /\ Collecting("mark")
    /\ gc.scan = None
    /\ IF gc.head = NoBlock
         THEN gc' = [gc EXCEPT !.phase = "sweep"] /\ UNCHANGED heap
         ELSE LET next == heap.blocks[gc.head].link - ObjectHeader
                  head == IF heap.blocks[gc.head].link = 0 THEN NoBlock ELSE next
              IN /\ heap' = [heap EXCEPT !.blocks[gc.head].link = 0]
                 /\ gc' = [gc EXCEPT !.head = head,
                                     !.tail = IF head = NoBlock THEN NoBlock ELSE @,
                                     !.scan = IF fields[gc.head] = <<>> THEN None
                                              ELSE [at |-> "object", object |-> gc.head, next |-> 1]]
    /\ UNCHANGED <<pending, outcome>>
    /\ UnchangedMutator

\* The blocks sweep_block may meet: a block reserved but not committed is
\* reported as heap corruption.
Sweep ==
    /\ Collecting("sweep")
    /\ gc.sweep < ArenaBytes
    /\ IF heap.blocks[gc.sweep].state = "reserved"
         THEN outcome' = "fault" /\ UNCHANGED <<heap, fields, gc>>
         ELSE LET swept == SweepBlock(heap, gc.sweep, gc.before)
                  at == Max({o \in DOMAIN swept.blocks : o <= gc.sweep})
              IN /\ heap' = swept
                 /\ fields' = [o \in {b \in DOMAIN fields : LiveBlock(swept, b)} |-> fields[o]]
                 /\ gc' = [gc EXCEPT !.sweep = End(swept, at), !.before = swept.blocks[at].size]
                 /\ UNCHANGED outcome
    /\ UNCHANGED <<frames, pending, response>>
    /\ UnchangedTasks

\* The end of run_maintenance: whoever asked for the collection tries again.
\* An allocation is retried at once and its failure is final; a response
\* remembers the collection and goes on.
Finish ==
    /\ Collecting("sweep")
    /\ gc.sweep = ArenaBytes
    /\ gc' = IdleCollector
    /\ IF pending.at = "retry"
         THEN LET r == Reserve(heap, pending.type.size)
              IN /\ heap' = r.heap
                 /\ IF r.block # NoBlock
                      THEN pending' = [at |-> "reserved", block |-> r.block, type |-> pending.type]
                           /\ UNCHANGED outcome
                      ELSE outcome' = "exhausted" /\ UNCHANGED pending
                 /\ UNCHANGED response
         ELSE /\ response' = [response EXCEPT !.collected = TRUE]
              /\ UNCHANGED <<heap, pending, outcome>>
    /\ UNCHANGED <<fields, frames>>
    /\ UnchangedTasks

GuestHeapNext ==
    \/ SetRegister
    \/ SetField
    \/ CallFunction
    \/ Return
    \/ HostCall
    \/ Allocate
    \/ Initialise
    \/ BeginResponse
    \/ ReserveResponse
    \/ FinishResponse
    \/ ScanRoots
    \/ MarkEdge
    \/ MarkNext
    \/ Sweep
    \/ Finish

GuestHeapSpec == GuestHeapInit /\ [][GuestHeapNext]_heapVars

--------------------------------------------------------------------------------
(* Properties *)

Live == DOMAIN fields
References == Live \cup {Null}

Free == {b \in DOMAIN heap.blocks : heap.blocks[b].state = "free"}

\* The header word shared by boundary tags and the gray queue: every block that
\* is not marked holds the size of its predecessor, and outside a collection no
\* block is marked, so that free_block never follows a gray link (sweep_block
\* restores the word of every block the marking borrowed) and never leaves two
\* free neighbours unmerged.
BoundaryTags ==
    /\ \A b \in Free : End(heap, b) \notin Free
    /\ \A b \in DOMAIN heap.blocks :
          (End(heap, b) < ArenaBytes /\ ~heap.blocks[End(heap, b)].marked)
              => heap.blocks[End(heap, b)].link = heap.blocks[b].size
    /\ gc.phase = "idle" => \A b \in DOMAIN heap.blocks : ~heap.blocks[b].marked

\* Every object some task, loaded or saved, can still reach.
Roots ==
    {frames[i] : i \in DOMAIN frames}
        \cup UNION {{task_frames[t][i] : i \in DOMAIN task_frames[t]} : t \in Slots}

Reachable ==
    LET refs(o) == {fields[o][i] : i \in DOMAIN fields[o]}
        reach[n \in 0 .. Cardinality(Live)] ==
            IF n = 0 THEN Roots
            ELSE reach[n - 1] \cup UNION {refs(o) : o \in reach[n - 1] \cap Live}
    IN reach[Cardinality(Live)] \ {Null}

\* No object that a task can still reach is ever freed (next_root, mark_step,
\* sweep_block), however collections, task switches and responses interleave.
NoLostObject == Reachable \subseteq Live

\* No object in use is ever freed, and a collection frees everything else: when the
\* sweep is done, the live objects are the reachable ones.
CollectionExact ==
    /\ NoLostObject
    /\ (outcome = "running" /\ gc.phase = "sweep" /\ gc.sweep = ArenaBytes) => Live = Reachable

\* Exhaustion is reported only when, after a full collection, no free block is
\* large enough: find_suitable overlooks none, although it inspects one block
\* of the request's own class and a hint.
ExhaustionIsReal ==
    outcome = "exhausted" =>
        LET size == IF response = None \/ pending.at = "retry" THEN pending.type.size
                    ELSE ResponseSize
        IN /\ \A b \in Free : heap.blocks[b].size < size
           /\ Live = Reachable

\* The gray queue: the blocks linked from its head.
GrayQueue ==
    LET next(b) == IF b = NoBlock \/ heap.blocks[b].link = 0 THEN NoBlock
                   ELSE heap.blocks[b].link - ObjectHeader
        at[n \in 0 .. Cardinality(Live)] == IF n = 0 THEN gc.head ELSE next(at[n - 1])
    IN {at[n] : n \in DOMAIN at} \ {NoBlock}

--------------------------------------------------------------------------------
(* What restore() demands of a checkpoint's heap, taken between two slices *)

\* Heap::validate_checkpoint: the blocks partition the arena, the counters are
\* exact, and the free lists hold exactly the free blocks, each in its class.
HeapAccepted ==
    /\ 0 \in DOMAIN heap.blocks
    /\ \A b \in DOMAIN heap.blocks :
          /\ heap.blocks[b].size \in BlockSizes
          /\ End(heap, b) \in DOMAIN heap.blocks \cup {ArenaBytes}
          /\ \A o \in DOMAIN heap.blocks : b < o => End(heap, b) <= o
          /\ heap.blocks[b].marked => heap.blocks[b].state = "live"
    /\ heap.free = MapThenSumSet(LAMBDA b : heap.blocks[b].size, Free)
    /\ heap.live = Cardinality({b \in DOMAIN heap.blocks : LiveBlock(heap, b)})
    /\ \A c \in Classes :
          /\ \A i \in DOMAIN heap.lists[c] :
                heap.lists[c][i] \in Free /\ FreeClass(heap.blocks[heap.lists[c][i]].size) = c
          /\ \A i, j \in DOMAIN heap.lists[c] : heap.lists[c][i] = heap.lists[c][j] => i = j
    /\ MapThenSumSet(LAMBDA c : Len(heap.lists[c]), Classes) = Cardinality(Free)
    /\ heap.hint \in Free \cup {NoBlock}

\* checkpoint_sweep_boundary: the sweep stands at the start of a block, or at
\* the end of the arena, and remembers the size of the block before it.
SweepBoundary ==
    /\ gc.sweep \in DOMAIN heap.blocks \cup {ArenaBytes}
    /\ IF gc.sweep = 0 THEN gc.before = 0
       ELSE \E b \in DOMAIN heap.blocks :
               End(heap, b) = gc.sweep /\ gc.before = heap.blocks[b].size

\* checkpoint_gray_next of a queued object, which must be live and marked.
MarkedLive(b) == LiveBlock(heap, b) /\ heap.blocks[b].marked

\* Collector::validate_checkpoint, but for the cursor into the loaded frames.
CollectorAccepted ==
    /\ gc.head = NoBlock <=> gc.tail = NoBlock
    /\ gc.phase \in {"idle", "sweep"} => gc.head = NoBlock /\ gc.scan = None
    /\ gc.phase # "idle" => gc.saved <= TaskCount * MaxDepth
    /\ gc.phase = "sweep" => SweepBoundary
    /\ \A b \in GrayQueue : MarkedLive(b)
    /\ gc.head # NoBlock => gc.tail \in GrayQueue /\ heap.blocks[gc.tail].link = 0
    /\ gc.scan # None =>
          /\ MarkedLive(gc.scan.object)
          /\ gc.scan.object \notin GrayQueue
          /\ gc.scan.next <= Len(fields[gc.scan.object])

\* PendingAllocation::validate_checkpoint and PendingHostReference::validate_checkpoint:
\* a reservation names a reserved block that is large enough.
ReservationAccepted(work, size) ==
    work.at = "reserved" =>
        /\ work.block \in DOMAIN heap.blocks
        /\ heap.blocks[work.block].state = "reserved"
        /\ heap.blocks[work.block].size >= size

\* Collector::validate_checkpoint: the cursor into the loaded frames.
CursorAccepted == gc.phase # "idle" => gc.frame <= Len(frames)

\* At whatever point a program is checkpointed, between two slices of an
\* allocation, a collection or a response, restore() accepts its heap and
\* resumes the work: in particular the boundary tags that marking borrows are back
\* before anything follows them.
HeapRestorable ==
    /\ BoundaryTags
    /\ outcome # "fault" =>
           /\ HeapAccepted
           /\ CollectorAccepted
           /\ response = None => CursorAccepted
           /\ pending # None => ReservationAccepted(pending, pending.type.size)
           /\ response # None => ReservationAccepted(response, ResponseSize)

\* The actions a collection still needs at most: one per frame it has not
\* looked at, one per object to scan and one per reference in it, one per block
\* to sweep, and one for each change of phase.
Work ==
    LET frames_left == (MaxDepth - gc.frame) + (TaskCount * MaxDepth - gc.saved)
        unscanned == GrayQueue \cup {o \in Live : ~heap.blocks[o].marked}
        marking == MapThenSumSet(LAMBDA o : 1 + Len(fields[o]), unscanned)
                      + (IF gc.scan = None THEN 0
                         ELSE Len(fields[gc.scan.object]) + 1 - gc.scan.next)
        sweeping == Cardinality({b \in DOMAIN heap.blocks : b >= gc.sweep})
    IN CASE gc.phase = "idle" -> 0
         [] gc.phase = "roots" -> frames_left + marking + sweeping + 3
         [] gc.phase = "mark" -> marking + sweeping + 2
         [] gc.phase = "sweep" -> sweeping + 1

\* Every action of the collector is progress towards its end, cycles in the
\* object graph or not, and nothing else adds to what it still has to do: a
\* collection takes a number of budget units bounded when it starts.
CollectionBounded ==
    [][gc.phase # "idle" => IF gc' = gc THEN Work' <= Work \/ outcome' # "running"
                            ELSE Work' < Work]_heapVars
================================================================================
