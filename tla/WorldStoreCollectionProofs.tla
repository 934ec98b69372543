---------------------- MODULE WorldStoreCollectionProofs ----------------------
(***************************************************************************)
(* Proofs that collection removes no object a computer of a reliable store *)
(* needs, and the theorems the layers of the store's invariant add up to.  *)
(***************************************************************************)
EXTENDS WorldStoreProofs

--------------------------------------------------------------------------------
(* Collection *)

\* While a computer is open nothing is collected and the store has not faulted.
LEMMA OpenMeansQuiet ==
    ASSUME StoreInv, Reliable, NEW c \in Computers, carrier[c].pc # "detached"
    PROVE  /\ health # "Faulted"
           /\ \A k \in Callers : ~Collecting(k) /\ caller[k].pc \notin {"reserved", "waiting"}
BY Zenon DEF StoreInv, CollectInv, CollectCall, Collecting, Settled

\* While a mutation is written no collection is past its flush_all.
LEMMA WritingMeansQuiet ==
    ASSUME StoreInv, Reliable, InHand("Mutation")
    PROVE  /\ health # "Faulted"
           /\ \A k \in Callers : /\ call[k].pc \notin {"reach", "send", "collecting"}
                                 /\ caller[k].pc \notin {"reserved", "waiting"}
<1>1. /\ worker.cmd.id \in Computers /\ worker.cmd.gen \in Int
      /\ durable[worker.cmd.id] \in Nat
      /\ durable[worker.cmd.id] < worker.cmd.gen /\ worker.cmd.gen <= admitted[worker.cmd.id]
  BY HandShape
<1>2. ~Settled
  BY <1>1 DEF Settled
<1> QED
  BY <1>2, Zenon DEF StoreInv, CollectInv, CollectCall

\* Where nobody waits there is no control command.
LEMMA NoControls ==
    ASSUME StoreInv, \A k \in Callers : caller[k].pc # "waiting"
    PROVE  /\ \A i \in DOMAIN queue : queue[i].kind # "Control"
           /\ ~InHand("Control")
<1>0. ControlsAwaited /\ queue \in Seq(Commands) /\ worker \in WorkerStates
  BY Zenon DEF StoreInv, GateInv, GateTypeOK
<1>1. ASSUME NEW i \in DOMAIN queue
      PROVE  queue[i].kind # "Control"
  <2>1. queue[i] \in Commands
    BY <1>0
  <2> QED
    BY <1>0, <2>1, CommandShape, Zenon DEF ControlsAwaited
<1>2. ~InHand("Control")
  BY <1>0, WorkerShape, CommandShape, Zenon DEF ControlsAwaited, InHand
<1> QED
  BY <1>1, <1>2, Zenon

\* Nobody collects.
LEMMA QuietCollect ==
    ASSUME health' # "Faulted",
           \A k \in Callers :
               /\ call'[k].pc \notin {"flush_all", "reach", "send", "collecting"}
               /\ caller'[k].pc \notin {"reserved", "waiting"},
           \A i \in DOMAIN queue' : queue'[i].kind # "Control",
           ~InHand("Control")'
    PROVE  CollectInv'
BY Zenon DEF CollectInv, CollectCall, CollectCommands

LEMMA CarrierCollect ==
    ASSUME StoreInv, Reliable, NEW c \in Computers,
           \/ StoreOpenBegin(c) \/ StoreOpenFlush(c) \/ StoreOpenFault(c) \/ StoreOpenRegister(c)
           \/ \E body \in Bodies : StorePrepare(c, body)
           \/ StorePublish(c) \/ StoreDetach(c)
    PROVE  CollectInv'
<1>0. queue \in Seq(Commands)
  BY Zenon DEF StoreInv, StoreTypeOK, GateTypeOK
<1>1. /\ health # "Faulted"
      /\ \A k \in Callers : ~Collecting(k) /\ caller[k].pc \notin {"reserved", "waiting"}
  <2>1. CASE StoreOpenBegin(c)
    <3>1. health = "Active" /\ \A k \in Callers : ~Collecting(k)
      BY <2>1, Zenon DEF StoreOpenBegin, OpenBegin, Reliable
    <3> QED
      BY <3>1, Zenon DEF StoreInv, CollectInv, CollectCall, Collecting
  <2>2. CASE ~StoreOpenBegin(c)
    <3>1. carrier[c].pc # "detached"
      BY <2>2, Zenon DEF StoreOpenFlush, StoreOpenFault, StoreOpenRegister, StorePrepare, StorePublish,
                  StoreDetach, OpenFlushAdmitted, OpenFlushWait, OpenFault, OpenRegister, Prepare,
                  Publish, Detach, DropReservation
    <3> QED
      BY <3>1, OpenMeansQuiet, Zenon
  <2> QED
    BY <2>1, <2>2, Zenon
<1>2. ~StoreOpenFault(c)
  BY Recovers, Zenon DEF StoreOpenFault, Reliable
<1>3. /\ (\A i \in DOMAIN queue : queue[i].kind # "Control")
      /\ ~InHand("Control")
  BY <1>1, NoControls, Zenon
<1>4. UNCHANGED <<health, call, caller, worker>>
  BY <1>2, Zenon DEF StoreOpenBegin, StoreOpenFlush, StoreOpenRegister, StorePrepare, StorePublish,
              StoreDetach, OpenBegin, OpenFlushAdmitted, OpenFlushWait, OpenRegister, Prepare,
              Publish, Detach, DropReservation, KeepCalls, callVars
<1>5. \A i \in DOMAIN queue' : queue'[i].kind # "Control"
  <2>1. CASE StorePublish(c)
    <3> DEFINE x == Mutation(c, carrier[c].gen + 1, carrier[c].cost, carrier[c].body)
    <3>1. queue' = Append(queue, x)
      BY <2>1, Zenon DEF StorePublish, Publish, PublishCommand
    <3>2. x.kind = "Mutation"
      BY Zenon DEF Mutation
    <3> HIDE DEF x
    <3>3. \A i \in DOMAIN queue' : queue'[i] = x \/ (i \in DOMAIN queue /\ queue'[i] = queue[i])
      BY <1>0, <3>1
    <3> QED
      BY <1>3, <3>2, <3>3, Zenon
  <2>2. CASE ~StorePublish(c)
    <3>1. queue' = queue
      BY <1>2, <2>2, Zenon DEF StoreOpenBegin, StoreOpenFlush, StoreOpenRegister, StorePrepare,
                        StoreDetach, OpenBegin, OpenFlushAdmitted, OpenFlushWait, OpenRegister,
                        Prepare, Detach, DropReservation, queueVars
    <3> QED
      BY <1>3, <3>1, Zenon
  <2> QED
    BY <2>1, <2>2, Zenon
<1>6. ~InHand("Control")'
  BY <1>3, <1>4, Zenon DEF InHand
<1> QED
  BY <1>1, <1>4, <1>5, <1>6, QuietCollect, Zenon DEF Collecting

\* A call that stays where it is.
LEMMA CallKept ==
    ASSUME NEW k \in Callers, CollectCall(k), call'[k] = call[k], caller'[k] = caller[k],
           UNCHANGED <<admitted, durable, carrier>>,
           \A c \in Computers : Content(c)' = Content(c)
    PROVE  CollectCall(k)'
<1>1. Settled' <=> Settled
  BY Zenon DEF Settled
<1>2. \A c \in Computers : FlushProgress(k, c)' <=> FlushProgress(k, c)
  BY Zenon DEF FlushProgress, FlushedOk
<1> QED
  BY <1>1, <1>2, Zenon DEF CollectCall, Spares

\* The commands of collections that stay, or are taken by the worker.
LEMMA CommandsKept ==
    ASSUME CollectCommands,
           \A c \in Computers : Content(c)' = Content(c),
           InHand("Control")' =>
               (InHand("Control") /\ worker' = worker)
               \/ \E j \in DOMAIN queue : worker'.cmd = queue[j],
           \A i \in DOMAIN queue' : queue'[i].kind = "Control" =>
               \E j \in DOMAIN queue : queue'[i] = queue[j]
    PROVE  CollectCommands'
BY DEF CollectCommands, Spares, InHand

\* A fault finds the store settled.
LEMMA FaultKept ==
    ASSUME StoreInv, Reliable, UNCHANGED <<admitted, durable, carrier>>,
           health' = "Faulted" => health = "Faulted"
    PROVE  health' = "Faulted" => Settled'
BY Zenon DEF StoreInv, CollectInv, Settled

\* Only the caller of a control command is answered.
LEMMA AnsweredCollects ==
    ASSUME StoreInv, Reliable, NEW k \in Callers, caller[k].pc = "waiting"
    PROVE  call[k].pc = "collecting" /\ Settled
BY Zenon DEF StoreInv, CollectInv, CollectCall

\* A call that is answered.
LEMMA CallAnswered ==
    ASSUME StoreInv, Reliable, NEW k \in Callers, caller[k].pc = "waiting",
           call'[k] = call[k], caller'[k].pc = "idle", UNCHANGED <<admitted, durable, carrier>>
    PROVE  CollectCall(k)'
<1>1. call[k].pc = "collecting" /\ Settled
  BY AnsweredCollects, Zenon
<1>2. Settled'
  BY <1>1, Zenon DEF Settled
<1> QED
  BY <1>1, <1>2, Zenon DEF CollectCall

LEMMA WorkerCollect ==
    ASSUME StoreInv, Reliable,
           \/ PersistObject \/ PersistJournal \/ PersistConfirmed \/ StorePersisted
           \/ PersistTombstone \/ (\E o \in Objects : CollectObject(o))
           \/ StoreCompleted \/ StoreFailed \/ StoreWorkerLoop
    PROVE  CollectInv'
<1>0. /\ CollectInv
      /\ queue \in Seq(Commands)
      /\ caller \in [Callers -> CallerStates]
      /\ durable \in [Computers -> Nat \cup {Absent}]
      /\ admitted \in [Computers -> Nat \cup {Absent}]
      /\ worker \in WorkerStates
      /\ ControlsAwaited
  BY Zenon DEF StoreInv, StoreTypeOK, GateTypeOK, GateInv
<1>1. CASE PersistObject \/ PersistConfirmed \/ PersistTombstone
               \/ (\E o \in Objects : CollectObject(o))
  <2>1. UNCHANGED <<journal, durable, admitted, carrier, caller, worker, queue, health, call>>
    BY <1>1, Zenon DEF PersistObject, PersistConfirmed, PersistTombstone, CollectObject, KeepForWorker,
                gateVars, queueVars, callVars
  <2>2. \A c \in Computers : Content(c)' = Content(c)
    BY <2>1, ReplayKept, Zenon
  <2>3. \A k \in Callers : CollectCall(k)'
    BY <1>0, <2>1, <2>2, CallKept, Zenon DEF CollectInv
  <2>4. InHand("Control")' => InHand("Control") /\ worker' = worker
    BY <2>1, Zenon DEF InHand
  <2>5. CollectCommands'
    BY <1>0, <2>1, <2>2, <2>4, CommandsKept, Zenon DEF CollectInv
  <2>6. health' = "Faulted" => Settled'
    BY <2>1, FaultKept, Zenon
  <2> QED
    BY <2>3, <2>5, <2>6, Zenon DEF CollectInv
<1>2. CASE PersistJournal \/ StorePersisted
  <2>1. InHand("Mutation")
    BY <1>2, Zenon DEF PersistJournal, StorePersisted, WorkerPersisted, InHand
  <2>2. /\ health # "Faulted"
        /\ \A k \in Callers : /\ call[k].pc \notin {"reach", "send", "collecting"}
                              /\ caller[k].pc \notin {"reserved", "waiting"}
    BY <2>1, WritingMeansQuiet, Zenon
  <2>3. /\ UNCHANGED <<health, queue, admitted, carrier, caller, call>>
        /\ worker' = worker \/ worker' = [pc |-> "running"]
    BY <1>2, Zenon DEF PersistJournal, StorePersisted, WorkerPersisted, KeepForWorker, gateVars, queueVars,
                callVars
  <2>4. \A c \in Computers : durable'[c] = durable[c] \/ durable'[c] > durable[c]
    <3>1. CASE PersistJournal
      BY <3>1, Zenon DEF PersistJournal, KeepForWorker, gateVars
    <3>2. CASE StorePersisted
      <4>1. durable' = [durable EXCEPT ![worker.cmd.id] = worker.cmd.gen]
        BY <3>2, Zenon DEF StorePersisted, WorkerPersisted
      <4>2. worker.cmd.gen \in Int /\ durable[worker.cmd.id] \in Nat
            /\ durable[worker.cmd.id] < worker.cmd.gen /\ worker.cmd.id \in Computers
        BY <2>1, HandShape
      <4> QED
        BY <1>0, <4>1, <4>2, Zenon
    <3> QED
      BY <1>2, <3>1, <3>2, Zenon
  <2>5. /\ (\A i \in DOMAIN queue : queue[i].kind # "Control")
        /\ ~InHand("Control")
    BY <2>2, NoControls, Zenon
  <2>6. CollectCommands'
    <3>1. ~InHand("Control")'
      BY <2>3, <2>5 DEF InHand
    <3> QED
      BY <2>3, <2>5, <3>1, Zenon DEF CollectCommands
  <2>7. durable' \in [Computers -> Nat \cup {Absent}]
    BY StepStoreTypes, Zenon DEF StoreTypeOK, GateTypeOK, StoreNext
  <2>8. ASSUME NEW k \in Callers
        PROVE  CollectCall(k)'
    <3>1. \A c \in Computers : FlushProgress(k, c) => FlushProgress(k, c)'
      <4> SUFFICES ASSUME NEW c \in Computers, FlushProgress(k, c)
                   PROVE  FlushProgress(k, c)'
        BY Zenon
      <4>1. durable[c] >= admitted[c] => durable'[c] >= admitted'[c]
        BY <1>0, <2>3, <2>4, <2>7 DEF Absent
      <4> QED
        BY <2>3, <4>1, Zenon DEF FlushProgress, FlushedOk
    <3>2. CollectCall(k)
      BY <1>0, Zenon DEF CollectInv
    <3> QED
      BY <2>2, <2>3, <3>1, <3>2, Zenon DEF CollectCall
  <2> QED
    BY <2>2, <2>3, <2>6, <2>8, Zenon DEF CollectInv
<1>3. CASE StoreCompleted \/ StoreFailed \/ (WorkerCompletedFailed /\ StoreWorkerLoop)
  <2> DEFINE by == worker.cmd.by
  <2>1. /\ worker.pc \in {"busy", "completing"} /\ worker.cmd.kind = "Control"
        /\ worker'.pc # "busy"
        /\ UNCHANGED <<journal, durable, admitted, carrier, call>>
        /\ queue' \in {queue, <<>>}
    <3>1. CASE StoreCompleted
      BY <3>1, Zenon DEF StoreCompleted, WorkerCompleted, queueVars, diskVars, callVars
    <3>2. CASE StoreFailed
      <4>1. InHand("Control")
        BY <3>2, Zenon DEF StoreFailed, Reliable, RemovesMissingFile
      <4> QED
        BY <3>2, <4>1, Zenon DEF StoreFailed, WorkerFailed, FaultWorker, InHand, callVars
    <3>3. CASE WorkerCompletedFailed /\ StoreWorkerLoop
      BY <1>0, <3>3, Zenon DEF StoreWorkerLoop, WorkerCompletedFailed, ControlsAwaited, queueVars, KeepDisk,
                        KeepCalls, diskVars, callVars
    <3> QED
      BY <1>3, <3>1, <3>2, <3>3, Zenon
  <2>2. by \in Callers /\ caller[by].pc = "waiting"
    BY <1>0, <2>1, WorkerShape, CommandShape, Zenon DEF ControlsAwaited
  <2>3. Settled
    BY <2>2, AnsweredCollects, Zenon
  <2>4. Settled'
    BY <2>1, <2>3, Zenon DEF Settled
  <2>5. ASSUME NEW k \in Callers
        PROVE  caller'[k] = caller[k] \/ (caller[k].pc = "waiting" /\ caller'[k].pc = "idle")
    <3>1. CASE StoreCompleted \/ WorkerCompletedFailed
      <4>1. \/ caller' = [caller EXCEPT ![by] = Idle("Ok")]
            \/ caller' = [caller EXCEPT ![by] = Idle("StorageFaulted")]
        BY <3>1, Zenon DEF StoreCompleted, WorkerCompleted, WorkerCompletedFailed
      <4> QED
        BY <1>0, <2>2, <4>1 DEF Idle
    <3>2. CASE StoreFailed
      <4>1. caller' = [m \in Callers |->
                IF m \in QueuedCallers THEN Idle("StorageFaulted") ELSE caller[m]]
        BY <3>2, Zenon DEF StoreFailed, WorkerFailed, FaultWorker
      <4>2. k \in QueuedCallers => caller[k].pc = "waiting"
        BY <1>0, Zenon DEF QueuedCallers, ControlsAwaited
      <4> QED
        BY <4>1, <4>2, Zenon DEF Idle
    <3> QED
      BY <1>3, <3>1, <3>2, Zenon
  <2>6. \A c \in Computers : Content(c)' = Content(c)
    BY <2>1, ReplayKept, Zenon
  <2>7. ASSUME NEW k \in Callers
        PROVE  CollectCall(k)'
    <3>1. CollectCall(k) /\ call'[k] = call[k]
      BY <1>0, <2>1, Zenon DEF CollectInv
    <3> QED
      BY <2>1, <2>5, <2>6, <3>1, CallKept, CallAnswered, Zenon
  <2>8. CollectCommands'
    <3>1. ~InHand("Control")'
      BY <2>1, Zenon DEF InHand
    <3>2. \A i \in DOMAIN queue' : \E j \in DOMAIN queue : queue'[i] = queue[j]
      BY <1>0, <2>1
    <3> QED
      BY <1>0, <2>6, <3>1, <3>2, CommandsKept, Zenon DEF CollectInv
  <2> QED
    BY <2>4, <2>7, <2>8, Zenon DEF CollectInv
<1>4. CASE StoreWorkerLoop /\ (WorkerSleep \/ WorkerTake)
  <2>1. UNCHANGED <<journal, durable, admitted, carrier, caller, health, call>>
    BY <1>4, Zenon DEF StoreWorkerLoop, WorkerSleep, WorkerTake, KeepDisk, KeepCalls, diskVars, callVars
  <2>2. \A c \in Computers : Content(c)' = Content(c)
    BY <2>1, ReplayKept, Zenon
  <2>3. \A k \in Callers : CollectCall(k)'
    BY <1>0, <2>1, <2>2, CallKept, Zenon DEF CollectInv
  <2>4. health' = "Faulted" => Settled'
    BY <2>1, FaultKept, Zenon
  <2>5. CollectCommands'
    <3>1. CASE WorkerSleep
      <4>1. UNCHANGED <<queue, worker>>
        BY <3>1, Zenon DEF WorkerSleep, queueVars
      <4>2. InHand("Control")' => InHand("Control") /\ worker' = worker
        BY <4>1, Zenon DEF InHand
      <4> QED
        BY <1>0, <2>2, <4>1, <4>2, CommandsKept, Zenon DEF CollectInv
    <3>2. CASE WorkerTake
      <4>1. /\ queue # <<>> /\ queue' = Tail(queue)
            /\ worker'.pc = "busy" => worker'.cmd = Head(queue)
        BY <3>2, Zenon DEF WorkerTake
      <4>2. /\ 1 \in DOMAIN queue /\ Head(queue) = queue[1]
            /\ \A i \in DOMAIN Tail(queue) :
                  i + 1 \in DOMAIN queue /\ Tail(queue)[i] = queue[i + 1]
        BY <1>0, <4>1
      <4>3. InHand("Control")' => \E j \in DOMAIN queue : worker'.cmd = queue[j]
        BY <4>1, <4>2, Zenon DEF InHand
      <4>4. \A i \in DOMAIN queue' : \E j \in DOMAIN queue : queue'[i] = queue[j]
        BY <4>1, <4>2, Zenon
      <4> QED
        BY <1>0, <2>2, <4>3, <4>4, CommandsKept, Zenon DEF CollectInv
    <3> QED
      BY <1>4, <3>1, <3>2, Zenon
  <2> QED
    BY <2>3, <2>4, <2>5, Zenon DEF CollectInv
<1>5. CASE StoreWorkerLoop
  <2>1. WorkerSleep \/ WorkerTake \/ WorkerCompletedFailed
    BY <1>5, Zenon DEF StoreWorkerLoop
  <2> QED
    BY <1>3, <1>4, <1>5, <2>1, Zenon
<1> QED
  BY <1>1, <1>2, <1>3, <1>4, <1>5, Zenon

\* A call moves no other.
LEMMA CallsOthers ==
    ASSUME StoreInv, NEW k \in Callers, NEW m \in Callers, m # k,
           \/ (\E c \in Computers, g \in 0 .. MaxGeneration : StoreFlush(k, c, g))
           \/ StoreFlushWake(k)
           \/ (\E c \in Computers, present \in BOOLEAN : Tombstone(k, c, present))
           \/ (\E c \in Computers : SaveBegin(k, c) \/ DiscardExecution(k, c))
           \/ SaveCheck(k) \/ SaveWrite(k)
           \/ CollectBegin(k) \/ CollectFlush(k) \/ CollectFlushed(k) \/ CollectReach(k)
           \/ CollectList(k) \/ CollectSend(k) \/ CollectReturn(k)
    PROVE  call'[m] = call[m] /\ caller'[m] = caller[m]
<1>0. caller \in [Callers -> CallerStates] /\ call \in [Callers -> CallStates]
  BY Zenon DEF StoreInv, StoreTypeOK, GateTypeOK
<1> USE DEF Moves, gateVars, KeepCalls, callVars
<1>1. CASE \/ (\E c \in Computers, g \in 0 .. MaxGeneration : StoreFlush(k, c, g))
           \/ (\E c \in Computers, present \in BOOLEAN : Tombstone(k, c, present))
           \/ StoreFlushWake(k)
  BY <1>0, <1>1, Zenon DEF StoreFlush, StoreFlushWake, Tombstone, Flush, FlushWake, FlushTurn, CallControl,
                    PublishControl
<1>2. CASE \E c \in Computers : SaveBegin(k, c) \/ DiscardExecution(k, c)
  BY <1>0, <1>2, Zenon DEF SaveBegin, DiscardExecution, Flush, FlushTurn
<1>3. CASE SaveCheck(k) \/ SaveWrite(k) \/ CollectBegin(k) \/ CollectFlushed(k)
               \/ CollectReach(k) \/ CollectList(k) \/ CollectReturn(k)
  BY <1>0, <1>3, Zenon DEF SaveCheck, SaveWrite, CollectBegin, CollectFlushed, CollectReach, CollectList,
                    CollectReturn
<1>4. CASE CollectFlush(k)
  <2>1. PICK pair \in call[k].todo : /\ Flush(k, pair[1], pair[2])
                                     /\ call' = [call EXCEPT ![k].todo = @ \ {pair}, ![k].ok = FALSE]
    BY <1>4, Zenon DEF CollectFlush
  <2> QED
    BY <1>0, <2>1, Zenon DEF Flush, FlushTurn
<1>5. CASE CollectSend(k)
  BY <1>0, <1>5, Zenon DEF CollectSend, CallControl
<1> QED
  BY <1>1, <1>2, <1>3, <1>4, <1>5, Zenon

\* A turn of flush ends the wait or goes on with it.
LEMMA TurnShape ==
    ASSUME NEW k \in Callers, NEW c, NEW g, NEW outcome, caller \in [Callers -> CallerStates],
           FlushTurn(k, c, g, outcome)
    PROVE  \/ /\ caller'[k].pc = "flushing" /\ caller'[k].id = c /\ caller'[k].gen = g
              /\ outcome = "wait"
           \/ caller'[k].pc = "idle" /\ caller'[k].result = outcome
BY Zenon DEF FlushTurn, Idle

\* A flush that succeeds found the generation durable.
LEMMA FlushedMeansDurable ==
    ASSUME NEW c \in Computers, NEW g \in Nat, FlushOutcome(c, g) = "Ok",
           durable[c] # Absent
    PROVE  durable[c] >= g
<1>1. Get(durable, c) >= g
  BY Zenon DEF FlushOutcome
<1> QED
  BY <1>1, Zenon DEF Get

\* What a call starts from, and what it leaves alone.
CallStart(k) ==
    /\ caller \in [Callers -> CallerStates]
    /\ call \in [Callers -> CallStates]
    /\ admitted \in [Computers -> Nat \cup {Absent}]
    /\ durable \in [Computers -> Nat \cup {Absent}]
    /\ objects \subseteq Objects
    /\ CollectCall(k)

CallKeeps ==
    /\ UNCHANGED <<admitted, durable, carrier, journal, health>>
    /\ \A c \in Computers : Content(c)' = Content(c)
    /\ Settled' <=> Settled

\* A call that collects nothing, or has ended.
LEMMA CallEnds ==
    ASSUME NEW k \in Callers, call'[k].pc \in {"none", "save", "write"},
           caller'[k].pc \notin {"reserved", "waiting"}
    PROVE  CollectCall(k)'
BY Zenon DEF CollectCall

LEMMA MovesTo ==
    ASSUME NEW k \in Callers, NEW x, call \in [Callers -> CallStates], Moves(k, x)
    PROVE  call'[k] = x /\ caller' = caller
BY Zenon DEF Moves, gateVars

\* A flush on its own.
LEMMA FlushCollect ==
    ASSUME StoreInv, Reliable, NEW k \in Callers, CallStart(k), CallKeeps,
           NEW c \in Computers, NEW g \in 0 .. MaxGeneration, StoreFlush(k, c, g)
    PROVE  CollectCall(k)'
<1>1. /\ call' = call /\ call[k].pc = "none"
      /\ \E outcome : FlushTurn(k, c, g, outcome)
  BY Zenon DEF StoreFlush, KeepCalls, callVars, Free, Flush
<1>2. caller'[k].pc \in {"flushing", "idle"}
  BY <1>1, TurnShape, Zenon DEF CallStart
<1> QED
  BY <1>1, <1>2, CallEnds, Zenon

\* The collection reaches the queue.
LEMMA PublishCollect ==
    ASSUME StoreInv, Reliable, NEW k \in Callers, CallStart(k), CallKeeps,
           StoreFlushWake(k), PublishControl(k)
    PROVE  CollectCall(k)'
<1>1. /\ call' = call /\ caller[k].pc = "reserved"
      /\ caller' = [caller EXCEPT ![k] = [pc |-> "waiting"]]
  BY Zenon DEF StoreFlushWake, KeepCalls, callVars, PublishControl
<1>2. caller'[k].pc = "waiting" /\ call'[k].pc = "collecting"
  BY <1>1, Zenon DEF CallStart, CollectCall
<1> QED
  BY <1>1, <1>2, Zenon DEF CallStart, CallKeeps, CollectCall

\* A flush goes on.
LEMMA WakeCollect ==
    ASSUME StoreInv, Reliable, NEW k \in Callers, CallStart(k), CallKeeps,
           StoreFlushWake(k), FlushWake(k)
    PROVE  CollectCall(k)'
<1> DEFINE d == caller[k].id
           g == caller[k].gen
           outcome == FlushOutcome(d, g)
<1>1. /\ call' = call /\ caller[k].pc = "flushing"
      /\ FlushTurn(k, d, g, outcome)
  BY Zenon DEF StoreFlushWake, KeepCalls, callVars, FlushWake
<1>2. d \in Computers /\ g \in Nat
  BY <1>1, CallerShape, Zenon DEF CallStart
<1>3. \/ /\ caller'[k].pc = "flushing" /\ caller'[k].id = d /\ caller'[k].gen = g
         /\ outcome = "wait"
      \/ caller'[k].pc = "idle" /\ caller'[k].result = outcome
  BY <1>1, TurnShape DEF CallStart
<1>4. durable[d] # Absent /\ outcome = "Ok" => durable[d] >= g
  BY <1>2, FlushedMeansDurable, Zenon
<1> HIDE DEF outcome
<1>5. ASSUME call[k].pc = "flush_all", NEW c \in Computers, admitted[c] # Absent
      PROVE  FlushProgress(k, c)'
  <2>1. FlushProgress(k, c) /\ ~call[k].ok
    BY <1>1, <1>5, Zenon DEF CallStart, CollectCall
  <2>2. durable[c] # Absent
    BY <1>5, Zenon DEF StoreInv, GateInv, OrderInv, CarrierAgrees
  <2>3. CASE <<c, admitted[c]>> \in call[k].todo \/ durable[c] >= admitted[c]
    BY <1>1, <2>3, Zenon DEF CallKeeps, FlushProgress
  <2>4. CASE d = c /\ g = admitted[c]
    <3>1. CASE outcome = "Ok"
      BY <1>4, <2>2, <2>4, <3>1, Zenon DEF CallKeeps, FlushProgress
    <3>2. CASE caller'[k].pc = "flushing" /\ caller'[k].id = d /\ caller'[k].gen = g
      BY <2>4, <3>2, Zenon DEF CallKeeps, FlushProgress
    <3>3. CASE outcome # "Ok" /\ caller'[k].pc = "idle" /\ caller'[k].result = outcome
      BY <1>1, <2>1, <3>3, Zenon DEF FlushProgress, FlushedOk
    <3> QED
      BY <1>3, <3>1, <3>2, <3>3, Zenon
  <2> QED
    BY <1>1, <2>1, <2>3, <2>4, Zenon DEF FlushProgress
<1> QED
  BY <1>1, <1>3, <1>5, Zenon DEF CallStart, CallKeeps, CollectCall, Spares

\* An execution checkpoint is begun.
LEMMA SaveCollect ==
    ASSUME StoreInv, Reliable, NEW k \in Callers, CallStart(k), CallKeeps,
           NEW c \in Computers, SaveBegin(k, c)
    PROVE  CollectCall(k)'
<1>1. /\ call'[k].pc = "save"
      /\ \E outcome : FlushTurn(k, c, carrier[c].gen, outcome)
  BY Zenon DEF CallStart, SaveBegin, Flush
<1>2. caller'[k].pc \in {"flushing", "idle"}
  BY <1>1, TurnShape, Zenon DEF CallStart
<1> QED
  BY <1>1, <1>2, CallEnds, Zenon

\* An execution checkpoint is discarded.
LEMMA DiscardCollect ==
    ASSUME StoreInv, Reliable, NEW k \in Callers, CallStart(k), CallKeeps,
           NEW c \in Computers, DiscardExecution(k, c)
    PROVE  CollectCall(k)'
<1>1. call' = call /\ caller' = caller
  BY Zenon DEF DiscardExecution, callVars, gateVars
<1> QED
  BY <1>1, CallKept, Zenon DEF CallStart, CallKeeps

\* An execution checkpoint is written.
LEMMA WriteCollect ==
    ASSUME StoreInv, Reliable, NEW k \in Callers, CallStart(k), CallKeeps,
           SaveCheck(k) \/ SaveWrite(k)
    PROVE  CollectCall(k)'
<1>1. /\ call'[k].pc \in {"none", "write"} /\ caller' = caller
      /\ call[k].pc \in {"save", "write"}
  <2>1. CASE SaveWrite(k)
    <3>1. Moves(k, [pc |-> "none"]) /\ call[k].pc = "write"
      BY <2>1, Zenon DEF SaveWrite
    <3>2. call'[k] = [pc |-> "none"] /\ caller' = caller
      BY <3>1, MovesTo, Zenon DEF CallStart
    <3> QED
      BY <3>1, <3>2
  <2>2. CASE SaveCheck(k)
    <3>1. call[k].pc = "save" /\ [call[k] EXCEPT !.pc = "write"].pc = "write"
      BY <2>2, Zenon DEF CallStart, SaveCheck, CallStates
    <3>2. \/ Moves(k, [call[k] EXCEPT !.pc = "write"])
          \/ Moves(k, [pc |-> "none"])
      BY <2>2, Zenon DEF SaveCheck
    <3>3. CASE Moves(k, [pc |-> "none"])
      <4>1. call'[k] = [pc |-> "none"] /\ caller' = caller
        BY <3>3, MovesTo, Zenon DEF CallStart
      <4> QED
        BY <3>1, <4>1
    <3>4. CASE Moves(k, [call[k] EXCEPT !.pc = "write"])
      <4>1. call'[k] = [call[k] EXCEPT !.pc = "write"] /\ caller' = caller
        BY <3>4, MovesTo, Zenon DEF CallStart
      <4> QED
        BY <3>1, <4>1, Zenon
    <3> QED
      BY <3>2, <3>3, <3>4, Zenon
  <2> QED
    BY <2>1, <2>2, Zenon
<1> QED
  BY <1>1, CallEnds, Zenon DEF CallStart, CollectCall

\* A collection begins.
LEMMA BeginCollect ==
    ASSUME StoreInv, Reliable, NEW k \in Callers, CallStart(k), CallKeeps,
           CollectBegin(k)
    PROVE  CollectCall(k)'
<1> DEFINE todo == {<<c, admitted[c]>> : c \in {d \in Computers : admitted[d] # Absent}}
           x == [pc |-> "flush_all", ok |-> TRUE, todo |-> todo]
<1>1. call'[k] = x /\ caller' = caller
  BY MovesTo, Zenon DEF CallStart, CollectBegin
<1>2. /\ caller[k].pc = "idle"
      /\ \A c \in Computers : carrier[c].pc = "detached"
  BY Zenon DEF CollectBegin, Free, Reliable
<1>3. x.pc = "flush_all" /\ x.todo = todo
  BY Zenon
<1>4. \A c \in Computers : admitted[c] # Absent => <<c, admitted[c]>> \in todo
  BY Zenon
<1> HIDE DEF x, todo
<1>5. \A c \in Computers : admitted[c] # Absent => FlushProgress(k, c)'
  BY <1>1, <1>3, <1>4, Zenon DEF CallKeeps, FlushProgress
<1> QED
  BY <1>1, <1>2, <1>3, <1>5, Zenon DEF CallKeeps, CollectCall

\* It flushes one more computer.
LEMMA FlushAllCollect ==
    ASSUME StoreInv, Reliable, NEW k \in Callers, CallStart(k), CallKeeps,
           CollectFlush(k)
    PROVE  CollectCall(k)'
<1>1. call[k].pc = "flush_all" /\ caller[k].pc = "idle" /\ FlushedOk(k)
  BY Zenon DEF CollectFlush
<1>2. PICK pair \in call[k].todo :
          /\ Flush(k, pair[1], pair[2])
          /\ call' = [call EXCEPT ![k].todo = @ \ {pair}, ![k].ok = FALSE]
  BY Zenon DEF CollectFlush
<1>3. /\ call'[k].pc = "flush_all" /\ call'[k].ok = FALSE
      /\ call'[k].todo = call[k].todo \ {pair}
  BY <1>1, <1>2, Zenon DEF CallStart, CallStates
<1> DEFINE d == pair[1]
           g == pair[2]
           outcome == IF Get(admitted, d) < g THEN "InvalidGeneration" ELSE FlushOutcome(d, g)
<1>4. d \in Computers /\ g \in Nat /\ pair = <<d, g>>
  BY <1>1, CallShape DEF CallStart
<1>5. FlushTurn(k, d, g, outcome)
  BY <1>2, Zenon DEF Flush
<1> HIDE DEF outcome, d, g
<1>6. \/ /\ caller'[k].pc = "flushing" /\ caller'[k].id = d /\ caller'[k].gen = g
         /\ outcome = "wait"
      \/ caller'[k].pc = "idle" /\ caller'[k].result = outcome
  BY <1>5, TurnShape, Zenon DEF CallStart
<1>7. durable[d] # Absent /\ outcome = "Ok" => durable[d] >= g
  <2>1. outcome = "Ok" => FlushOutcome(d, g) = "Ok"
    BY Zenon DEF outcome
  <2> QED
    BY <1>4, <2>1, FlushedMeansDurable, Zenon
<1>8. ASSUME NEW c \in Computers, admitted[c] # Absent
      PROVE  FlushProgress(k, c)'
  <2>1. <<c, admitted[c]>> \in call[k].todo \/ durable[c] >= admitted[c]
    BY <1>1, <1>8, Zenon DEF CallStart, CollectCall, FlushProgress
  <2>2. durable[c] # Absent
    BY <1>8, Zenon DEF StoreInv, GateInv, OrderInv, CarrierAgrees
  <2>3. CASE durable[c] >= admitted[c]
    BY <2>3, Zenon DEF CallKeeps, FlushProgress
  <2>4. CASE <<c, admitted[c]>> \in call[k].todo /\ <<c, admitted[c]>> # pair
    BY <1>3, <2>4, Zenon DEF CallKeeps, FlushProgress
  <2>5. CASE <<c, admitted[c]>> = pair
    <3>0. d = c /\ g = admitted[c]
      BY <1>4, <2>5
    <3>1. CASE outcome = "Ok"
      BY <1>7, <2>2, <3>0, <3>1, Zenon DEF CallKeeps, FlushProgress
    <3>2. CASE caller'[k].pc = "flushing" /\ caller'[k].id = d /\ caller'[k].gen = g
      BY <3>0, <3>2, Zenon DEF CallKeeps, FlushProgress
    <3>3. CASE outcome # "Ok" /\ caller'[k].pc = "idle" /\ caller'[k].result = outcome
      BY <1>3, <3>3, Zenon DEF FlushProgress, FlushedOk
    <3> QED
      BY <1>6, <3>1, <3>2, <3>3, Zenon
  <2> QED
    BY <2>1, <2>3, <2>4, <2>5, Zenon
<1>9. caller'[k].pc \in {"flushing", "idle"}
  BY <1>6, Zenon
<1>10. \A c \in Computers : carrier'[c].pc = "detached"
  BY <1>1, Zenon DEF CallStart, CallKeeps, CollectCall
<1> QED
  BY <1>3, <1>8, <1>9, <1>10, Zenon DEF CallKeeps, CollectCall

\* All computers are flushed, or one was not.
LEMMA FlushedCollect ==
    ASSUME StoreInv, Reliable, NEW k \in Callers, CallStart(k), CallKeeps,
           CollectFlushed(k)
    PROVE  CollectCall(k)'
<1>1. /\ call[k].pc = "flush_all" /\ caller[k].pc = "idle"
      /\ ~FlushedOk(k) \/ call[k].todo = {}
  BY Zenon DEF CollectFlushed
<1>2. CASE ~FlushedOk(k)
  <2>1. call'[k] = [pc |-> "none"] /\ caller' = caller
    BY <1>2, MovesTo, Zenon DEF CallStart, CollectFlushed
  <2> QED
    BY <1>1, <2>1, CallEnds
<1>3. CASE FlushedOk(k)
  <2>1. call'[k] = [pc |-> "reach", todo |-> Computers, reachable |-> {}] /\ caller' = caller
    BY <1>3, MovesTo, Zenon DEF CallStart, CollectFlushed
  <2>2. ASSUME NEW c \in Computers
        PROVE  carrier[c].pc = "detached" /\ admitted[c] = durable[c]
    <3>1. /\ carrier[c].pc = "detached"
          /\ admitted[c] # Absent => durable[c] >= admitted[c]
      BY <1>1, <1>3, Zenon DEF CallStart, CollectCall, FlushProgress
    <3>2. durable[c] <= admitted[c]
      BY Zenon DEF StoreInv, GateInv, OrderInv, GenerationOrder
    <3>3. durable[c] \in Nat \cup {Absent} /\ admitted[c] \in Nat \cup {Absent}
      BY Zenon DEF CallStart
    <3>4. admitted[c] = durable[c]
      <4>1. CASE admitted[c] = Absent
        BY <3>2, <3>3, <4>1 DEF Absent
      <4>2. CASE admitted[c] # Absent
        BY <3>1, <3>2, <3>3, <4>2 DEF Absent
      <4> QED
        BY <4>1, <4>2, Zenon
    <3> QED
      BY <3>1, <3>4, Zenon
  <2>3. Settled'
    BY <2>2, Zenon DEF CallKeeps, Settled
  <2> QED
    BY <1>1, <2>1, <2>3 DEF CollectCall
<1> QED
  BY <1>2, <1>3, Zenon

\* One more computer is recovered for what it reaches.
LEMMA ReachCollect ==
    ASSUME StoreInv, Reliable, NEW k \in Callers, CallStart(k), CallKeeps,
           CollectReach(k)
    PROVE  CollectCall(k)'
<1>1. call[k].pc = "reach" /\ caller[k].pc \notin {"reserved", "waiting"} /\ Settled
  BY Zenon DEF CallStart, CollectReach, CollectCall
<1>2. CASE Moves(k, [pc |-> "none"])
  <2>1. call'[k] = [pc |-> "none"] /\ caller' = caller
    BY <1>2, MovesTo, Zenon DEF CallStart
  <2> QED
    BY <1>1, <2>1, CallEnds
<1>3. ASSUME NEW c \in call[k].todo,
             Moves(k, [call[k] EXCEPT !.todo = @ \ {c},
                          !.reachable = @ \cup ({Content(c)} \cap Objects)])
      PROVE  CollectCall(k)'
  <2> DEFINE x == [call[k] EXCEPT !.todo = @ \ {c},
                                  !.reachable = @ \cup ({Content(c)} \cap Objects)]
  <2>1. /\ x.pc = "reach" /\ x.todo = call[k].todo \ {c}
        /\ x.reachable = call[k].reachable \cup ({Content(c)} \cap Objects)
    BY <1>1, Zenon DEF CallStart, CallStates
  <2>2. call'[k] = x /\ caller' = caller
    BY <1>3, MovesTo, Zenon DEF CallStart
  <2> HIDE DEF x
  <2>3. c \in Computers /\ Content(c) \in Objects \cup {NoObject}
    <3>1. c \in Computers
      BY <1>1, CallShape, Zenon DEF CallStart
    <3> QED
      BY <3>1, Zenon DEF CallStart, StoreInv, DiskInv
  <2>4. \A d \in Computers \ x.todo : Content(d)' \in x.reachable \cup {NoObject}
    BY <1>1, <2>1, <2>3, Zenon DEF CallStart, CallKeeps, CollectCall
  <2> QED
    BY <1>1, <2>1, <2>2, <2>4, Zenon DEF CallKeeps, CollectCall
<1> QED
  BY <1>2, <1>3, Zenon DEF CollectReach

\* The objects nothing reaches.
LEMMA ListCollect ==
    ASSUME StoreInv, Reliable, NEW k \in Callers, CallStart(k), CallKeeps,
           CollectList(k)
    PROVE  CollectCall(k)'
<1>1. /\ call[k].pc = "reach" /\ caller[k].pc \notin {"reserved", "waiting"} /\ Settled
      /\ call[k].todo = {}
  BY Zenon DEF CallStart, CollectList, CollectCall
<1>2. call'[k] = [pc |-> "send", remove |-> objects \ call[k].reachable] /\ caller' = caller
  BY MovesTo, Zenon DEF CallStart, CollectList
<1>3. \A c \in Computers : Content(c) \in call[k].reachable \cup {NoObject}
  BY <1>1, Zenon DEF CallStart, CollectCall
<1>4. /\ call'[k].pc = "send" /\ call'[k].remove = objects \ call[k].reachable
      /\ caller'[k] = caller[k]
  BY <1>2
<1>5. NoObject \notin objects
  BY Zenon DEF CallStart, Objects
<1>6. ASSUME NEW c \in Computers
      PROVE  Content(c)' \notin call'[k].remove
  BY <1>3, <1>4, <1>5, Zenon DEF CallKeeps
<1> QED
  BY <1>1, <1>4, <1>6, Zenon DEF CallKeeps, CollectCall, Spares

\* The collection is reserved its place in the queue.
LEMMA SendCollect ==
    ASSUME StoreInv, Reliable, NEW k \in Callers, CallStart(k), CallKeeps,
           CollectSend(k)
    PROVE  CollectCall(k)'
<1>1. /\ call[k].pc = "send" /\ caller[k].pc \notin {"reserved", "waiting"} /\ Settled
      /\ Spares(call[k].remove)
  BY Zenon DEF CallStart, CollectSend, CollectCall
<1>2. CASE CanReserve(Cardinality(call[k].remove))
  <2>1. /\ call' = [call EXCEPT ![k] = [pc |-> "collecting"]]
        /\ caller' = [caller EXCEPT ![k] = [pc |-> "reserved",
                cost |-> Cardinality(call[k].remove),
                body |-> [op |-> "collect", remove |-> call[k].remove]]]
    BY <1>2, Zenon DEF CollectSend, CallControl
  <2>2. /\ call'[k].pc = "collecting" /\ caller'[k].pc = "reserved"
        /\ caller'[k].body.op = "collect" /\ caller'[k].body.remove = call[k].remove
    BY <2>1, Zenon DEF CallStart
  <2>3. \A c \in Computers : Content(c)' \notin caller'[k].body.remove
    BY <1>1, <2>2, Zenon DEF CallKeeps, Spares
  <2> QED
    BY <1>1, <2>2, <2>3, Zenon DEF CallKeeps, CollectCall, Spares
<1>3. CASE ~CanReserve(Cardinality(call[k].remove))
  <2>1. call'[k] = [pc |-> "none"] /\ caller' = caller
    BY <1>3, MovesTo, Zenon DEF CallStart, CollectSend
  <2>2. call'[k].pc = "none" /\ caller'[k].pc \notin {"reserved", "waiting"}
    BY <1>1, <2>1
  <2> QED
    BY <2>2, CallEnds, Zenon
<1> QED
  BY <1>2, <1>3, Zenon

\* The collection returns.
LEMMA ReturnCollect ==
    ASSUME StoreInv, Reliable, NEW k \in Callers, CallStart(k), CallKeeps,
           CollectReturn(k)
    PROVE  CollectCall(k)'
<1>1. call'[k] = [pc |-> "none"] /\ caller' = caller /\ caller[k].pc = "idle"
  BY MovesTo, Zenon DEF CallStart, CollectReturn
<1>2. call'[k].pc = "none" /\ caller'[k].pc \notin {"reserved", "waiting"}
  BY <1>1
<1> QED
  BY <1>2, CallEnds, Zenon

LEMMA CallCollect ==
    ASSUME StoreInv, Reliable, NEW k \in Callers,
           \/ (\E c \in Computers, g \in 0 .. MaxGeneration : StoreFlush(k, c, g))
           \/ StoreFlushWake(k)
           \/ (\E c \in Computers, present \in BOOLEAN : Tombstone(k, c, present))
           \/ (\E c \in Computers : SaveBegin(k, c) \/ DiscardExecution(k, c))
           \/ SaveCheck(k) \/ SaveWrite(k)
           \/ CollectBegin(k) \/ CollectFlush(k) \/ CollectFlushed(k) \/ CollectReach(k)
           \/ CollectList(k) \/ CollectSend(k) \/ CollectReturn(k)
    PROVE  CollectCall(k)'
<1>1. CallStart(k) /\ CallKeeps
  <2>1. UNCHANGED <<admitted, durable, carrier, journal, health>>
    BY CallsKeep, Zenon
  <2>2. /\ \A c \in Computers : Content(c)' = Content(c)
        /\ Settled' <=> Settled
    BY <2>1, ReplayKept, Zenon DEF Settled
  <2> QED
    BY <2>1, <2>2, Zenon DEF CallStart, CallKeeps, StoreInv, StoreTypeOK, GateTypeOK, CollectInv
<1>2. ASSUME NEW c \in Computers, NEW present \in BOOLEAN, Tombstone(k, c, present)
      PROVE  FALSE
  BY <1>2, Zenon DEF Tombstone, Reliable
<1>3. ASSUME StoreFlushWake(k)
      PROVE  CollectCall(k)'
  BY <1>1, <1>3, PublishCollect, WakeCollect, Zenon DEF StoreFlushWake
<1> QED
  BY <1>1, <1>2, <1>3, FlushCollect, SaveCollect, DiscardCollect, WriteCollect, BeginCollect,
     FlushAllCollect, FlushedCollect, ReachCollect, ListCollect, SendCollect, ReturnCollect, Zenon

LEMMA CallerCollect ==
    ASSUME StoreInv, Reliable, NEW k \in Callers,
           \/ (\E c \in Computers, g \in 0 .. MaxGeneration : StoreFlush(k, c, g))
           \/ StoreFlushWake(k)
           \/ (\E c \in Computers, present \in BOOLEAN : Tombstone(k, c, present))
           \/ (\E c \in Computers : SaveBegin(k, c) \/ DiscardExecution(k, c))
           \/ SaveCheck(k) \/ SaveWrite(k)
           \/ CollectBegin(k) \/ CollectFlush(k) \/ CollectFlushed(k) \/ CollectReach(k)
           \/ CollectList(k) \/ CollectSend(k) \/ CollectReturn(k)
    PROVE  CollectInv'
<1>0. CollectInv /\ queue \in Seq(Commands)
  BY Zenon DEF StoreInv, StoreTypeOK, GateTypeOK
<1>1. UNCHANGED <<admitted, durable, carrier, journal, health, worker>>
  BY CallsKeep, Zenon
<1>2. \A c \in Computers : Content(c)' = Content(c)
  BY <1>1, ReplayKept, Zenon
<1>3. ASSUME NEW m \in Callers
      PROVE  CollectCall(m)'
  <2>1. CASE m = k
    BY <2>1, CallCollect, Zenon
  <2>2. CASE m # k
    <3>1. call'[m] = call[m] /\ caller'[m] = caller[m]
      BY <2>2, CallsOthers, Zenon
    <3>2. CollectCall(m)
      BY <1>0, Zenon DEF CollectInv
    <3> QED
      BY <1>1, <1>2, <3>1, <3>2, CallKept, Zenon
  <2> QED
    BY <2>1, <2>2, Zenon
<1>4. InHand("Control")' => InHand("Control") /\ worker' = worker
  BY <1>1, Zenon DEF InHand
<1>5. CollectCommands'
  <2>1. CASE queue' = queue
    BY <1>0, <1>2, <1>4, <2>1, CommandsKept, Zenon DEF CollectInv
  <2>2. CASE queue' # queue
    <3> DEFINE x == Control(k, caller[k].cost, caller[k].body)
    <3>1. queue' = Append(queue, x) /\ caller[k].pc = "reserved"
      BY <2>2, CallsQueue, Zenon
    <3>2. x.body = caller[k].body
      BY Zenon DEF Control
    <3>3. caller[k].body.op = "collect" /\ Spares(caller[k].body.remove)
      BY <1>0, <3>1, Zenon DEF CollectInv, CollectCall
    <3>4. x.body.op = "collect" /\ \A c \in Computers : Content(c)' \notin x.body.remove
      BY <1>2, <3>2, <3>3, Zenon DEF Spares
    <3> HIDE DEF x
    <3>5. \A i \in DOMAIN queue' : queue'[i] = x \/ (i \in DOMAIN queue /\ queue'[i] = queue[i])
      BY <1>0, <3>1
    <3>6. \A i \in DOMAIN queue : queue[i].kind = "Control" =>
              /\ queue[i].body.op = "collect"
              /\ \A c \in Computers : Content(c)' \notin queue[i].body.remove
      BY <1>0, <1>2, Zenon DEF CollectInv, CollectCommands, Spares
    <3>7. InHand("Control")' => worker'.cmd.body.op = "collect"
              /\ \A c \in Computers : Content(c)' \notin worker'.cmd.body.remove
      BY <1>0, <1>1, <1>2, <1>4, Zenon DEF CollectInv, CollectCommands, Spares
    <3> QED
      BY <3>4, <3>5, <3>6, <3>7, Zenon DEF CollectCommands, Spares
  <2> QED
    BY <2>1, <2>2, Zenon
<1>6. health' = "Faulted" => Settled'
  BY <1>1, FaultKept, Zenon
<1> QED
  BY <1>3, <1>5, <1>6, Zenon DEF CollectInv

LEMMA CloserCollect ==
    ASSUME StoreInv, Reliable, StoreCloseBegin \/ StoreClosing \/ StoreCloseMark
    PROVE  CollectInv'
<1>0. CollectInv /\ queue \in Seq(Commands)
  BY Zenon DEF StoreInv, StoreTypeOK, GateTypeOK
<1>1. UNCHANGED <<journal, durable, admitted, carrier, worker, call, caller>>
  BY ClosingKeeps, Zenon DEF diskVars
<1>2. /\ health' = "Faulted" => health = "Faulted"
      /\ queue' = queue \/ queue' = Append(queue, Stop)
  BY Zenon DEF StoreCloseBegin, StoreClosing, StoreCloseMark, CloseBegin, CloseDrain, CloseStopWait,
         CloseStop, CloseJoin, CloseMark, queueVars
<1>3. \A c \in Computers : Content(c)' = Content(c)
  BY <1>1, ReplayKept, Zenon
<1>4. \A k \in Callers : CollectCall(k)'
  BY <1>0, <1>1, <1>3, CallKept, Zenon DEF CollectInv
<1>5. \A i \in DOMAIN queue' : queue'[i].kind = "Control" =>
          \E j \in DOMAIN queue : queue'[i] = queue[j]
  <2>1. CASE queue' = queue
    BY <2>1, Zenon
  <2>2. CASE queue' = Append(queue, Stop)
    <3>1. \A i \in DOMAIN queue' : queue'[i] = Stop \/ (i \in DOMAIN queue /\ queue'[i] = queue[i])
      BY <1>0, <2>2
    <3> QED
      BY <3>1 DEF Stop
  <2> QED
    BY <1>2, <2>1, <2>2, Zenon
<1>6. InHand("Control")' => InHand("Control") /\ worker' = worker
  BY <1>1, Zenon DEF InHand
<1>7. CollectCommands'
  BY <1>0, <1>3, <1>5, <1>6, CommandsKept, Zenon DEF CollectInv
<1>8. health' = "Faulted" => Settled'
  BY <1>1, <1>2, FaultKept, Zenon
<1> QED
  BY <1>4, <1>7, <1>8, Zenon DEF CollectInv

LEMMA StepCollect ==
    ASSUME StoreInv, Reliable, [StoreNext]_storeVars
    PROVE  CollectInv'
<1>1. CASE UNCHANGED storeVars
  <2>1. UNCHANGED <<journal, durable, admitted, carrier, worker, call, caller, queue, health>>
    BY <1>1, Zenon DEF storeVars, gateVars, queueVars, diskVars, callVars
  <2>2. \A c \in Computers : Content(c)' = Content(c)
    BY <2>1, ReplayKept, Zenon
  <2>3. \A k \in Callers : CollectCall(k)'
    BY <2>1, <2>2, CallKept, Zenon DEF StoreInv, CollectInv
  <2>4. InHand("Control")' => InHand("Control") /\ worker' = worker
    BY <2>1, Zenon DEF InHand
  <2>5. CollectCommands'
    BY <2>1, <2>2, <2>4, CommandsKept, Zenon DEF StoreInv, CollectInv
  <2>6. health' = "Faulted" => Settled'
    BY <2>1, FaultKept, Zenon
  <2> QED
    BY <2>3, <2>5, <2>6, Zenon DEF CollectInv
<1>2. CASE Crash \/ Reopen
  <2>1. Restarted
    BY <1>2, Zenon DEF Crash, Reopen
  <2>2. /\ health' # "Faulted"
        /\ \A k \in Callers : call'[k].pc = "none" /\ caller'[k].pc = "idle"
        /\ queue' = <<>>
        /\ ~InHand("Control")'
    BY <2>1, Zenon DEF Restarted, InHand, Idle
  <2> QED
    BY <2>2, QuietCollect
<1>3. CASE StoreNext
  BY <1>2, <1>3, CarrierCollect, WorkerCollect, CallerCollect, CloserCollect, Zenon DEF StoreNext
<1> QED
  BY <1>1, <1>3, Zenon

--------------------------------------------------------------------------------
(* The store *)

LEMMA InitStore == StoreInit => StoreInv
<1> SUFFICES ASSUME StoreInit
             PROVE  StoreInv
  BY Zenon
<1>1. GateInv /\ GateTypeOK
  BY InitGate, Zenon DEF StoreInit, GateInv
<1>2. /\ health = "Active" /\ queue = <<>> /\ worker = [pc |-> "running"]
      /\ \A c \in Computers : /\ admitted[c] = Absent /\ durable[c] = Absent
                              /\ carrier[c].pc = "detached"
                              /\ journal[c] = <<>> /\ confirmed[c] = 0 /\ execution[c] = Absent
                              /\ stray[c] = {} /\ log[c] = <<>> /\ reported[c] = 0
      /\ \A k \in Callers : call[k].pc = "none" /\ caller[k].pc = "idle"
  BY Zenon DEF StoreInit, GateInit, Idle
<1>3. MaxGeneration \in Nat
  BY LimitsAssumption, Zenon
<1>4. <<>> \in Journals
  <2>1. <<>> \in [{} -> Bodies]
    OBVIOUS
  <2> QED
    BY <2>1, Zenon DEF Journals
<1>5. StoreTypeOK
  <2>1. [pc |-> "none"] \in CallStates
    BY Zenon DEF CallStates
  <2>2. journal \in [Computers -> Journals] /\ call \in [Callers -> CallStates]
    BY <1>4, <2>1, Zenon DEF StoreInit
  <2> QED
    BY <1>1, <2>2 DEF StoreInit, StoreTypeOK
<1>6. \A kind : ~InHand(kind)
  BY <1>2, Zenon DEF InHand
<1>7. StageInv
  BY <1>2, <1>3, <1>6 DEF StoreInit, StageInv, Absent
<1>8. \A c \in Computers : DOMAIN journal[c] = {}
  BY <1>2
<1>9. LogInv
  <2>1. NoGaps
    <3>1. 0 \in 0 .. MaxGeneration /\ 1 .. 0 = {}
      BY <1>3
    <3> QED
      BY <1>8, <3>1, Zenon DEF NoGaps
  <2>2. JournalsFollow
    BY <1>2, Zenon DEF JournalsFollow
  <2>3. LogAgrees
    BY <1>2, <1>6, <1>8 DEF LogAgrees
  <2>4. ReportsKept
    BY <1>2, <1>8 DEF ReportsKept, Absent
  <2> QED
    BY <2>1, <2>2, <2>3, <2>4, Zenon DEF LogInv
<1>10. DiskInv
  <2>1. \A c \in Computers : Content(c) = NoObject
    <3>1. \A c \in Computers : Replayed(c) = 0
      <4> SUFFICES ASSUME NEW c \in Computers
                   PROVE  Replayed(c) = 0
        BY Zenon
      <4>1. 0 \in 0 .. MaxGeneration /\ DOMAIN journal[c] = 1 .. 0
        BY <1>3, <1>8
      <4> QED
        BY <4>1, ReplayedIs, Zenon
    <3> QED
      BY <3>1, Zenon DEF Content
  <2> QED
    BY <1>2, <1>6, <1>8, <2>1 DEF DiskInv
<1>11. CollectInv
  BY <1>2, <1>6 DEF CollectInv, CollectCall, CollectCommands
<1> QED
  BY <1>1, <1>5, <1>7, <1>9, <1>10, <1>11, Zenon DEF StoreInv

LEMMA StepStore ==
    ASSUME StoreInv, [StoreNext]_storeVars
    PROVE  StoreInv'
BY StepStoreGate, StepStoreTypes, StepStages, StepLog, StepDisk, StepCollect, Zenon
   DEF StoreInv, Careful, Reliable

LEMMA StoreCorrect == StoreSpec => []StoreInv
BY InitStore, StepStore, PTL DEF StoreSpec

\* Every computer can be recovered from what is on disk at any instant of a
\* reliable store, whatever it is doing when the process dies.
THEOREM StoreAlwaysRecoverable ==
    ASSUME Reliable
    PROVE  StoreSpec => []AlwaysRecoverable
<1>1. StoreInv => AlwaysRecoverable
  BY Recovers, Zenon DEF AlwaysRecoverable, StoreInv
<1> QED
  BY <1>1, StoreCorrect, PTL

LEMMA ReportedReplayed ==
    ASSUME StoreInv, Careful, NEW c \in Computers
    PROVE  /\ reported[c] <= Replayed(c)
           /\ execution[c] <= Replayed(c)
           /\ Replayed(c) \in Nat
           /\ \A g \in 1 .. Replayed(c) : g <= Len(log[c]) /\ journal[c][g] = log[c][g]
<1>1. /\ DOMAIN journal[c] \subseteq 1 .. MaxGeneration
      /\ reported[c] \in Int /\ execution[c] \in Int
  BY JournalShape DEF StoreInv, StoreTypeOK, Absent
<1>2. /\ 1 .. reported[c] \subseteq DOMAIN journal[c]
      /\ 1 .. execution[c] \subseteq DOMAIN journal[c]
  BY Zenon DEF StoreInv, LogInv, ReportsKept
<1>3. reported[c] <= Replayed(c) /\ execution[c] <= Replayed(c)
  BY <1>1, <1>2, ReplayedReaches, Zenon
<1>4. 1 .. Replayed(c) \subseteq DOMAIN journal[c] /\ Replayed(c) \in Nat
  BY <1>1, ReplayedSpec, LimitsAssumption
<1> QED
  BY <1>3, <1>4, Zenon DEF StoreInv, LogInv, LogAgrees

\* What was reported durable is replayed, and what is replayed is what the computer
\* published: in a reliable store across restarts, and in one whose disk fails as
\* long as it is not restarted.
THEOREM StoreReportsWhatIsOnDisk ==
    ASSUME Careful
    PROVE  StoreSpec => []ReportedIsOnDisk
<1>1. StoreInv => ReportedIsOnDisk
  <2> SUFFICES ASSUME StoreInv, NEW c \in Computers
               PROVE  /\ reported[c] <= Replayed(c)
                      /\ health # "Faulted" => durable[c] <= reported[c]
                      /\ \A g \in 1 .. Replayed(c) : g <= Len(log[c]) /\ journal[c][g] = log[c][g]
    BY Zenon DEF ReportedIsOnDisk
  <2>1. health # "Faulted" => durable[c] <= reported[c]
    BY Zenon DEF StoreInv, LogInv, ReportsKept
  <2> QED
    BY <2>1, ReportedReplayed, Zenon
<1> QED
  BY <1>1, StoreCorrect, PTL

\* An execution checkpoint never names a generation replay does not reach.
THEOREM StoreExecutionNeverAhead ==
    ASSUME Careful
    PROVE  StoreSpec => []ExecutionNeverAhead
<1>1. StoreInv => ExecutionNeverAhead
  BY ReportedReplayed, Zenon DEF ExecutionNeverAhead
<1> QED
  BY <1>1, StoreCorrect, PTL

\* close() of a store that did not fault leaves every published mutation confirmed
\* on disk: for every value of the constants, disk errors included.
THEOREM StoreCloseDrains == StoreSpec => []CloseDrains
<1>1. StoreInv => CloseDrains
  <2> SUFFICES ASSUME StoreInv, health = "Closed", NEW c \in Computers
               PROVE  Get(admitted, c) <= confirmed[c]
    BY Zenon DEF CloseDrains
  <2>1. durable[c] = admitted[c]
    BY InvDrained, Zenon DEF StoreInv, GateDrained
  <2>2. durable[c] <= confirmed[c] /\ confirmed[c] \in Nat
    BY Zenon DEF StoreInv, StageInv, StoreTypeOK
  <2> QED
    BY <2>1, <2>2 DEF Get
<1> QED
  BY <1>1, StoreCorrect, PTL

LEMMA HistoryKept ==
    ASSUME [StoreNext]_storeVars,
           ~ \E c \in Computers : StorePublish(c) \/ StoreOpenRegister(c),
           ~ StorePersisted
    PROVE  UNCHANGED <<log, reported>>
<1> USE DEF KeepHistory, historyVars
<1>1. ASSUME NEW c \in Computers,
             \/ StoreOpenBegin(c) \/ StoreOpenFlush(c) \/ StoreOpenFault(c)
             \/ \E body \in Bodies : StorePrepare(c, body)
             \/ StoreDetach(c)
      PROVE  UNCHANGED <<log, reported>>
  BY <1>1, Zenon DEF StoreOpenBegin, StoreOpenFlush, StoreOpenFault, StorePrepare, StoreDetach
<1>2. ASSUME \/ PersistObject \/ PersistJournal \/ PersistConfirmed
             \/ PersistTombstone \/ (\E o \in Objects : CollectObject(o))
             \/ StoreCompleted \/ StoreFailed \/ StoreWorkerLoop
      PROVE  UNCHANGED <<log, reported>>
  BY <1>2, Zenon DEF PersistObject, PersistJournal, PersistConfirmed, PersistTombstone, CollectObject,
              StoreCompleted, StoreFailed, StoreWorkerLoop, KeepForWorker
<1>3. ASSUME Crash \/ Reopen
      PROVE  UNCHANGED <<log, reported>>
  BY <1>3, Zenon DEF Crash, Reopen, Restarted
<1>4. CASE UNCHANGED storeVars
  BY <1>4, Zenon DEF storeVars
<1>5. CASE StoreNext
  BY <1>1, <1>2, <1>3, <1>5, CallsKeep, ClosingKeeps, Zenon DEF StoreNext
<1> QED
  BY <1>4, <1>5, Zenon

\* The world store implements the durable log, step by step: publishing appends,
\* persisting reports, registering a recovered computer keeps a prefix that holds
\* all that was reported, and every other step, a crash included, leaves the
\* promise as it is.
THEOREM StoreKeepsPromise ==
    ASSUME Careful
    PROVE  StoreSpec => KeepsPromise
<1>1. StoreInit => Promise!Init
  BY Zenon DEF StoreInit, Promise!Init
<1>2. StoreInv /\ [StoreNext]_storeVars => [Promise!Next]_<<log, reported>>
  <2> SUFFICES ASSUME StoreInv, [StoreNext]_storeVars
               PROVE  [Promise!Next]_<<log, reported>>
    BY Zenon
  <2>0. /\ log \in [Computers -> Seq(Bodies)]
        /\ reported \in [Computers -> Nat]
        /\ carrier \in [Computers -> CarrierStates]
    BY Zenon DEF StoreInv, StoreTypeOK, GateTypeOK
  <2>1. ASSUME NEW c \in Computers, StorePublish(c)
        PROVE  Promise!Next
    <3>1. carrier[c].body \in Bodies
      BY <2>0, <2>1, CarrierShape, Zenon DEF StorePublish, Publish
    <3>2. Promise!Mutate(c, carrier[c].body)
      BY <2>1, Zenon DEF StorePublish, Promise!Mutate
    <3> QED
      BY <3>1, <3>2, Zenon DEF Promise!Next
  <2>2. ASSUME NEW c \in Computers, StoreOpenRegister(c)
        PROVE  [Promise!Next]_<<log, reported>>
    <3>1. CASE carrier'[c].pc # "attached"
      BY <2>2, <3>1, Zenon DEF StoreOpenRegister, KeepHistory, historyVars
    <3>2. CASE carrier'[c].pc = "attached"
      <4> DEFINE n == Replayed(c)
      <4>1. /\ reported[c] <= n /\ n \in Nat
            /\ \A g \in 1 .. n : g <= Len(log[c]) /\ journal[c][g] = log[c][g]
        BY ReportedReplayed, Zenon
      <4>2. /\ log' = [log EXCEPT ![c] = [g \in 1 .. n |-> journal[c][g]]]
            /\ reported' = [reported EXCEPT ![c] = n]
        BY <2>2, <3>2, Zenon DEF StoreOpenRegister
      <4> HIDE DEF n
      <4>3. Len(log[c]) \in Nat /\ log[c] \in Seq(Bodies)
        BY <2>0
      <4>4. n <= Len(log[c])
        BY <4>1, <4>3
      <4>5. SubSeq(log[c], 1, n) = [g \in 1 .. n |-> journal[c][g]]
        <5>1. SubSeq(log[c], 1, n) = [g \in 1 .. n |-> log[c][g]]
          BY <4>1, <4>3, <4>4
        <5> QED
          BY <4>1, <5>1, Zenon
      <4>6. Promise!Recover(c, n)
        BY <4>1, <4>2, <4>4, <4>5, Zenon DEF Promise!Recover
      <4>7. n \in 0 .. Len(log[c])
        BY <4>1, <4>3, <4>4
      <4> QED
        BY <4>6, <4>7, Zenon DEF Promise!Next
    <3> QED
      BY <3>1, <3>2, Zenon
  <2>3. CASE StorePersisted
    <3> DEFINE c == worker.cmd.id
               n == worker.cmd.gen
    <3>1. InHand("Mutation")
      BY <2>3, Zenon DEF StorePersisted, WorkerPersisted, InHand
    <3>2. c \in Computers /\ n \in Nat
      BY <3>1, HandShape, LimitsAssumption
    <3>3. n <= Len(log[c])
      BY <3>1, Zenon DEF StoreInv, LogInv, LogAgrees
    <3>4. /\ log' = log
          /\ reported' = [reported EXCEPT ![c] =
                IF health # "Faulted" /\ reported[c] < n THEN n ELSE reported[c]]
      BY <2>3, Zenon DEF StorePersisted
    <3> HIDE DEF c, n
    <3>5. CASE health # "Faulted" /\ reported[c] < n
      <4>1. Promise!Report(c, n)
        BY <3>3, <3>4, <3>5, Zenon DEF Promise!Report
      <4>2. n \in 0 .. Len(log[c])
        BY <2>0, <3>2, <3>3
      <4> QED
        BY <3>2, <4>1, <4>2, Zenon DEF Promise!Next
    <3>6. CASE ~(health # "Faulted" /\ reported[c] < n)
      <4>1. reported' = reported
        BY <2>0, <3>2, <3>4, <3>6, Zenon
      <4> QED
        BY <3>4, <4>1, Zenon
    <3> QED
      BY <3>5, <3>6, Zenon
  <2> QED
    BY <2>1, <2>2, <2>3, HistoryKept, Zenon
<1> QED
  BY <1>1, <1>2, StoreCorrect, PTL DEF StoreSpec, KeepsPromise, Promise!Spec

================================================================================
