------------------------- MODULE PersistenceGateProofs -------------------------
(***************************************************************************)
(* Proofs about the persistence gate, for any number of computers, callers *)
(* and generations, and whether or not the disk fails.                     *)
(***************************************************************************)
EXTENDS PersistenceGate, FiniteSetTheorems, TLAPS

--------------------------------------------------------------------------------
(* What any user of the gate may do: the actions of GateNext whatever the disk *)
(* does, with any control command, and with recovery yielding any generation   *)
(* that is not below the durable one.  The invariants are shown for these      *)
(* steps, so that they hold of the gate inside the store as well.              *)

CarrierSteps(c) ==
    \/ Publish(c)
    \/ DropReservation(c)
    \/ OpenFlushAdmitted(c)
    \/ OpenFlushWait(c)
    \/ \E g \in Nat : g >= durable[c] /\ OpenRegister(c, g)
    \/ OpenFault(c)

CallerSteps(k) ==
    \/ \E cost \in Nat, body \in ControlBodies : CallControl(k, cost, body)
    \/ \E c \in Computers, g \in Nat : Flush(k, c, g)

WorkerSteps ==
    \/ WorkerSleep
    \/ WorkerTake
    \/ WorkerPersisted
    \/ WorkerCompleted
    \/ WorkerFailed
    \/ WorkerCompletedFailed

GateStep ==
    \/ \E c \in Computers : CarrierStarts(c) \/ CarrierSteps(c)
    \/ \E k \in Callers : CallerSteps(k) \/ CallerRuns(k)
    \/ WorkerSteps
    \/ CloseBegin
    \/ CloserRuns

\* The gate on its own takes only such steps.
LEMMA GateNextIsStep ==
    ASSUME GateTypeOK, [GateNext]_gateVars
    PROVE  [GateStep]_gateVars
<1>1. ASSUME NEW c \in Computers, CarrierRuns(c)
      PROVE  CarrierSteps(c)
  <2>1. Get(durable, c) \in Nat /\ Get(durable, c) >= durable[c]
    BY DEF GateTypeOK, Get, Absent
  <2> QED
    BY <1>1, <2>1, Zenon DEF CarrierRuns, CarrierSteps
<1>2. ASSUME NEW k \in Callers, CallerStarts(k)
      PROVE  CallerSteps(k)
  <2>1. ControlBytes \subseteq Nat /\ 0 .. MaxGeneration \subseteq Nat
    BY CostsAssumption, LimitsAssumption
  <2> QED
    BY <1>2, <2>1, Zenon DEF CallerStarts, CallerSteps
<1>3. WorkerRuns => WorkerSteps
  BY Zenon DEF WorkerRuns, WorkerSteps
<1> QED
  BY <1>1, <1>2, <1>3, Zenon DEF GateNext, GateStep

--------------------------------------------------------------------------------
(* Types *)

\* What a command record may look like, by kind.
LEMMA CommandShape ==
    ASSUME NEW x \in Commands
    PROVE  /\ x.kind \in {"Mutation", "Control", "Stop"}
           /\ x.cost \in Nat
           /\ x.kind = "Mutation" => x.id \in Computers /\ x.gen \in Nat
           /\ x.kind = "Control" => x.by \in Callers
           /\ x.kind = "Stop" <=> x = Stop
BY DEF Commands, Stop

\* A carrier's fields exist in the states that use them.
LEMMA CarrierShape ==
    ASSUME NEW x \in CarrierStates
    PROVE  /\ x.pc \in {"detached", "opening", "recovering", "flushing", "attached", "reserved"}
           /\ x.pc \in {"flushing", "attached", "reserved"} => x.gen \in Nat
           /\ x.pc = "reserved" => x.cost \in Nat /\ x.body \in Bodies
BY Zenon DEF CarrierStates

LEMMA CallerShape ==
    ASSUME NEW x \in CallerStates
    PROVE  /\ x.pc \in {"idle", "flushing", "reserved", "waiting"}
           /\ x.pc = "flushing" => x.id \in Computers /\ x.gen \in Nat
           /\ x.pc = "reserved" => x.cost \in Nat /\ x.body \in ControlBodies
BY Zenon DEF CallerStates

LEMMA WorkerShape ==
    ASSUME NEW x \in WorkerStates
    PROVE  /\ x.pc \in {"running", "exited", "busy", "completing"}
           /\ x.pc \in {"busy", "completing"} => x.cmd \in Commands
BY Zenon DEF WorkerStates

LEMMA InitTypes == GateInit => GateTypeOK
<1>1. /\ [pc |-> "detached"] \in CarrierStates
      /\ Idle("none") \in CallerStates
      /\ [pc |-> "running"] \in WorkerStates
  BY Zenon DEF CarrierStates, CallerStates, WorkerStates, Idle, Results
<1>2. GateInit => /\ queue \in Seq(Commands)
                  /\ queued_bytes \in Int
                  /\ reserved_records \in Int
                  /\ reserved_bytes \in Int
                  /\ admitted \in [Computers -> Nat \cup {Absent}]
                  /\ durable \in [Computers -> Nat \cup {Absent}]
  BY DEF GateInit
<1>3. GateInit => /\ carrier \in [Computers -> CarrierStates]
                  /\ caller \in [Callers -> CallerStates]
                  /\ worker \in WorkerStates
  BY <1>1, Zenon DEF GateInit
<1>4. GateInit => /\ health \in {"Active", "Draining", "Faulted", "Closed"}
                  /\ stop_enqueued \in BOOLEAN
                  /\ sleeping \subseteq Computers \cup Callers \cup {Worker, Closer}
                  /\ closer \in {"idle", "draining", "stopping", "joining", "marking", "closed"}
  BY Zenon DEF GateInit
<1> QED
  BY <1>2, <1>3, <1>4, Zenon DEF GateTypeOK

LEMMA StepTypes ==
    ASSUME GateTypeOK, [GateStep]_gateVars
    PROVE  GateTypeOK'
<1> USE DEF GateTypeOK, queueVars, NotifyAll
<1>1. ASSUME NEW c \in Computers, CarrierStarts(c)
      PROVE  GateTypeOK'
  <2>1. CASE OpenBegin(c)
    BY <2>1, Zenon DEF OpenBegin, CarrierStates
  <2>2. CASE Detach(c)
    BY <2>2, Zenon DEF Detach, CarrierStates
  <2>3. ASSUME NEW cost \in MutationBytes, NEW body \in Bodies, Prepare(c, cost, body)
        PROVE  GateTypeOK'
    <3>1. carrier[c].gen \in Nat
      BY <2>3, CarrierShape, Zenon DEF Prepare
    <3>2. [pc |-> "reserved", gen |-> carrier[c].gen, cost |-> cost, body |-> body]
            \in CarrierStates
      BY <3>1, CostsAssumption, Zenon DEF CarrierStates
    <3>3. cost \in Nat
      BY CostsAssumption, Zenon
    <3> QED
      BY <2>3, <3>2, <3>3 DEF Prepare, Reserve
  <2> QED
    BY <1>1, <2>1, <2>2, <2>3, Zenon DEF CarrierStarts
<1>2. ASSUME NEW c \in Computers, CarrierSteps(c)
      PROVE  GateTypeOK'
  <2>1. CASE Publish(c)
    <3>1. carrier[c] \in CarrierStates /\ carrier[c].pc = "reserved"
      BY <2>1, Zenon DEF Publish
    <3>2. carrier[c].gen \in Nat /\ carrier[c].cost \in Nat /\ carrier[c].body \in Bodies
      BY <3>1, CarrierShape, Zenon
    <3>3. Mutation(c, carrier[c].gen + 1, carrier[c].cost, carrier[c].body) \in Commands
      BY <3>2 DEF Mutation, Commands
    <3>4. [pc |-> "attached", gen |-> carrier[c].gen + 1] \in CarrierStates
      BY <3>2 DEF CarrierStates
    <3>5. queue' \in Seq(Commands)
      BY <2>1, <3>3 DEF Publish, PublishCommand
    <3>6. carrier' \in [Computers -> CarrierStates]
      BY <2>1, <3>4, Zenon DEF Publish
    <3>7. admitted' \in [Computers -> Nat \cup {Absent}]
      BY <2>1, <3>2 DEF Publish
    <3>8. queued_bytes' \in Int /\ reserved_records' \in Int /\ reserved_bytes' \in Int
      BY <2>1, <3>2 DEF Publish, PublishCommand, Mutation
    <3> QED
      BY <2>1, <3>5, <3>6, <3>7, <3>8, Zenon DEF Publish, PublishCommand
  <2>2. CASE DropReservation(c)
    <3>1. carrier[c].gen \in Nat /\ carrier[c].cost \in Nat
      BY <2>2, CarrierShape, Zenon DEF DropReservation
    <3>2. [pc |-> "attached", gen |-> carrier[c].gen] \in CarrierStates
      BY <3>1, Zenon DEF CarrierStates
    <3> QED
      BY <2>2, <3>1, <3>2 DEF DropReservation
  <2>3. CASE OpenFlushAdmitted(c)
    <3>1. admitted[c] # Absent => [pc |-> "flushing", gen |-> admitted[c]] \in CarrierStates
      BY Zenon DEF CarrierStates
    <3>2. /\ [pc |-> "detached"] \in CarrierStates
          /\ [pc |-> "recovering"] \in CarrierStates
      BY Zenon DEF CarrierStates
    <3> QED
      BY <2>3, <3>1, <3>2, Zenon DEF OpenFlushAdmitted
  <2>4. CASE OpenFlushWait(c)
    <3>1. /\ [pc |-> "detached"] \in CarrierStates
          /\ [pc |-> "recovering"] \in CarrierStates
      BY Zenon DEF CarrierStates
    <3> QED
      BY <2>4, <3>1, Zenon DEF OpenFlushWait
  <2>5. ASSUME NEW g \in Nat, OpenRegister(c, g)
        PROVE  GateTypeOK'
    <3>1. /\ [pc |-> "detached"] \in CarrierStates
          /\ [pc |-> "attached", gen |-> g] \in CarrierStates
      BY Zenon DEF CarrierStates
    <3> QED
      BY <2>5, <3>1, Zenon DEF OpenRegister
  <2>6. CASE OpenFault(c)
    <3>1. [pc |-> "detached"] \in CarrierStates
      BY Zenon DEF CarrierStates
    <3> QED
      BY <2>6, <3>1, Zenon DEF OpenFault
  <2> QED
    BY <1>2, <2>1, <2>2, <2>3, <2>4, <2>5, <2>6, Zenon DEF CarrierSteps
<1>3. ASSUME NEW k \in Callers, CallerSteps(k)
      PROVE  GateTypeOK'
  <2>1. ASSUME NEW cost \in Nat, NEW body \in ControlBodies,
               CallControl(k, cost, body)
        PROVE  GateTypeOK'
    <3>1. [pc |-> "reserved", cost |-> cost, body |-> body] \in CallerStates
      BY Zenon DEF CallerStates
    <3> QED
      BY <2>1, <3>1 DEF CallControl, Reserve
  <2>2. ASSUME NEW c \in Computers, NEW g \in Nat, Flush(k, c, g)
        PROVE  GateTypeOK'
    <3>2. [pc |-> "flushing", id |-> c, gen |-> g] \in CallerStates
      BY Zenon DEF CallerStates
    <3>3. /\ FlushOutcome(c, g) \in {"StorageFaulted", "Closed", "Ok", "wait"}
          /\ Idle("InvalidGeneration") \in CallerStates
          /\ Idle("StorageFaulted") \in CallerStates
          /\ Idle("Closed") \in CallerStates
          /\ Idle("Ok") \in CallerStates
      BY Zenon DEF FlushOutcome, Idle, CallerStates, Results
    <3> QED
      BY <2>2, <3>2, <3>3, Zenon DEF Flush, FlushTurn
  <2> QED
    BY <1>3, <2>1, <2>2, Zenon DEF CallerSteps
<1>4. ASSUME NEW k \in Callers, CallerRuns(k)
      PROVE  GateTypeOK'
  <2>1. CASE PublishControl(k)
    <3>1. caller[k].cost \in Nat /\ caller[k].body \in ControlBodies
      BY <2>1, CallerShape, Zenon DEF PublishControl
    <3>2. Control(k, caller[k].cost, caller[k].body) \in Commands
      BY <3>1, Zenon DEF Control, Commands
    <3>3. [pc |-> "waiting"] \in CallerStates
      BY Zenon DEF CallerStates
    <3>4. queue' \in Seq(Commands)
      BY <2>1, <3>2 DEF PublishControl, PublishCommand
    <3>5. queued_bytes' \in Int /\ reserved_records' \in Int /\ reserved_bytes' \in Int
      BY <2>1, <3>1 DEF PublishControl, PublishCommand, Control
    <3> QED
      BY <2>1, <3>3, <3>4, <3>5, Zenon DEF PublishControl, PublishCommand
  <2>2. CASE FlushWake(k)
    <3> DEFINE c == caller[k].id
               g == caller[k].gen
    <3>1. c \in Computers /\ g \in Nat
      BY <2>2, CallerShape, Zenon DEF FlushWake
    <3>2. [pc |-> "flushing", id |-> c, gen |-> g] \in CallerStates
      BY <3>1, Zenon DEF CallerStates
    <3>3. /\ FlushOutcome(c, g) \in {"StorageFaulted", "Closed", "Ok", "wait"}
          /\ Idle("StorageFaulted") \in CallerStates
          /\ Idle("Closed") \in CallerStates
          /\ Idle("Ok") \in CallerStates
      BY Zenon DEF FlushOutcome, Idle, CallerStates, Results
    <3>4. FlushTurn(k, c, g, FlushOutcome(c, g))
      BY <2>2, Zenon DEF FlushWake
    <3> HIDE DEF c, g
    <3> QED
      BY <3>2, <3>3, <3>4, Zenon DEF FlushTurn
  <2> QED
    BY <1>4, <2>1, <2>2, Zenon DEF CallerRuns
<1>5. CASE WorkerSteps
  <2>0. /\ [pc |-> "running"] \in WorkerStates
        /\ [pc |-> "exited"] \in WorkerStates
        /\ Idle("Ok") \in CallerStates
        /\ Idle("StorageFaulted") \in CallerStates
    BY Zenon DEF WorkerStates, CallerStates, Idle, Results
  <2>1. CASE WorkerSleep
    BY <2>1, Zenon DEF WorkerSleep
  <2>2. CASE WorkerTake
    <3>1. Head(queue) \in Commands /\ Tail(queue) \in Seq(Commands)
      BY <2>2 DEF WorkerTake
    <3>2. Head(queue).cost \in Nat
      BY <3>1, CommandShape, Zenon
    <3>3. [pc |-> "busy", cmd |-> Head(queue)] \in WorkerStates
      BY <3>1, Zenon DEF WorkerStates
    <3> QED
      BY <2>0, <2>2, <3>1, <3>2, <3>3 DEF WorkerTake
  <2>3. CASE WorkerPersisted
    <3>1. worker.cmd.gen \in Nat
      BY <2>3, WorkerShape, CommandShape, Zenon DEF WorkerPersisted
    <3> QED
      BY <2>0, <2>3, <3>1, Zenon DEF WorkerPersisted
  <2>4. CASE WorkerCompleted
    BY <2>0, <2>4, Zenon DEF WorkerCompleted
  <2>5. CASE WorkerFailed
    <3>1. [pc |-> "completing", cmd |-> worker.cmd] \in WorkerStates
      BY <2>5, WorkerShape, Zenon DEF WorkerFailed, WorkerStates
    <3> QED
      BY <2>0, <2>5, <3>1 DEF WorkerFailed, FaultWorker
  <2>6. CASE WorkerCompletedFailed
    BY <2>0, <2>6, Zenon DEF WorkerCompletedFailed
  <2> QED
    BY <1>5, <2>1, <2>2, <2>3, <2>4, <2>5, <2>6, Zenon DEF WorkerSteps
<1>6. CASE CloseBegin
  BY <1>6, Zenon DEF CloseBegin, CloseUnchanged
<1>7. CASE CloserRuns
  <2>1. CASE CloseDrain
    BY <2>1, Zenon DEF CloseDrain, CloseUnchanged
  <2>2. CASE CloseStopWait
    BY <2>2, Zenon DEF CloseStopWait, CloseUnchanged
  <2>3. CASE CloseStop
    <3>1. Stop \in Commands
      BY Zenon DEF Commands
    <3>2. queue' \in Seq(Commands)
      BY <2>3, <3>1 DEF CloseStop
    <3> QED
      BY <2>3, <3>2, Zenon DEF CloseStop, CloseUnchanged
  <2>4. CASE CloseJoin
    BY <2>4, Zenon DEF CloseJoin, CloseUnchanged
  <2>5. CASE CloseMark
    BY <2>5, Zenon DEF CloseMark, CloseUnchanged
  <2> QED
    BY <1>7, <2>1, <2>2, <2>3, <2>4, <2>5, Zenon DEF CloserRuns
<1>8. CASE UNCHANGED gateVars
  BY <1>8, Zenon DEF gateVars
<1> QED
  BY <1>1, <1>2, <1>3, <1>4, <1>5, <1>6, <1>7, <1>8, Zenon DEF GateStep

\* The type invariant holds in every reachable state.
THEOREM GateTypeCorrect == GateSpec => []GateTypeOK
<1>1. GateTypeOK /\ [GateNext]_gateVars => GateTypeOK'
  BY GateNextIsStep, StepTypes, Zenon
<1> QED
  BY <1>1, InitTypes, PTL DEF GateSpec

\* A step keeps queue and reservations within the configured records.
LEMMA StepBounded ==
    ASSUME GateTypeOK, QueueBounded, [GateStep]_gateVars
    PROVE  QueueBounded'
<1> USE LimitsAssumption DEF QueueBounded, queueVars, NotifyAll
<1>1. queue \in Seq(Commands) /\ reserved_records \in Int /\ stop_enqueued \in BOOLEAN
  BY Zenon DEF GateTypeOK
<1>2. UNCHANGED <<queue, reserved_records, stop_enqueued>> => QueueBounded'
  OBVIOUS
<1>3. ASSUME NEW cost, Reserve(cost), UNCHANGED <<queue, stop_enqueued>>
      PROVE  QueueBounded'
  BY <1>1, <1>3 DEF Reserve, CanReserve
<1>4. ASSUME NEW command, PublishCommand(command), UNCHANGED stop_enqueued
      PROVE  QueueBounded'
  BY <1>1, <1>4 DEF PublishCommand
<1>5. ASSUME NEW c \in Computers, CarrierStarts(c)
      PROVE  QueueBounded'
  BY <1>2, <1>3, <1>5, Zenon DEF CarrierStarts, OpenBegin, Detach, Prepare
<1>6. ASSUME NEW c \in Computers, CarrierSteps(c)
      PROVE  QueueBounded'
  <2>1. CASE Publish(c)
    BY <1>4, <2>1, Zenon DEF Publish
  <2>2. CASE DropReservation(c)
    BY <1>1, <2>2 DEF DropReservation
  <2> QED
    BY <1>2, <1>6, <2>1, <2>2, Zenon
       DEF CarrierSteps, OpenFlushAdmitted, OpenFlushWait, OpenRegister, OpenFault
<1>7. ASSUME NEW k \in Callers, CallerSteps(k)
      PROVE  QueueBounded'
  BY <1>2, <1>3, <1>7, Zenon DEF CallerSteps, CallControl, Flush, FlushTurn
<1>8. ASSUME NEW k \in Callers, CallerRuns(k)
      PROVE  QueueBounded'
  BY <1>2, <1>4, <1>8, Zenon DEF CallerRuns, PublishControl, FlushWake, FlushTurn
<1>9. CASE WorkerSteps
  <2>1. CASE WorkerTake
    <3>1. Len(Tail(queue)) = Len(queue) - 1
      BY <1>1, <2>1 DEF WorkerTake
    <3>2. Len(queue) \in Nat
      BY <1>1
    <3> QED
      BY <1>1, <2>1, <3>1, <3>2 DEF WorkerTake
  <2>2. CASE WorkerFailed
    <3>1. Len(queue) \in Nat /\ Len(queue') = 0
      BY <1>1, <2>2 DEF WorkerFailed, FaultWorker
    <3> QED
      BY <1>1, <2>2, <3>1 DEF WorkerFailed
  <2> QED
    BY <1>2, <1>9, <2>1, <2>2, Zenon
       DEF WorkerSteps, WorkerSleep, WorkerPersisted, WorkerCompleted, WorkerCompletedFailed
<1>10. CASE CloseBegin
  BY <1>2, <1>10, Zenon DEF CloseBegin
<1>11. CASE CloserRuns
  <2>1. CASE CloseStop
    BY <1>1, <2>1 DEF CloseStop
  <2> QED
    BY <1>2, <1>11, <2>1, Zenon
       DEF CloserRuns, CloseDrain, CloseStopWait, CloseJoin, CloseMark
<1>12. CASE UNCHANGED gateVars
  BY <1>2, <1>12, Zenon DEF gateVars
<1> QED
  BY <1>5, <1>6, <1>7, <1>8, <1>9, <1>10, <1>11, <1>12, Zenon DEF GateStep

\* Back-pressure: queue and reservations never exceed the configured records.
THEOREM QueueStaysBounded == GateSpec => []QueueBounded
<1>1. GateInit => QueueBounded
  BY LimitsAssumption DEF GateInit, QueueBounded
<1>2. GateTypeOK /\ QueueBounded /\ [GateNext]_gateVars => QueueBounded'
  BY GateNextIsStep, StepBounded, Zenon
<1> QED
  BY <1>1, <1>2, GateTypeCorrect, PTL DEF GateSpec

--------------------------------------------------------------------------------
(* Order and loss.  GenerationOrder and NoAdmittedLoss are not inductive by     *)
(* themselves: publishing needs the carrier's generation to be the admitted     *)
(* one, and registering a reopened computer needs everything admitted to be     *)
(* durable, which is what CarrierAgrees adds.                                   *)

OrderInv == GenerationOrder /\ NoAdmittedLoss /\ CarrierAgrees

\* The part of the state GenerationOrder and NoAdmittedLoss read is unchanged,
\* and the store does not recover from a fault.
LEMMA QueueKept ==
    ASSUME OrderInv, UNCHANGED <<queue, admitted, durable, worker>>,
           health = "Faulted" => health' = "Faulted"
    PROVE  GenerationOrder' /\ NoAdmittedLoss'
BY DEF OrderInv, GenerationOrder, NoAdmittedLoss, Pending

\* Publishing appends the next generation of the computer.
LEMMA PublishKeepsOrder ==
    ASSUME GateTypeOK, OrderInv, NEW c \in Computers, Publish(c)
    PROVE  OrderInv'
<1> DEFINE gen == carrier[c].gen + 1
           cmd == Mutation(c, gen, carrier[c].cost, carrier[c].body)
<1>1. /\ queue \in Seq(Commands)
      /\ admitted \in [Computers -> Nat \cup {Absent}]
      /\ durable \in [Computers -> Nat \cup {Absent}]
      /\ carrier \in [Computers -> CarrierStates]
      /\ worker \in WorkerStates
  BY Zenon DEF GateTypeOK
<1>2. carrier[c].gen = admitted[c] /\ carrier[c].gen \in Nat
  BY <1>1, CarrierShape, Zenon DEF OrderInv, CarrierAgrees, Publish
<1>3. /\ queue' = Append(queue, cmd)
      /\ admitted' = [admitted EXCEPT ![c] = gen]
      /\ carrier' = [carrier EXCEPT ![c] = [pc |-> "attached", gen |-> gen]]
      /\ UNCHANGED <<health, durable, worker>>
  BY Zenon DEF Publish, PublishCommand
<1>4. cmd.kind = "Mutation" /\ cmd.id = c /\ cmd.gen = gen
  BY Zenon DEF Mutation
<1>5. /\ DOMAIN queue' = DOMAIN queue \cup {Len(queue) + 1}
      /\ queue'[Len(queue) + 1] = cmd
      /\ \A i \in DOMAIN queue : i <= Len(queue) /\ queue'[i] = queue[i]
      /\ DOMAIN queue \subseteq Nat /\ Len(queue) \in Nat
  <2> HIDE DEF cmd
  <2> QED
    BY <1>1, <1>3
<1> HIDE DEF cmd
<1>6. \A i \in DOMAIN queue : queue[i].kind = "Mutation" =>
          queue[i].id \in Computers /\ queue[i].gen \in Nat
  BY <1>1, CommandShape
<1>7. (worker.pc = "busy" /\ worker.cmd.kind = "Mutation") =>
          worker.cmd.id \in Computers /\ worker.cmd.gen \in Nat
  BY <1>1, WorkerShape, CommandShape, Zenon
<1>8. /\ admitted'[c] = admitted[c] + 1
      /\ \A d \in Computers : admitted[d] <= admitted'[d]
  BY <1>1, <1>2, <1>3 DEF Absent
<1>9. GenerationOrder'
  <2>1. \A d \in Computers : durable'[d] <= admitted'[d]
    BY <1>1, <1>3, <1>8 DEF OrderInv, GenerationOrder, Absent
  <2>2. ASSUME NEW i \in DOMAIN queue', queue'[i].kind = "Mutation"
        PROVE  /\ durable'[queue'[i].id] < queue'[i].gen
               /\ queue'[i].gen <= admitted'[queue'[i].id]
               /\ \A j \in DOMAIN queue' :
                     (j > i /\ queue'[j].kind = "Mutation" /\ queue'[j].id = queue'[i].id)
                         => queue'[i].gen < queue'[j].gen
    <3>1. CASE i \in DOMAIN queue
      <4>1. /\ durable[queue[i].id] < queue[i].gen
            /\ queue[i].gen <= admitted[queue[i].id]
            /\ \A j \in DOMAIN queue :
                  (j > i /\ queue[j].kind = "Mutation" /\ queue[j].id = queue[i].id)
                      => queue[i].gen < queue[j].gen
        BY <1>5, <2>2, <3>1, Zenon DEF OrderInv, GenerationOrder
      <4>2. queue[i].id \in Computers /\ queue[i].gen \in Nat
        BY <1>5, <1>6, <2>2, <3>1, Zenon
      <4>3. queue[i].gen <= admitted'[queue[i].id]
        BY <1>1, <1>3, <1>2, <1>8, <4>1, <4>2 DEF Absent
      <4>4. queue[i].id = c => queue[i].gen < gen
        BY <1>2, <4>1, <4>2
      <4> QED
        BY <1>3, <1>4, <1>5, <3>1, <4>1, <4>2, <4>3, <4>4, Zenon
    <3>2. CASE i = Len(queue) + 1
      <4>1. \A j \in DOMAIN queue' : ~(j > i)
        BY <1>5, <3>2
      <4>2. queue'[i].id = c /\ queue'[i].gen = gen
        BY <1>4, <1>5, <3>2, Zenon
      <4>3. durable[c] < gen /\ gen <= admitted'[c]
        BY <1>1, <1>2, <1>8 DEF OrderInv, GenerationOrder, Absent
      <4> QED
        BY <1>3, <4>1, <4>2, <4>3, Zenon
    <3> QED
      BY <1>5, <3>1, <3>2, Zenon
  <2>3. ASSUME worker'.pc = "busy" /\ worker'.cmd.kind = "Mutation"
        PROVE  /\ durable'[worker'.cmd.id] < worker'.cmd.gen
               /\ worker'.cmd.gen <= admitted'[worker'.cmd.id]
               /\ \A j \in DOMAIN queue' :
                     (queue'[j].kind = "Mutation" /\ queue'[j].id = worker'.cmd.id)
                         => worker'.cmd.gen < queue'[j].gen
    <3>1. /\ durable[worker.cmd.id] < worker.cmd.gen
          /\ worker.cmd.gen <= admitted[worker.cmd.id]
          /\ \A j \in DOMAIN queue :
                (queue[j].kind = "Mutation" /\ queue[j].id = worker.cmd.id)
                    => worker.cmd.gen < queue[j].gen
          /\ worker.cmd.id \in Computers /\ worker.cmd.gen \in Nat
      BY <1>3, <1>7, <2>3, Zenon DEF OrderInv, GenerationOrder
    <3>2. worker.cmd.gen <= admitted'[worker.cmd.id]
      BY <1>1, <1>2, <1>3, <1>8, <3>1 DEF Absent
    <3>3. worker.cmd.id = c => worker.cmd.gen < gen
      BY <1>2, <3>1
    <3> QED
      BY <1>3, <1>4, <1>5, <3>1, <3>2, <3>3, Zenon
  <2> QED
    BY <2>1, <2>2, <2>3, Zenon DEF GenerationOrder
<1>10. NoAdmittedLoss'
  <2> SUFFICES ASSUME health' # "Faulted", NEW d \in Computers,
                      NEW g \in durable'[d] + 1 .. admitted'[d]
               PROVE  Pending(d, g)'
    BY Zenon DEF NoAdmittedLoss
  <2>1. CASE g \in durable[d] + 1 .. admitted[d]
    <3>1. Pending(d, g)
      BY <1>3, <2>1, Zenon DEF OrderInv, NoAdmittedLoss
    <3> QED
      BY <1>3, <1>5, <3>1, Zenon DEF Pending
  <2>2. CASE d = c /\ g = gen
    BY <1>4, <1>5, <2>2, Zenon DEF Pending
  <2>3. g \in durable[d] + 1 .. admitted[d] \/ (d = c /\ g = gen)
    BY <1>1, <1>2, <1>3, <1>8 DEF Absent
  <2> QED
    BY <2>1, <2>2, <2>3, Zenon
<1>11. CarrierAgrees'
  BY <1>1, <1>2, <1>3, <1>8 DEF OrderInv, CarrierAgrees, Absent
<1> QED
  BY <1>9, <1>10, <1>11, Zenon DEF OrderInv

\* The worker takes the oldest command; what it holds precedes what is queued.
LEMMA TakeKeepsOrder ==
    ASSUME GateTypeOK, OrderInv, WorkerTake
    PROVE  OrderInv'
<1>1. /\ queue \in Seq(Commands) /\ queue # <<>> /\ queue' = Tail(queue)
      /\ UNCHANGED <<health, admitted, durable, carrier>>
  BY Zenon DEF GateTypeOK, WorkerTake
<1>2. /\ Len(queue) \in Nat \ {0}
      /\ DOMAIN queue = 1 .. Len(queue)
      /\ DOMAIN queue' = 1 .. Len(queue) - 1
      /\ \A i \in DOMAIN queue' : i + 1 \in DOMAIN queue /\ queue'[i] = queue[i + 1]
      /\ Head(queue) = queue[1] /\ 1 \in DOMAIN queue
  BY <1>1
<1>3. \/ worker' = [pc |-> "exited"] /\ queue[1] = Stop
      \/ worker' = [pc |-> "busy", cmd |-> queue[1]]
  BY <1>2, Zenon DEF WorkerTake
<1>4. GenerationOrder'
  <2>1. \A d \in Computers : durable'[d] <= admitted'[d]
    BY <1>1, Zenon DEF OrderInv, GenerationOrder
  <2>2. ASSUME NEW i \in DOMAIN queue', queue'[i].kind = "Mutation"
        PROVE  /\ durable'[queue'[i].id] < queue'[i].gen
               /\ queue'[i].gen <= admitted'[queue'[i].id]
               /\ \A j \in DOMAIN queue' :
                     (j > i /\ queue'[j].kind = "Mutation" /\ queue'[j].id = queue'[i].id)
                         => queue'[i].gen < queue'[j].gen
    <3>1. /\ durable[queue[i + 1].id] < queue[i + 1].gen
          /\ queue[i + 1].gen <= admitted[queue[i + 1].id]
          /\ \A j \in DOMAIN queue :
                (j > i + 1 /\ queue[j].kind = "Mutation" /\ queue[j].id = queue[i + 1].id)
                    => queue[i + 1].gen < queue[j].gen
      BY <1>2, <2>2, Zenon DEF OrderInv, GenerationOrder
    <3>2. \A j \in DOMAIN queue' : j > i => j + 1 > i + 1
      BY <1>2
    <3> QED
      BY <1>1, <1>2, <3>1, <3>2, Zenon
  <2>3. ASSUME worker'.pc = "busy" /\ worker'.cmd.kind = "Mutation"
        PROVE  /\ durable'[worker'.cmd.id] < worker'.cmd.gen
               /\ worker'.cmd.gen <= admitted'[worker'.cmd.id]
               /\ \A j \in DOMAIN queue' :
                     (queue'[j].kind = "Mutation" /\ queue'[j].id = worker'.cmd.id)
                         => worker'.cmd.gen < queue'[j].gen
    <3>1. worker'.cmd = queue[1]
      BY <1>3, <2>3
    <3>2. /\ durable[queue[1].id] < queue[1].gen
          /\ queue[1].gen <= admitted[queue[1].id]
          /\ \A j \in DOMAIN queue :
                (j > 1 /\ queue[j].kind = "Mutation" /\ queue[j].id = queue[1].id)
                    => queue[1].gen < queue[j].gen
      BY <1>2, <2>3, <3>1, Zenon DEF OrderInv, GenerationOrder
    <3>3. \A j \in DOMAIN queue' : j + 1 > 1
      BY <1>2
    <3> QED
      BY <1>1, <1>2, <3>1, <3>2, <3>3, Zenon
  <2> QED
    BY <2>1, <2>2, <2>3, Zenon DEF GenerationOrder
<1>5. NoAdmittedLoss'
  <2> SUFFICES ASSUME health' # "Faulted", NEW d \in Computers,
                      NEW g \in durable'[d] + 1 .. admitted'[d]
               PROVE  Pending(d, g)'
    BY Zenon DEF NoAdmittedLoss
  <2>1. Pending(d, g) /\ worker.pc = "running"
    BY <1>1, Zenon DEF OrderInv, NoAdmittedLoss, WorkerTake
  <2>2. PICK i \in DOMAIN queue :
           queue[i].kind = "Mutation" /\ queue[i].id = d /\ queue[i].gen = g
    BY <2>1, Zenon DEF Pending
  <2>3. CASE i = 1
    BY <1>3, <2>2, <2>3 DEF Pending, Stop
  <2>4. CASE i # 1
    <3>1. i - 1 \in DOMAIN queue' /\ queue'[i - 1] = queue[i]
      BY <1>2, <2>4
    <3> QED
      BY <2>2, <3>1, Zenon DEF Pending
  <2> QED
    BY <2>3, <2>4, Zenon
<1>6. CarrierAgrees'
  BY <1>1, Zenon DEF OrderInv, CarrierAgrees
<1> QED
  BY <1>4, <1>5, <1>6, Zenon DEF OrderInv

\* The mutation persisted is the next one after what was durable.
LEMMA PersistedKeepsOrder ==
    ASSUME GateTypeOK, OrderInv, WorkerPersisted
    PROVE  OrderInv' /\ \A c \in Computers : durable'[c] >= durable[c]
<1> DEFINE c == worker.cmd.id
           g == worker.cmd.gen
<1>1. /\ queue \in Seq(Commands)
      /\ admitted \in [Computers -> Nat \cup {Absent}]
      /\ durable \in [Computers -> Nat \cup {Absent}]
      /\ carrier \in [Computers -> CarrierStates]
  BY Zenon DEF GateTypeOK
<1>2. c \in Computers /\ g \in Nat
  BY WorkerShape, CommandShape, Zenon DEF GateTypeOK, WorkerPersisted
<1>3. /\ durable[c] < g
      /\ g <= admitted[c]
      /\ \A j \in DOMAIN queue :
            (queue[j].kind = "Mutation" /\ queue[j].id = c) => g < queue[j].gen
  BY Zenon DEF OrderInv, GenerationOrder, WorkerPersisted
<1>4. /\ durable' = [durable EXCEPT ![c] = g]
      /\ worker' = [pc |-> "running"]
      /\ UNCHANGED <<health, queue, admitted, carrier>>
  BY Zenon DEF WorkerPersisted, queueVars
<1>5. \A i \in DOMAIN queue : queue[i].kind = "Mutation" => queue[i].id \in Computers
  BY <1>1, CommandShape
<1>6. Pending(c, g) /\ \A d \in Computers, h \in Nat :
          (Pending(d, h) /\ ~(d = c /\ h = g)) => Pending(d, h)'
  BY <1>4, Zenon DEF Pending, WorkerPersisted
<1> HIDE DEF c, g
<1>7. GenerationOrder'
  <2>1. \A d \in Computers : durable'[d] <= admitted'[d]
    BY <1>1, <1>2, <1>3, <1>4, Zenon DEF OrderInv, GenerationOrder
  <2>2. ASSUME NEW i \in DOMAIN queue', queue'[i].kind = "Mutation"
        PROVE  /\ durable'[queue'[i].id] < queue'[i].gen
               /\ queue'[i].gen <= admitted'[queue'[i].id]
               /\ \A j \in DOMAIN queue' :
                     (j > i /\ queue'[j].kind = "Mutation" /\ queue'[j].id = queue'[i].id)
                         => queue'[i].gen < queue'[j].gen
    BY <1>1, <1>2, <1>3, <1>4, <1>5, <2>2, Zenon DEF OrderInv, GenerationOrder
  <2>3. worker'.pc # "busy"
    BY <1>4, Zenon
  <2> QED
    BY <2>1, <2>2, <2>3, Zenon DEF GenerationOrder
<1>8. NoAdmittedLoss'
  <2> SUFFICES ASSUME health' # "Faulted", NEW d \in Computers,
                      NEW h \in durable'[d] + 1 .. admitted'[d]
               PROVE  Pending(d, h)'
    BY Zenon DEF NoAdmittedLoss
  <2>1. h \in durable[d] + 1 .. admitted[d] /\ h \in Nat /\ ~(d = c /\ h = g)
    <3>1. /\ durable[d] \in Int /\ durable[d] >= -1
          /\ durable'[d] \in Int /\ durable'[d] >= durable[d]
          /\ admitted'[d] = admitted[d]
          /\ admitted[d] \in Int
      BY <1>1, <1>2, <1>3, <1>4 DEF Absent
    <3>2. d = c => durable'[d] = g
      BY <1>1, <1>2, <1>4, Zenon
    <3> QED
      BY <3>1, <3>2
  <2>2. Pending(d, h)
    BY <1>4, <2>1, Zenon DEF OrderInv, NoAdmittedLoss
  <2> QED
    BY <1>6, <2>1, <2>2, Zenon
<1>9. CarrierAgrees'
  BY <1>1, <1>2, <1>3, <1>4 DEF OrderInv, CarrierAgrees, Absent
<1>10. \A d \in Computers : durable'[d] >= durable[d]
  BY <1>1, <1>2, <1>3, <1>4 DEF Absent
<1> QED
  BY <1>7, <1>8, <1>9, <1>10, Zenon DEF OrderInv

\* Registering a reopened computer replaces two equal generations by the one
\* recovered, which is the durable one.
LEMMA RegisterKeepsOrder ==
    ASSUME GateTypeOK, OrderInv, NEW c \in Computers, NEW g \in Nat, g >= durable[c],
           OpenRegister(c, g)
    PROVE  OrderInv' /\ \A d \in Computers : durable'[d] >= durable[d]
<1>1. /\ queue \in Seq(Commands)
      /\ admitted \in [Computers -> Nat \cup {Absent}]
      /\ durable \in [Computers -> Nat \cup {Absent}]
      /\ carrier \in [Computers -> CarrierStates]
      /\ worker \in WorkerStates
  BY Zenon DEF GateTypeOK
<1>2. /\ durable[c] = admitted[c]
      /\ g \in Nat /\ g >= durable[c]
  BY <1>1, Zenon DEF OrderInv, CarrierAgrees, OpenRegister
<1>3. UNCHANGED <<health, queue, worker>>
  BY Zenon DEF OpenRegister, queueVars
<1>4. CASE /\ admitted' = [admitted EXCEPT ![c] = g]
           /\ durable' = [durable EXCEPT ![c] = g]
           /\ carrier' = [carrier EXCEPT ![c] = [pc |-> "attached", gen |-> g]]
  <2>1. /\ admitted' = [admitted EXCEPT ![c] = g]
        /\ durable' = [durable EXCEPT ![c] = g]
        /\ carrier' = [carrier EXCEPT ![c] = [pc |-> "attached", gen |-> g]]
    BY <1>4, Zenon
  <2>2. \A i \in DOMAIN queue : queue[i].kind = "Mutation" =>
            queue[i].id \in Computers \ {c} /\ queue[i].gen \in Nat
    <3> SUFFICES ASSUME NEW i \in DOMAIN queue, queue[i].kind = "Mutation"
                 PROVE  queue[i].id \in Computers \ {c} /\ queue[i].gen \in Nat
      BY Zenon
    <3>1. queue[i].id \in Computers /\ queue[i].gen \in Nat
      BY <1>1, CommandShape
    <3>2. durable[queue[i].id] < queue[i].gen /\ queue[i].gen <= admitted[queue[i].id]
      BY Zenon DEF OrderInv, GenerationOrder
    <3> QED
      BY <1>1, <1>2, <3>1, <3>2 DEF Absent
  <2>3. (worker.pc = "busy" /\ worker.cmd.kind = "Mutation") =>
            worker.cmd.id \in Computers \ {c}
    <3> SUFFICES ASSUME worker.pc = "busy", worker.cmd.kind = "Mutation"
                 PROVE  worker.cmd.id \in Computers \ {c}
      BY Zenon
    <3>1. worker.cmd.id \in Computers /\ worker.cmd.gen \in Nat
      BY <1>1, WorkerShape, CommandShape, Zenon
    <3>2. durable[worker.cmd.id] < worker.cmd.gen /\ worker.cmd.gen <= admitted[worker.cmd.id]
      BY Zenon DEF OrderInv, GenerationOrder
    <3> QED
      BY <1>1, <1>2, <3>1, <3>2 DEF Absent
  <2>4. \A d \in Computers \ {c} : durable'[d] = durable[d] /\ admitted'[d] = admitted[d]
    BY <1>1, <2>1, Zenon
  <2>5. durable'[c] = g /\ admitted'[c] = g
    BY <1>1, <2>1, Zenon
  <2>6. GenerationOrder'
    BY <1>2, <1>3, <2>2, <2>3, <2>4, <2>5 DEF OrderInv, GenerationOrder
  <2>7. NoAdmittedLoss'
    <3> SUFFICES ASSUME health' # "Faulted", NEW d \in Computers,
                        NEW h \in durable'[d] + 1 .. admitted'[d]
                 PROVE  Pending(d, h)'
      BY Zenon DEF NoAdmittedLoss
    <3>1. d # c
      BY <1>2, <2>5
    <3>2. Pending(d, h)
      BY <1>3, <2>4, <3>1, Zenon DEF OrderInv, NoAdmittedLoss
    <3> QED
      BY <1>3, <3>2, Zenon DEF Pending
  <2>8. CarrierAgrees'
    BY <1>1, <1>2, <2>1, Zenon DEF OrderInv, CarrierAgrees, Absent
  <2>9. \A d \in Computers : durable'[d] >= durable[d]
    BY <1>1, <1>2, <2>4, <2>5 DEF Absent
  <2> QED
    BY <2>6, <2>7, <2>8, <2>9, Zenon DEF OrderInv
<1>5. CASE /\ carrier' = [carrier EXCEPT ![c] = [pc |-> "detached"]]
           /\ UNCHANGED <<admitted, durable>>
  <2>1. /\ carrier' = [carrier EXCEPT ![c] = [pc |-> "detached"]]
        /\ UNCHANGED <<admitted, durable>>
    BY <1>5, Zenon
  <2>2. CarrierAgrees'
    BY <1>1, <2>1, Zenon DEF OrderInv, CarrierAgrees
  <2>3. \A d \in Computers : durable'[d] >= durable[d]
    BY <1>1, <2>1 DEF Absent
  <2> QED
    BY <1>3, <2>1, <2>2, <2>3, QueueKept, Zenon DEF OrderInv
<1> QED
  BY <1>4, <1>5, Zenon DEF OpenRegister

\* A command that is no mutation may be appended anywhere.
LEMMA AppendOtherKeepsOrder ==
    ASSUME OrderInv, queue \in Seq(Commands), NEW cmd, cmd.kind # "Mutation",
           queue' = Append(queue, cmd), UNCHANGED <<admitted, durable, worker, carrier, health>>
    PROVE  OrderInv'
<1>1. /\ DOMAIN queue' = DOMAIN queue \cup {Len(queue) + 1}
      /\ queue'[Len(queue) + 1] = cmd
      /\ \A i \in DOMAIN queue : queue'[i] = queue[i]
  OBVIOUS
<1>2. GenerationOrder'
  BY <1>1 DEF OrderInv, GenerationOrder
<1>3. NoAdmittedLoss'
  BY <1>1 DEF OrderInv, NoAdmittedLoss, Pending
<1>4. CarrierAgrees'
  BY Zenon DEF OrderInv, CarrierAgrees
<1> QED
  BY <1>2, <1>3, <1>4, Zenon DEF OrderInv

LEMMA PublishControlKeepsOrder ==
    ASSUME GateTypeOK, OrderInv, NEW k \in Callers, PublishControl(k)
    PROVE  OrderInv'
<1> DEFINE cmd == Control(k, caller[k].cost, caller[k].body)
<1>1. cmd.kind # "Mutation"
  BY Zenon DEF Control
<1>2. queue' = Append(queue, cmd) /\ UNCHANGED <<admitted, durable, worker, carrier, health>>
  BY Zenon DEF PublishControl, PublishCommand
<1>3. queue \in Seq(Commands)
  BY Zenon DEF GateTypeOK
<1> HIDE DEF cmd
<1> QED
  BY <1>1, <1>2, <1>3, AppendOtherKeepsOrder, Zenon

LEMMA StopKeepsOrder ==
    ASSUME GateTypeOK, OrderInv, CloseStop
    PROVE  OrderInv'
<1>1. UNCHANGED <<admitted, durable, worker, carrier, health>>
  BY Zenon DEF CloseStop, CloseUnchanged
<1>2. CASE stop_enqueued
  <2>1. queue' = queue
    BY <1>2, Zenon DEF CloseStop
  <2>2. CarrierAgrees'
    BY <1>1, Zenon DEF OrderInv, CarrierAgrees
  <2> QED
    BY <1>1, <2>1, <2>2, QueueKept, Zenon DEF OrderInv
<1>3. CASE ~stop_enqueued
  <2>1. queue' = Append(queue, Stop) /\ queue \in Seq(Commands)
    BY <1>3, Zenon DEF CloseStop, GateTypeOK
  <2>2. Stop.kind # "Mutation"
    BY Zenon DEF Stop
  <2> QED
    BY <1>1, <2>1, <2>2, AppendOtherKeepsOrder, Zenon
<1> QED
  BY <1>2, <1>3, Zenon

\* Completing a control command: the worker held no mutation.
LEMMA ControlDoneKeepsOrder ==
    ASSUME OrderInv,
           worker.pc = "completing" \/ worker.cmd.kind = "Control",
           worker' = [pc |-> "running"],
           UNCHANGED <<queue, admitted, durable, carrier, health>>
    PROVE  OrderInv'
<1>1. GenerationOrder'
  BY Zenon DEF OrderInv, GenerationOrder
<1>2. NoAdmittedLoss'
  BY DEF OrderInv, NoAdmittedLoss, Pending
<1>3. CarrierAgrees'
  BY Zenon DEF OrderInv, CarrierAgrees
<1> QED
  BY <1>1, <1>2, <1>3, Zenon DEF OrderInv

\* A step that keeps the generations keeps everything durable that was.
LEMMA DurableKept ==
    ASSUME GateTypeOK, UNCHANGED durable
    PROVE  \A c \in Computers : durable'[c] >= durable[c]
BY DEF GateTypeOK, Absent

\* OrderInv is inductive, and no step takes a durable generation back.
LEMMA OrderStep ==
    ASSUME GateTypeOK, OrderInv, [GateStep]_gateVars
    PROVE  OrderInv' /\ \A c \in Computers : durable'[c] >= durable[c]
<1> DEFINE Goal == OrderInv' /\ \A c \in Computers : durable'[c] >= durable[c]
<1>0. /\ carrier \in [Computers -> CarrierStates]
      /\ admitted \in [Computers -> Nat \cup {Absent}]
      /\ durable \in [Computers -> Nat \cup {Absent}]
  BY Zenon DEF GateTypeOK
<1>1. ASSUME UNCHANGED <<queue, admitted, durable, worker>>,
             health = "Faulted" => health' = "Faulted",
             CarrierAgrees'
      PROVE  Goal
  BY <1>1, QueueKept, DurableKept, Zenon DEF OrderInv
<1>2. ASSUME UNCHANGED <<admitted, durable, carrier>>
      PROVE  CarrierAgrees'
  BY <1>2, Zenon DEF OrderInv, CarrierAgrees
<1>3. ASSUME NEW c \in Computers, NEW next,
             UNCHANGED <<admitted, durable>>,
             carrier' = [carrier EXCEPT ![c] = next],
             next.pc \in {"attached", "reserved", "flushing"} => next.gen = admitted[c],
             next.pc = "recovering" => durable[c] = admitted[c]
      PROVE  CarrierAgrees'
  BY <1>0, <1>3, Zenon DEF OrderInv, CarrierAgrees
<1>4. ASSUME NEW c \in Computers, CarrierStarts(c)
      PROVE  Goal
  <2>1. CASE OpenBegin(c)
    BY <1>1, <1>3, <2>1, Zenon DEF OpenBegin, queueVars
  <2>2. CASE Detach(c)
    BY <1>1, <1>3, <2>2, Zenon DEF Detach, queueVars
  <2>3. ASSUME NEW cost \in MutationBytes, NEW body \in Bodies, Prepare(c, cost, body)
        PROVE  Goal
    <3>1. carrier[c].gen = admitted[c]
      BY <2>3, Zenon DEF OrderInv, CarrierAgrees, Prepare
    <3> QED
      BY <1>1, <1>3, <2>3, <3>1, Zenon DEF Prepare
  <2> QED
    BY <1>4, <2>1, <2>2, <2>3, Zenon DEF CarrierStarts
<1>5. ASSUME NEW c \in Computers, CarrierSteps(c)
      PROVE  Goal
  <2>1. CASE Publish(c)
    BY <2>1, PublishKeepsOrder, DurableKept, Zenon DEF Publish
  <2>2. CASE DropReservation(c)
    <3>1. carrier[c].gen = admitted[c]
      BY <2>2, Zenon DEF OrderInv, CarrierAgrees, DropReservation
    <3> QED
      BY <1>1, <1>3, <2>2, <3>1, Zenon DEF DropReservation
  <2>3. CASE OpenFlushAdmitted(c)
    <3>1. admitted[c] = Absent => durable[c] = admitted[c]
      BY <1>0 DEF OrderInv, GenerationOrder, Absent
    <3> QED
      BY <1>1, <1>3, <2>3, <3>1, Zenon DEF OpenFlushAdmitted, queueVars
  <2>4. CASE OpenFlushWait(c)
    <3>1. carrier[c].gen = admitted[c] /\ carrier[c].pc = "flushing"
      BY <2>4, Zenon DEF OrderInv, CarrierAgrees, OpenFlushWait
    <3>2. admitted[c] \in Nat
      BY <1>0, <3>1, CarrierShape, Zenon
    <3>3. FlushOutcome(c, carrier[c].gen) = "Ok" => durable[c] = admitted[c]
      <4>1. FlushOutcome(c, carrier[c].gen) = "Ok" => Get(durable, c) >= carrier[c].gen
        <5>1. CASE health \in {"Active", "Draining"}
          BY <5>1, Zenon DEF FlushOutcome
        <5>2. CASE health \notin {"Active", "Draining"}
          BY <5>2, Zenon DEF FlushOutcome
        <5> QED
          BY <5>1, <5>2, Zenon
      <4>2. durable[c] <= admitted[c]
        BY Zenon DEF OrderInv, GenerationOrder
      <4>3. durable[c] # Absent
        BY <3>2 DEF OrderInv, CarrierAgrees, Absent
      <4> QED
        BY <1>0, <3>1, <3>2, <4>1, <4>2, <4>3 DEF Get
    <3>4. UNCHANGED <<admitted, durable>>
      BY <2>4, Zenon DEF OpenFlushWait
    <3>5. CASE FlushOutcome(c, carrier[c].gen) = "wait"
      <4>1. carrier' = [carrier EXCEPT ![c] = carrier[c]]
        BY <2>4, <3>5, Zenon DEF OpenFlushWait
      <4>2. carrier[c].pc # "recovering"
        BY <3>1, Zenon
      <4>3. CarrierAgrees'
        BY <1>3, <3>1, <3>4, <4>1, <4>2, Zenon
      <4> QED
        BY <1>1, <2>4, <4>3, Zenon DEF OpenFlushWait, queueVars
    <3>6. CASE FlushOutcome(c, carrier[c].gen) = "Ok"
      <4>1. carrier' = [carrier EXCEPT ![c] = [pc |-> "recovering"]]
        BY <2>4, <3>6, Zenon DEF OpenFlushWait
      <4>2. CarrierAgrees'
        BY <1>3, <3>3, <3>4, <3>6, <4>1, Zenon
      <4> QED
        BY <1>1, <2>4, <4>2, Zenon DEF OpenFlushWait, queueVars
    <3>7. CASE FlushOutcome(c, carrier[c].gen) \notin {"wait", "Ok"}
      <4>1. carrier' = [carrier EXCEPT ![c] = [pc |-> "detached"]]
        BY <2>4, <3>7, Zenon DEF OpenFlushWait
      <4>2. CarrierAgrees'
        BY <1>3, <3>4, <4>1, Zenon
      <4> QED
        BY <1>1, <2>4, <4>2, Zenon DEF OpenFlushWait, queueVars
    <3> QED
      BY <3>5, <3>6, <3>7, Zenon
  <2>5. ASSUME NEW g \in Nat, g >= durable[c], OpenRegister(c, g)
        PROVE  Goal
    BY <2>5, RegisterKeepsOrder, Zenon
  <2>6. CASE OpenFault(c)
    BY <1>1, <1>3, <2>6, Zenon DEF OpenFault, queueVars
  <2> QED
    BY <1>5, <2>1, <2>2, <2>3, <2>4, <2>5, <2>6, Zenon DEF CarrierSteps
<1>6. ASSUME NEW k \in Callers, CallerSteps(k)
      PROVE  Goal
  BY <1>1, <1>2, <1>6, Zenon DEF CallerSteps, CallControl, Flush, FlushTurn, queueVars
<1>7. ASSUME NEW k \in Callers, CallerRuns(k)
      PROVE  Goal
  <2>1. CASE FlushWake(k)
    BY <1>1, <1>2, <2>1, Zenon DEF FlushWake, FlushTurn, queueVars
  <2>2. CASE PublishControl(k)
    BY <2>2, PublishControlKeepsOrder, DurableKept, Zenon DEF PublishControl
  <2> QED
    BY <1>7, <2>1, <2>2, Zenon DEF CallerRuns
<1>8. CASE WorkerSteps
  <2>1. CASE WorkerSleep
    BY <1>1, <1>2, <2>1, Zenon DEF WorkerSleep, queueVars
  <2>2. CASE WorkerTake
    BY <2>2, TakeKeepsOrder, DurableKept, Zenon DEF WorkerTake
  <2>3. CASE WorkerPersisted
    BY <2>3, PersistedKeepsOrder, Zenon
  <2>4. CASE WorkerCompleted
    BY <2>4, ControlDoneKeepsOrder, DurableKept, Zenon DEF WorkerCompleted, queueVars
  <2>5. CASE WorkerFailed
    <3>1. /\ queue' = <<>>
          /\ health' = "Faulted"
          /\ worker'.pc # "busy"
          /\ UNCHANGED <<admitted, durable, carrier>>
      BY <2>5, Zenon DEF WorkerFailed, FaultWorker
    <3>2. GenerationOrder'
      BY <3>1 DEF OrderInv, GenerationOrder
    <3>3. NoAdmittedLoss'
      BY <3>1, Zenon DEF NoAdmittedLoss
    <3> QED
      BY <1>2, <3>1, <3>2, <3>3, DurableKept, Zenon DEF OrderInv
  <2>6. CASE WorkerCompletedFailed
    BY <2>6, ControlDoneKeepsOrder, DurableKept, Zenon DEF WorkerCompletedFailed, queueVars
  <2> QED
    BY <1>8, <2>1, <2>2, <2>3, <2>4, <2>5, <2>6, Zenon DEF WorkerSteps
<1>9. CASE CloseBegin
  BY <1>1, <1>2, <1>9, Zenon DEF CloseBegin, CloseUnchanged, queueVars
<1>10. CASE CloserRuns
  <2>1. CASE CloseStop
    BY <2>1, StopKeepsOrder, DurableKept, Zenon DEF CloseStop, CloseUnchanged
  <2> QED
    BY <1>1, <1>2, <1>10, <2>1, Zenon
       DEF CloserRuns, CloseDrain, CloseStopWait, CloseJoin, CloseMark, CloseUnchanged, queueVars
<1>11. CASE UNCHANGED gateVars
  BY <1>1, <1>2, <1>11, Zenon DEF gateVars, queueVars
<1> QED
  BY <1>4, <1>5, <1>6, <1>7, <1>8, <1>9, <1>10, <1>11, Zenon DEF GateStep

\* OrderInv holds in every reachable state.
LEMMA OrderCorrect == GateSpec => []OrderInv
<1>1. GateInit => OrderInv
  BY DEF GateInit, OrderInv, GenerationOrder, NoAdmittedLoss, CarrierAgrees, Absent
<1>2. GateTypeOK /\ OrderInv /\ [GateNext]_gateVars => OrderInv'
  BY GateNextIsStep, OrderStep, Zenon
<1> QED
  BY <1>1, <1>2, GateTypeCorrect, PTL DEF GateSpec

\* Before a fault no published generation is lost (publish, the worker's pop,
\* open_computer).
THEOREM PublishedNeverLost == GateSpec => []NoAdmittedLoss
BY OrderCorrect, PTL DEF OrderInv

\* Mutations reach the worker in the order of their generations.
THEOREM GenerationsOrdered == GateSpec => []GenerationOrder
BY OrderCorrect, PTL DEF OrderInv

\* A filesystem and the gate agree on the computer's last generation.
THEOREM CarriersAgree == GateSpec => []CarrierAgrees
BY OrderCorrect, PTL DEF OrderInv

\* What was durable stays durable, across faults, close and reopening.
THEOREM DurableMonotone == GateSpec => DurableNeverRegresses
<1>1. GateTypeOK /\ OrderInv /\ [GateNext]_gateVars =>
          [\A c \in Computers : durable'[c] >= durable[c]]_gateVars
  BY GateNextIsStep, OrderStep, Zenon
<1> QED
  BY <1>1, GateTypeCorrect, OrderCorrect, PTL DEF GateSpec, DurableNeverRegresses

--------------------------------------------------------------------------------
(* Control commands.  A command completes the call that waits for it and no    *)
(* other: every control command on its way has a caller of its own that waits. *)

ControlsAwaited ==
    /\ \A i \in DOMAIN queue : queue[i].kind = "Control" =>
          /\ caller[queue[i].by].pc = "waiting"
          /\ \A j \in DOMAIN queue :
                queue[j].kind = "Control" /\ queue[j].by = queue[i].by => j = i
    /\ (worker.pc \in {"busy", "completing"} /\ worker.cmd.kind = "Control") =>
          /\ caller[worker.cmd.by].pc = "waiting"
          /\ \A j \in DOMAIN queue : queue[j].kind = "Control" => queue[j].by # worker.cmd.by
    /\ worker.pc = "completing" => worker.cmd.kind = "Control"
    /\ worker.pc = "busy" => worker.cmd # Stop

\* A command that is no control command joins the queue, or nothing does.
LEMMA AppendOtherAwaited ==
    ASSUME ControlsAwaited, queue \in Seq(Commands), NEW cmd, cmd.kind # "Control",
           queue' = Append(queue, cmd), UNCHANGED <<caller, worker>>
    PROVE  ControlsAwaited'
<1>1. /\ DOMAIN queue' = DOMAIN queue \cup {Len(queue) + 1}
      /\ queue'[Len(queue) + 1] = cmd
      /\ \A i \in DOMAIN queue : queue'[i] = queue[i]
  OBVIOUS
<1> QED
  BY <1>1 DEF ControlsAwaited

\* A caller that waits for no command moves on.
LEMMA CallerMovesAwaited ==
    ASSUME GateTypeOK, ControlsAwaited, NEW k \in Callers, NEW x,
           caller[k].pc # "waiting", caller' = [caller EXCEPT ![k] = x],
           UNCHANGED <<queue, worker>>
    PROVE  ControlsAwaited'
<1>1. caller \in [Callers -> CallerStates] /\ queue \in Seq(Commands) /\ worker \in WorkerStates
  BY Zenon DEF GateTypeOK
<1>2. \A i \in DOMAIN queue : queue[i].kind = "Control" => queue[i].by \in Callers
  BY <1>1, CommandShape
<1>3. (worker.pc \in {"busy", "completing"} /\ worker.cmd.kind = "Control") =>
          worker.cmd.by \in Callers
  BY <1>1, WorkerShape, CommandShape, Zenon
<1>4. \A m \in Callers : caller[m].pc = "waiting" => caller'[m].pc = "waiting"
  BY <1>1, Zenon
<1> QED
  BY <1>2, <1>3, <1>4, Zenon DEF ControlsAwaited

\* A caller publishes its command and waits for it.
LEMMA PublishControlAwaited ==
    ASSUME GateTypeOK, ControlsAwaited, NEW k \in Callers, PublishControl(k)
    PROVE  ControlsAwaited'
<1> DEFINE cmd == Control(k, caller[k].cost, caller[k].body)
<1>1. caller \in [Callers -> CallerStates] /\ queue \in Seq(Commands) /\ worker \in WorkerStates
  BY Zenon DEF GateTypeOK
<1>2. cmd.kind = "Control" /\ cmd.by = k
  BY Zenon DEF Control
<1>3. /\ caller[k].pc = "reserved"
      /\ queue' = Append(queue, cmd)
      /\ caller' = [caller EXCEPT ![k] = [pc |-> "waiting"]]
      /\ worker' = worker
  BY Zenon DEF PublishControl, PublishCommand
<1> HIDE DEF cmd
<1>4. /\ DOMAIN queue' = DOMAIN queue \cup {Len(queue) + 1}
      /\ queue'[Len(queue) + 1] = cmd
      /\ \A i \in DOMAIN queue : queue'[i] = queue[i]
  BY <1>1, <1>3
<1>5. \A i \in DOMAIN queue : queue[i].kind = "Control" =>
          queue[i].by \in Callers /\ queue[i].by # k
  BY <1>1, <1>3, CommandShape DEF ControlsAwaited
<1>6. (worker.pc \in {"busy", "completing"} /\ worker.cmd.kind = "Control") =>
          worker.cmd.by \in Callers /\ worker.cmd.by # k
  BY <1>1, <1>3, WorkerShape, CommandShape, Zenon DEF ControlsAwaited
<1>7. \A m \in Callers : caller[m].pc = "waiting" \/ m = k => caller'[m].pc = "waiting"
  BY <1>1, <1>3, Zenon
<1> QED
  BY <1>2, <1>3, <1>4, <1>5, <1>6, <1>7 DEF ControlsAwaited

\* The worker takes a command; its caller waits on.
LEMMA TakeAwaited ==
    ASSUME GateTypeOK, ControlsAwaited, WorkerTake
    PROVE  ControlsAwaited'
<1>1. /\ queue \in Seq(Commands) /\ queue # <<>> /\ queue' = Tail(queue)
      /\ UNCHANGED caller
      /\ worker' = IF Head(queue) = Stop THEN [pc |-> "exited"]
                                         ELSE [pc |-> "busy", cmd |-> Head(queue)]
  BY Zenon DEF GateTypeOK, WorkerTake
<1>2. /\ Head(queue) = queue[1] /\ 1 \in DOMAIN queue
      /\ \A i \in DOMAIN queue' : /\ i + 1 \in DOMAIN queue /\ i + 1 # 1 /\ i \in Nat
                                  /\ queue'[i] = queue[i + 1]
  BY <1>1
<1>3. \A i, j \in DOMAIN queue' : i + 1 = j + 1 => i = j
  BY <1>2
<1> QED
  BY <1>1, <1>2, <1>3 DEF ControlsAwaited

\* The command in the worker's hands completes its call.
LEMMA CompletedAwaited ==
    ASSUME GateTypeOK, ControlsAwaited,
           worker.pc \in {"busy", "completing"}, worker.cmd.kind = "Control",
           \A k \in Callers \ {worker.cmd.by} : caller'[k] = caller[k],
           worker' = [pc |-> "running"], UNCHANGED queue
    PROVE  ControlsAwaited'
<1>1. caller \in [Callers -> CallerStates] /\ queue \in Seq(Commands) /\ worker \in WorkerStates
  BY Zenon DEF GateTypeOK
<1>2. \A i \in DOMAIN queue : queue[i].kind = "Control" =>
          queue[i].by \in Callers /\ queue[i].by # worker.cmd.by
  BY <1>1, CommandShape DEF ControlsAwaited
<1> QED
  BY <1>1, <1>2, Zenon DEF ControlsAwaited

\* Every step keeps the callers of control commands waiting.
LEMMA StepAwaited ==
    ASSUME GateTypeOK, ControlsAwaited, [GateStep]_gateVars
    PROVE  ControlsAwaited'
<1>1. ASSUME UNCHANGED <<queue, caller, worker>>
      PROVE  ControlsAwaited'
  BY <1>1, Zenon DEF ControlsAwaited
<1>2. queue \in Seq(Commands)
  BY Zenon DEF GateTypeOK
<1>3. ASSUME NEW c \in Computers, CarrierStarts(c) \/ CarrierSteps(c)
      PROVE  ControlsAwaited'
  <2>1. CASE Publish(c)
    <3>1. Mutation(c, carrier[c].gen + 1, carrier[c].cost, carrier[c].body).kind # "Control"
      BY Zenon DEF Mutation
    <3> QED
      BY <1>2, <2>1, <3>1, AppendOtherAwaited, Zenon DEF Publish, PublishCommand
  <2> QED
    BY <1>1, <1>3, <2>1, Zenon
       DEF CarrierStarts, CarrierSteps, OpenBegin, Detach, Prepare, DropReservation,
           OpenFlushAdmitted, OpenFlushWait, OpenRegister, OpenFault, queueVars
<1>4. ASSUME NEW k \in Callers, CallerSteps(k) \/ CallerRuns(k)
      PROVE  ControlsAwaited'
  <2>1. ASSUME NEW c, NEW g, NEW outcome, caller[k].pc # "waiting", FlushTurn(k, c, g, outcome)
        PROVE  ControlsAwaited'
    BY <2>1, CallerMovesAwaited, Zenon DEF FlushTurn, queueVars
  <2>2. ASSUME NEW cost \in Nat, NEW body \in ControlBodies, CallControl(k, cost, body)
        PROVE  ControlsAwaited'
    BY <2>2, CallerMovesAwaited, Zenon DEF CallControl
  <2> QED
    BY <1>4, <2>1, <2>2, PublishControlAwaited, Zenon DEF CallerSteps, CallerRuns, Flush, FlushWake
<1>5. CASE WorkerSteps
  <2>1. CASE WorkerFailed
    <3>1. /\ queue' = <<>>
          /\ worker.pc = "busy"
          /\ worker' = IF worker.cmd.kind = "Mutation"
                         THEN [pc |-> "running"]
                         ELSE [pc |-> "completing", cmd |-> worker.cmd]
          /\ caller' = [k \in Callers |->
                IF k \in QueuedCallers THEN Idle("StorageFaulted") ELSE caller[k]]
      BY <2>1, Zenon DEF WorkerFailed, FaultWorker
    <3>2. CASE worker.cmd.kind = "Mutation"
      BY <3>1, <3>2 DEF ControlsAwaited
    <3>3. CASE worker.cmd.kind # "Mutation"
      <4>1. worker.cmd.kind = "Control" /\ worker.cmd.by \in Callers
        BY <3>1, <3>3, WorkerShape, CommandShape, Zenon DEF GateTypeOK, ControlsAwaited
      <4> QED
        BY <3>1, <3>3, <4>1 DEF ControlsAwaited, QueuedCallers
    <3> QED
      BY <3>2, <3>3, Zenon
  <2>2. CASE WorkerPersisted
    <3>1. worker'.pc = "running" /\ UNCHANGED <<queue, caller>>
      BY <2>2, Zenon DEF WorkerPersisted, queueVars
    <3> QED
      BY <3>1, Zenon DEF ControlsAwaited
  <2>3. CASE WorkerCompleted
    <3>1. /\ worker.pc \in {"busy", "completing"} /\ worker.cmd.kind = "Control"
          /\ \A k \in Callers \ {worker.cmd.by} : caller'[k] = caller[k]
          /\ worker' = [pc |-> "running"] /\ UNCHANGED queue
      BY <2>3, Zenon DEF WorkerCompleted, queueVars, GateTypeOK
    <3> QED
      BY <3>1, CompletedAwaited, Zenon
  <2>4. CASE WorkerCompletedFailed
    <3>1. /\ worker.pc \in {"busy", "completing"} /\ worker.cmd.kind = "Control"
          /\ \A k \in Callers \ {worker.cmd.by} : caller'[k] = caller[k]
          /\ worker' = [pc |-> "running"] /\ UNCHANGED queue
      BY <2>4, Zenon DEF WorkerCompletedFailed, ControlsAwaited, queueVars, GateTypeOK
    <3> QED
      BY <3>1, CompletedAwaited, Zenon
  <2> QED
    BY <1>1, <1>5, <2>1, <2>2, <2>3, <2>4, TakeAwaited, Zenon DEF WorkerSteps, WorkerSleep, queueVars
<1>6. CASE CloseBegin \/ CloserRuns
  <2>1. CASE CloseStop
    <3>1. Stop.kind # "Control"
      BY Zenon DEF Stop
    <3> QED
      BY <1>1, <1>2, <2>1, <3>1, AppendOtherAwaited, Zenon DEF CloseStop, CloseUnchanged
  <2> QED
    BY <1>1, <1>6, <2>1, Zenon
       DEF CloseBegin, CloserRuns, CloseDrain, CloseStopWait, CloseJoin, CloseMark,
           CloseUnchanged, queueVars
<1>7. CASE UNCHANGED gateVars
  BY <1>1, <1>7, Zenon DEF gateVars, queueVars
<1> QED
  BY <1>3, <1>4, <1>5, <1>6, <1>7, Zenon DEF GateStep

--------------------------------------------------------------------------------
(* Reservations.  stop() waits for reserved_records to be zero, which says     *)
(* something about the threads only because the counter is their number.       *)

Holding(threads, states) == {t \in threads : states[t].pc = "reserved"}

\* The counter is the number of threads that hold a reservation.
ReservationsCounted ==
    reserved_records = Cardinality(Holding(Computers, carrier))
                          + Cardinality(Holding(Callers, caller))

LEMMA HoldingFinite ==
    ASSUME NEW T, IsFiniteSet(T), NEW f
    PROVE  IsFiniteSet(Holding(T, f)) /\ Cardinality(Holding(T, f)) \in Nat
<1>1. Holding(T, f) \subseteq T
  BY Zenon DEF Holding
<1> QED
  BY <1>1, FS_Subset, FS_CardinalityType, Zenon

\* One thread's state changes.
LEMMA HoldingChange ==
    ASSUME NEW T, IsFiniteSet(T), NEW f, NEW g, NEW t \in T,
           \A u \in T \ {t} : g[u] = f[u]
    PROVE  /\ (f[t].pc # "reserved" /\ g[t].pc = "reserved") =>
                 Cardinality(Holding(T, g)) = Cardinality(Holding(T, f)) + 1
           /\ (f[t].pc = "reserved" /\ g[t].pc # "reserved") =>
                 Cardinality(Holding(T, g)) = Cardinality(Holding(T, f)) - 1
           /\ (f[t].pc = "reserved" <=> g[t].pc = "reserved") =>
                 Cardinality(Holding(T, g)) = Cardinality(Holding(T, f))
<1>1. /\ IsFiniteSet(Holding(T, f))
      /\ Cardinality(Holding(T, f)) \in Nat
  BY HoldingFinite, Zenon
<1>2. ASSUME f[t].pc # "reserved", g[t].pc = "reserved"
      PROVE  Cardinality(Holding(T, g)) = Cardinality(Holding(T, f)) + 1
  <2>1. Holding(T, g) = Holding(T, f) \cup {t} /\ t \notin Holding(T, f)
    BY <1>2 DEF Holding
  <2> QED
    BY <1>1, <2>1, FS_AddElement, Zenon
<1>3. ASSUME f[t].pc = "reserved", g[t].pc # "reserved"
      PROVE  Cardinality(Holding(T, g)) = Cardinality(Holding(T, f)) - 1
  <2>1. Holding(T, g) = Holding(T, f) \ {t} /\ t \in Holding(T, f)
    BY <1>3, Zenon DEF Holding
  <2> QED
    BY <1>1, <2>1, FS_RemoveElement, Zenon
<1>4. ASSUME f[t].pc = "reserved" <=> g[t].pc = "reserved"
      PROVE  Holding(T, g) = Holding(T, f)
  BY <1>4, Zenon DEF Holding
<1> QED
  BY <1>2, <1>3, <1>4, Zenon

\* Every step counts its reservations.
LEMMA StepCounted ==
    ASSUME GateTypeOK, ControlsAwaited, ReservationsCounted, [GateStep]_gateVars
    PROVE  ReservationsCounted'
<1> USE ThreadsAssumption
<1> DEFINE carriers == Cardinality(Holding(Computers, carrier))
           callers == Cardinality(Holding(Callers, caller))
<1>0. /\ carrier \in [Computers -> CarrierStates]
      /\ caller \in [Callers -> CallerStates]
      /\ reserved_records = carriers + callers
      /\ carriers \in Nat /\ callers \in Nat
  BY HoldingFinite, Zenon DEF GateTypeOK, ReservationsCounted
<1>1. ASSUME UNCHANGED reserved_records,
             Holding(Computers, carrier') = Holding(Computers, carrier),
             Holding(Callers, caller') = Holding(Callers, caller)
      PROVE  ReservationsCounted'
  BY <1>1, Zenon DEF ReservationsCounted
<1>2. ASSUME NEW c \in Computers, NEW x, carrier' = [carrier EXCEPT ![c] = x],
             UNCHANGED caller,
             \/ /\ carrier[c].pc # "reserved" /\ x.pc = "reserved"
                /\ reserved_records' = reserved_records + 1
             \/ /\ carrier[c].pc = "reserved" /\ x.pc # "reserved"
                /\ reserved_records' = reserved_records - 1
             \/ /\ carrier[c].pc = "reserved" <=> x.pc = "reserved"
                /\ UNCHANGED reserved_records
      PROVE  ReservationsCounted'
  <2>1. /\ carrier[c].pc # "reserved" /\ x.pc = "reserved" =>
              Cardinality(Holding(Computers, carrier')) = carriers + 1
        /\ carrier[c].pc = "reserved" /\ x.pc # "reserved" =>
              Cardinality(Holding(Computers, carrier')) = carriers - 1
        /\ (carrier[c].pc = "reserved" <=> x.pc = "reserved") =>
              Cardinality(Holding(Computers, carrier')) = carriers
    <3>1. carrier'[c] = x /\ \A d \in Computers \ {c} : carrier'[d] = carrier[d]
      BY <1>0, <1>2, Zenon
    <3> QED
      BY <3>1, HoldingChange, Zenon
  <2>2. Cardinality(Holding(Callers, caller')) = callers
    BY <1>2, Zenon
  <2>3. reserved_records' = Cardinality(Holding(Computers, carrier')) + callers
    BY <1>0, <1>2, <2>1
  <2> QED
    BY <2>2, <2>3, Zenon DEF ReservationsCounted
<1>3. ASSUME NEW k \in Callers, NEW x, caller' = [caller EXCEPT ![k] = x],
             UNCHANGED carrier,
             \/ /\ caller[k].pc # "reserved" /\ x.pc = "reserved"
                /\ reserved_records' = reserved_records + 1
             \/ /\ caller[k].pc = "reserved" /\ x.pc # "reserved"
                /\ reserved_records' = reserved_records - 1
             \/ /\ caller[k].pc = "reserved" <=> x.pc = "reserved"
                /\ UNCHANGED reserved_records
      PROVE  ReservationsCounted'
  <2>1. /\ caller[k].pc # "reserved" /\ x.pc = "reserved" =>
              Cardinality(Holding(Callers, caller')) = callers + 1
        /\ caller[k].pc = "reserved" /\ x.pc # "reserved" =>
              Cardinality(Holding(Callers, caller')) = callers - 1
        /\ (caller[k].pc = "reserved" <=> x.pc = "reserved") =>
              Cardinality(Holding(Callers, caller')) = callers
    <3>1. caller'[k] = x /\ \A m \in Callers \ {k} : caller'[m] = caller[m]
      BY <1>0, <1>3, Zenon
    <3> QED
      BY <3>1, HoldingChange, SMTT(30)
  <2>2. Cardinality(Holding(Computers, carrier')) = carriers
    BY <1>3, Zenon
  <2>3. reserved_records' = carriers + Cardinality(Holding(Callers, caller'))
    BY <1>0, <1>3, <2>1
  <2> QED
    BY <2>2, <2>3, Zenon DEF ReservationsCounted
<1>4. ASSUME NEW c \in Computers, CarrierStarts(c)
      PROVE  ReservationsCounted'
  BY <1>2, <1>4, Zenon DEF CarrierStarts, OpenBegin, Detach, Prepare, Reserve, queueVars
<1>5. ASSUME NEW c \in Computers, CarrierSteps(c)
      PROVE  ReservationsCounted'
  <2>1. CASE Publish(c)
    BY <1>2, <2>1, Zenon DEF Publish, PublishCommand
  <2>2. CASE DropReservation(c)
    BY <1>2, <2>2, Zenon DEF DropReservation
  <2>3. CASE OpenFlushAdmitted(c)
    <3> DEFINE x == CASE health # "Active" -> [pc |-> "detached"]
                      [] health = "Active" /\ admitted[c] = Absent -> [pc |-> "recovering"]
                      [] OTHER -> [pc |-> "flushing", gen |-> admitted[c]]
    <3>1. x.pc # "reserved"
      BY Zenon
    <3>2. carrier' = [carrier EXCEPT ![c] = x] /\ carrier[c].pc = "opening"
      BY <2>3, Zenon DEF OpenFlushAdmitted
    <3> HIDE DEF x
    <3> QED
      BY <1>2, <2>3, <3>1, <3>2, Zenon DEF OpenFlushAdmitted, queueVars
  <2>4. CASE OpenFlushWait(c)
    <3> DEFINE outcome == FlushOutcome(c, carrier[c].gen)
               x == CASE outcome = "wait" -> carrier[c]
                      [] outcome = "Ok" -> [pc |-> "recovering"]
                      [] OTHER -> [pc |-> "detached"]
    <3>1. carrier' = [carrier EXCEPT ![c] = x] /\ carrier[c].pc = "flushing"
      BY <2>4, Zenon DEF OpenFlushWait
    <3> HIDE DEF outcome
    <3>2. x.pc # "reserved"
      BY <3>1, Zenon
    <3> HIDE DEF x
    <3> QED
      BY <1>2, <2>4, <3>1, <3>2, Zenon DEF OpenFlushWait, queueVars
  <2>5. ASSUME NEW g \in Nat, OpenRegister(c, g)
        PROVE  ReservationsCounted'
    BY <1>2, <2>5, Zenon DEF OpenRegister, queueVars
  <2>6. CASE OpenFault(c)
    BY <1>2, <2>6, Zenon DEF OpenFault, queueVars
  <2> QED
    BY <1>5, <2>1, <2>2, <2>3, <2>4, <2>5, <2>6, Zenon DEF CarrierSteps
<1>6. ASSUME NEW k \in Callers, NEW c, NEW g, NEW outcome, caller[k].pc # "reserved",
             FlushTurn(k, c, g, outcome)
      PROVE  ReservationsCounted'
  <2> DEFINE x == IF outcome = "wait" THEN [pc |-> "flushing", id |-> c, gen |-> g]
                                      ELSE Idle(outcome)
  <2>1. x.pc # "reserved"
    BY Zenon DEF Idle
  <2>2. caller' = [caller EXCEPT ![k] = x] /\ UNCHANGED <<carrier, reserved_records>>
    BY <1>6, Zenon DEF FlushTurn, queueVars
  <2> HIDE DEF x
  <2> QED
    BY <1>3, <1>6, <2>1, <2>2, Zenon
<1>7. ASSUME NEW k \in Callers, CallerSteps(k)
      PROVE  ReservationsCounted'
  <2>1. ASSUME NEW cost \in Nat, NEW body \in ControlBodies, CallControl(k, cost, body)
        PROVE  ReservationsCounted'
    BY <1>3, <2>1, Zenon DEF CallControl, Reserve
  <2> QED
    BY <1>6, <1>7, <2>1, Zenon DEF CallerSteps, Flush
<1>8. ASSUME NEW k \in Callers, CallerRuns(k)
      PROVE  ReservationsCounted'
  <2>1. CASE PublishControl(k)
    BY <1>3, <2>1, Zenon DEF PublishControl, PublishCommand
  <2> QED
    BY <1>6, <1>8, <2>1, Zenon DEF CallerRuns, FlushWake
<1>9. CASE WorkerSteps
  <2>1. ASSUME NEW k \in Callers, NEW result, caller[k].pc = "waiting",
               caller' = [caller EXCEPT ![k] = Idle(result)],
               UNCHANGED <<carrier, queueVars>>
        PROVE  ReservationsCounted'
    BY <1>3, <2>1, Zenon DEF Idle, queueVars
  <2>2. (worker.pc \in {"busy", "completing"} /\ worker.cmd.kind = "Control") =>
            worker.cmd.by \in Callers /\ caller[worker.cmd.by].pc = "waiting"
    BY WorkerShape, CommandShape, Zenon DEF ControlsAwaited, GateTypeOK
  <2>3. CASE WorkerCompleted
    BY <2>1, <2>2, <2>3, Zenon DEF WorkerCompleted
  <2>4. CASE WorkerCompletedFailed
    BY <2>1, <2>2, <2>4, Zenon DEF WorkerCompletedFailed, ControlsAwaited
  <2>5. CASE WorkerFailed
    <3>1. \A k \in QueuedCallers : caller[k].pc = "waiting"
      BY Zenon DEF QueuedCallers, ControlsAwaited
    <3>2. /\ caller' = [k \in Callers |->
                IF k \in QueuedCallers THEN Idle("StorageFaulted") ELSE caller[k]]
          /\ UNCHANGED <<carrier, reserved_records>>
      BY <2>5, Zenon DEF WorkerFailed, FaultWorker
    <3>3. \A k \in Callers : caller'[k].pc = "reserved" <=> caller[k].pc = "reserved"
      BY <1>0, <3>1, <3>2, Zenon DEF Idle
    <3>4. Holding(Callers, caller') = Holding(Callers, caller)
      BY <3>3, Zenon DEF Holding
    <3> QED
      BY <1>1, <3>2, <3>4, Zenon
  <2> QED
    BY <1>1, <1>9, <2>3, <2>4, <2>5, Zenon
       DEF WorkerSteps, WorkerSleep, WorkerTake, WorkerPersisted, queueVars
<1>10. CASE CloseBegin \/ CloserRuns
  BY <1>1, <1>10, Zenon
     DEF CloseBegin, CloserRuns, CloseDrain, CloseStopWait, CloseStop, CloseJoin, CloseMark,
         CloseUnchanged, queueVars
<1>11. CASE UNCHANGED gateVars
  BY <1>1, <1>11, Zenon DEF gateVars, queueVars
<1> QED
  BY <1>4, <1>5, <1>7, <1>8, <1>9, <1>10, <1>11, Zenon DEF GateStep

--------------------------------------------------------------------------------
(* Closing.  Stop is the last command: it joins the queue when no thread holds *)
(* a reservation, and none is given out any more.                              *)

ClosingInv ==
    health # "Faulted" =>
        /\ health = "Closed" => closer = "closed"
        /\ closer = "stopping" => health # "Active"
        /\ stop_enqueued <=> closer \in {"joining", "marking", "closed"}
        /\ stop_enqueued =>
              /\ health # "Active"
              /\ Holding(Computers, carrier) = {}
              /\ Holding(Callers, caller) = {}
        /\ closer \in {"marking", "closed"} => worker.pc = "exited"
        /\ worker.pc = "exited" => stop_enqueued /\ queue = <<>>
        /\ \A i \in DOMAIN queue : queue[i] = Stop => stop_enqueued /\ i = Len(queue)

\* close() of a store that did not fault returns with everything persisted.
GateDrained == health = "Closed" => \A c \in Computers : durable[c] = admitted[c]

\* The commands and the closer stay as they are, and no reservation is made
\* once the store drains.
LEMMA QuietClosing ==
    ASSUME ClosingInv, UNCHANGED <<queue, stop_enqueued, closer>>,
           health' = health \/ health' = "Faulted",
           worker'.pc = "exited" <=> worker.pc = "exited",
           \A c \in Computers : carrier'[c].pc = "reserved" =>
               carrier[c].pc = "reserved" \/ health = "Active",
           \A k \in Callers : caller'[k].pc = "reserved" =>
               caller[k].pc = "reserved" \/ health = "Active"
    PROVE  ClosingInv'
BY Zenon DEF ClosingInv, Holding

\* A command other than Stop joins the queue.
LEMMA PublishClosing ==
    ASSUME ClosingInv, queue \in Seq(Commands), NEW cmd, cmd # Stop, ~stop_enqueued,
           queue' = Append(queue, cmd), UNCHANGED <<health, stop_enqueued, closer, worker>>
    PROVE  ClosingInv'
<1>1. /\ DOMAIN queue' = DOMAIN queue \cup {Len(queue) + 1}
      /\ queue'[Len(queue) + 1] = cmd
      /\ \A i \in DOMAIN queue : queue'[i] = queue[i]
  OBVIOUS
<1> QED
  BY <1>1, Zenon DEF ClosingInv

\* A thread that holds a reservation proves that Stop is not queued.
LEMMA HoldingOpen ==
    ASSUME ClosingInv, health # "Faulted",
           \/ \E c \in Computers : carrier[c].pc = "reserved"
           \/ \E k \in Callers : caller[k].pc = "reserved"
    PROVE  ~stop_enqueued
BY Zenon DEF ClosingInv, Holding

LEMMA CarrierClosing ==
    ASSUME GateTypeOK, ClosingInv, NEW c \in Computers, CarrierStarts(c) \/ CarrierSteps(c)
    PROVE  ClosingInv'
<1>1. carrier \in [Computers -> CarrierStates] /\ queue \in Seq(Commands)
  BY Zenon DEF GateTypeOK
<1>2. ASSUME NEW x, x.pc = "reserved" => carrier[c].pc = "reserved" \/ health = "Active",
             carrier' = [carrier EXCEPT ![c] = x],
             UNCHANGED <<queue, stop_enqueued, closer, worker, caller>>,
             health' = health \/ health' = "Faulted"
      PROVE  ClosingInv'
  <2>1. \A d \in Computers : carrier'[d].pc = "reserved" =>
            carrier[d].pc = "reserved" \/ health = "Active"
    BY <1>1, <1>2, Zenon
  <2> QED
    BY <1>2, <2>1, QuietClosing, Zenon
<1>3. CASE CarrierStarts(c)
  BY <1>2, <1>3, Zenon DEF CarrierStarts, OpenBegin, Detach, Prepare, Reserve, CanReserve, queueVars
<1>4. CASE Publish(c)
  <2>1. Mutation(c, carrier[c].gen + 1, carrier[c].cost, carrier[c].body) # Stop
    BY Zenon DEF Mutation, Stop
  <2>2. health # "Faulted" => ~stop_enqueued
    BY <1>4, HoldingOpen, Zenon DEF Publish
  <2>3. CASE health = "Faulted"
    BY <1>4, <2>3, Zenon DEF Publish, ClosingInv
  <2> QED
    BY <1>1, <1>4, <2>1, <2>2, <2>3, PublishClosing, Zenon DEF Publish, PublishCommand
<1>5. CASE DropReservation(c)
  BY <1>2, <1>5, Zenon DEF DropReservation, queueVars
<1>6. CASE OpenFlushAdmitted(c)
  <2> DEFINE x == CASE health # "Active" -> [pc |-> "detached"]
                    [] health = "Active" /\ admitted[c] = Absent -> [pc |-> "recovering"]
                    [] OTHER -> [pc |-> "flushing", gen |-> admitted[c]]
  <2>1. x.pc # "reserved"
    BY Zenon
  <2>2. carrier' = [carrier EXCEPT ![c] = x]
    BY <1>6, Zenon DEF OpenFlushAdmitted
  <2> HIDE DEF x
  <2> QED
    BY <1>2, <1>6, <2>1, <2>2, Zenon DEF OpenFlushAdmitted, queueVars
<1>7. CASE OpenFlushWait(c)
  <2> DEFINE outcome == FlushOutcome(c, carrier[c].gen)
             x == CASE outcome = "wait" -> carrier[c]
                    [] outcome = "Ok" -> [pc |-> "recovering"]
                    [] OTHER -> [pc |-> "detached"]
  <2>1. carrier' = [carrier EXCEPT ![c] = x] /\ carrier[c].pc = "flushing"
    BY <1>7, Zenon DEF OpenFlushWait
  <2> HIDE DEF outcome
  <2>2. x.pc # "reserved"
    BY <2>1, Zenon
  <2> HIDE DEF x
  <2> QED
    BY <1>2, <1>7, <2>1, <2>2, Zenon DEF OpenFlushWait, queueVars
<1>8. ASSUME NEW g \in Nat, OpenRegister(c, g)
      PROVE  ClosingInv'
  BY <1>2, <1>8, Zenon DEF OpenRegister, queueVars
<1>9. CASE OpenFault(c)
  BY <1>2, <1>9, Zenon DEF OpenFault, queueVars
<1> QED
  BY <1>3, <1>4, <1>5, <1>6, <1>7, <1>8, <1>9, Zenon DEF CarrierSteps

LEMMA CallerClosing ==
    ASSUME GateTypeOK, ClosingInv, NEW k \in Callers, CallerSteps(k) \/ CallerRuns(k)
    PROVE  ClosingInv'
<1>1. caller \in [Callers -> CallerStates] /\ queue \in Seq(Commands)
  BY Zenon DEF GateTypeOK
<1>2. ASSUME NEW x, x.pc = "reserved" => caller[k].pc = "reserved" \/ health = "Active",
             caller' = [caller EXCEPT ![k] = x],
             UNCHANGED <<queue, stop_enqueued, closer, worker, carrier, health>>
      PROVE  ClosingInv'
  <2>1. \A m \in Callers : caller'[m].pc = "reserved" =>
            caller[m].pc = "reserved" \/ health = "Active"
    BY <1>1, <1>2, Zenon
  <2> QED
    BY <1>2, <2>1, QuietClosing, Zenon
<1>3. ASSUME NEW c, NEW g, NEW outcome, FlushTurn(k, c, g, outcome)
      PROVE  ClosingInv'
  <2> DEFINE x == IF outcome = "wait" THEN [pc |-> "flushing", id |-> c, gen |-> g]
                                      ELSE Idle(outcome)
  <2>1. x.pc # "reserved"
    BY Zenon DEF Idle
  <2>2. caller' = [caller EXCEPT ![k] = x]
    BY <1>3, Zenon DEF FlushTurn
  <2> HIDE DEF x
  <2> QED
    BY <1>2, <1>3, <2>1, <2>2, Zenon DEF FlushTurn, queueVars
<1>4. ASSUME NEW cost \in Nat, NEW body \in ControlBodies, CallControl(k, cost, body)
      PROVE  ClosingInv'
  BY <1>2, <1>4, Zenon DEF CallControl, Reserve, CanReserve
<1>5. CASE PublishControl(k)
  <2>1. Control(k, caller[k].cost, caller[k].body) # Stop
    BY Zenon DEF Control, Stop
  <2>2. health # "Faulted" => ~stop_enqueued
    BY <1>5, HoldingOpen, Zenon DEF PublishControl
  <2>3. CASE health = "Faulted"
    BY <1>5, <2>3, Zenon DEF PublishControl, ClosingInv
  <2> QED
    BY <1>1, <1>5, <2>1, <2>2, <2>3, PublishClosing, Zenon DEF PublishControl, PublishCommand
<1> QED
  BY <1>3, <1>4, <1>5, Zenon DEF CallerSteps, CallerRuns, Flush, FlushWake

LEMMA WorkerClosing ==
    ASSUME GateTypeOK, ControlsAwaited, ClosingInv, WorkerSteps
    PROVE  ClosingInv'
<1>1. queue \in Seq(Commands) /\ caller \in [Callers -> CallerStates]
  BY Zenon DEF GateTypeOK
<1>2. ASSUME worker.pc # "exited", worker'.pc # "exited",
             UNCHANGED <<queue, stop_enqueued, closer, carrier, health>>,
             \A k \in Callers : caller'[k].pc = "reserved" => caller[k].pc = "reserved"
      PROVE  ClosingInv'
  BY <1>2, QuietClosing, Zenon
<1>3. CASE WorkerTake
  <2>1. /\ queue # <<>> /\ queue' = Tail(queue)
        /\ worker' = IF Head(queue) = Stop THEN [pc |-> "exited"]
                                           ELSE [pc |-> "busy", cmd |-> Head(queue)]
        /\ worker.pc = "running"
        /\ UNCHANGED <<health, stop_enqueued, closer, carrier, caller>>
    BY <1>3, Zenon DEF WorkerTake
  <2>2. /\ Head(queue) = queue[1] /\ 1 \in DOMAIN queue
        /\ \A i \in DOMAIN queue' : /\ i + 1 \in DOMAIN queue /\ i \in Nat
                                    /\ queue'[i] = queue[i + 1]
        /\ Len(queue') = Len(queue) - 1 /\ Len(queue) \in Nat
        /\ Len(queue) = 1 => queue' = <<>>
    BY <1>1, <2>1
  <2>3. CASE health = "Faulted"
    BY <2>1, <2>3, Zenon DEF ClosingInv
  <2>4. CASE health # "Faulted"
    <3>1. worker'.pc = "exited" => stop_enqueued /\ queue' = <<>>
      BY <2>1, <2>2, <2>4, Zenon DEF ClosingInv
    <3>2. \A i \in DOMAIN queue' : queue'[i] = Stop => stop_enqueued /\ i = Len(queue')
      BY <2>1, <2>2, <2>4 DEF ClosingInv
    <3>3. closer \notin {"marking", "closed"}
      BY <2>1, <2>4, Zenon DEF ClosingInv
    <3> QED
      BY <2>1, <2>4, <3>1, <3>2, <3>3, Zenon DEF ClosingInv
  <2> QED
    BY <2>3, <2>4, Zenon
<1>4. CASE WorkerFailed
  BY <1>4, Zenon DEF WorkerFailed, FaultWorker, ClosingInv
<1>5. CASE WorkerSleep
  BY <1>2, <1>5, Zenon DEF WorkerSleep, queueVars
<1>6. CASE WorkerPersisted
  BY <1>2, <1>6, Zenon DEF WorkerPersisted, queueVars
<1>7. CASE WorkerCompleted
  BY <1>1, <1>2, <1>7, Zenon DEF WorkerCompleted, queueVars, Idle
<1>8. CASE WorkerCompletedFailed
  BY <1>1, <1>2, <1>8, Zenon DEF WorkerCompletedFailed, queueVars, Idle
<1> QED
  BY <1>3, <1>4, <1>5, <1>6, <1>7, <1>8, Zenon DEF WorkerSteps

LEMMA CloserClosing ==
    ASSUME GateTypeOK, ReservationsCounted, ClosingInv, CloseBegin \/ CloserRuns
    PROVE  ClosingInv'
<1>1. /\ queue \in Seq(Commands)
      /\ health \in {"Active", "Draining", "Faulted", "Closed"}
      /\ stop_enqueued \in BOOLEAN
  BY Zenon DEF GateTypeOK
<1>2. CASE health = "Faulted"
  <2>1. health' = "Faulted"
    BY <1>2, Zenon DEF CloseBegin, CloserRuns, CloseDrain, CloseStopWait, CloseStop, CloseJoin, CloseMark
  <2> QED
    BY <2>1, Zenon DEF ClosingInv
<1>3. CASE health # "Faulted" /\ CloseStop
  <2>1. /\ health = "Draining"
        /\ ~stop_enqueued
    BY <1>1, <1>3, Zenon DEF CloseStop, ClosingInv
  <2>2. reserved_records = 0
    BY <1>3, <2>1, Zenon DEF CloseStop, StopMustWait
  <2>3. Holding(Computers, carrier) = {} /\ Holding(Callers, caller) = {}
    <3>1. /\ IsFiniteSet(Holding(Computers, carrier)) /\ IsFiniteSet(Holding(Callers, caller))
          /\ Cardinality(Holding(Computers, carrier)) \in Nat
          /\ Cardinality(Holding(Callers, caller)) \in Nat
      BY HoldingFinite, ThreadsAssumption, Zenon
    <3>2. /\ Cardinality(Holding(Computers, carrier)) = 0
          /\ Cardinality(Holding(Callers, caller)) = 0
      BY <2>2, <3>1 DEF ReservationsCounted
    <3> QED
      BY <3>1, <3>2, FS_EmptySet, Zenon
  <2>4. /\ queue' = Append(queue, Stop) /\ stop_enqueued' = TRUE /\ closer' = "joining"
        /\ UNCHANGED <<health, carrier, caller, worker>>
    BY <1>3, <2>1, Zenon DEF CloseStop, CloseUnchanged
  <2>5. /\ DOMAIN queue' = DOMAIN queue \cup {Len(queue) + 1}
        /\ Len(queue') = Len(queue) + 1
        /\ \A i \in DOMAIN queue : queue'[i] = queue[i]
    BY <1>1, <2>4
  <2>6. worker.pc # "exited" /\ \A i \in DOMAIN queue : queue[i] # Stop
    BY <1>3, <2>1, Zenon DEF ClosingInv
  <2> QED
    BY <2>1, <2>3, <2>4, <2>5, <2>6, Zenon DEF ClosingInv
<1>4. CASE health # "Faulted" /\ ~CloseStop
  <2>1. UNCHANGED <<queue, stop_enqueued, carrier, caller, worker>>
    BY <1>4, Zenon DEF CloseBegin, CloserRuns, CloseDrain, CloseStopWait, CloseJoin, CloseMark,
                CloseUnchanged, queueVars
  <2>2. CASE CloseBegin
    BY <1>4, <2>1, <2>2 DEF CloseBegin, ClosingInv
  <2>3. CASE CloseDrain
    BY <1>1, <1>4, <2>1, <2>3 DEF CloseDrain, ClosingInv
  <2>4. CASE CloseStopWait
    BY <1>4, <2>1, <2>4 DEF CloseStopWait, ClosingInv
  <2>5. CASE CloseJoin
    BY <1>4, <2>1, <2>5 DEF CloseJoin, ClosingInv
  <2>6. CASE CloseMark
    BY <1>4, <2>1, <2>6 DEF CloseMark, ClosingInv
  <2> QED
    BY <1>4, <2>2, <2>3, <2>4, <2>5, <2>6, Zenon DEF CloserRuns
<1> QED
  BY <1>2, <1>3, <1>4, Zenon

--------------------------------------------------------------------------------
(* The gate's invariant, and what it says about close() *)

GateInv ==
    /\ GateTypeOK
    /\ QueueBounded
    /\ OrderInv
    /\ ControlsAwaited
    /\ ReservationsCounted
    /\ ClosingInv

LEMMA InitGate == GateInit => GateInv
<1> SUFFICES ASSUME GateInit
             PROVE  GateInv
  BY Zenon
<1>1. GateTypeOK
  BY InitTypes, Zenon
<1>2. QueueBounded
  BY LimitsAssumption DEF GateInit, QueueBounded
<1>3. OrderInv
  BY DEF GateInit, OrderInv, GenerationOrder, NoAdmittedLoss, CarrierAgrees, Absent
<1>4. ControlsAwaited
  BY DEF GateInit, ControlsAwaited
<1>5. Holding(Computers, carrier) = {} /\ Holding(Callers, caller) = {}
  BY Zenon DEF GateInit, Holding, Idle
<1>6. ReservationsCounted
  <2>1. Cardinality({}) = 0
    BY FS_EmptySet, Zenon
  <2>2. reserved_records = 0
    BY Zenon DEF GateInit
  <2> QED
    BY <1>5, <2>1, <2>2 DEF ReservationsCounted
<1>7. ClosingInv
  BY DEF GateInit, ClosingInv
<1> QED
  BY <1>1, <1>2, <1>3, <1>4, <1>6, <1>7, Zenon DEF GateInv

\* Every step of a user of the gate keeps the invariant and the durable
\* generations.
LEMMA StepGate ==
    ASSUME GateInv, [GateStep]_gateVars
    PROVE  GateInv' /\ \A c \in Computers : durable'[c] >= durable[c]
<1> USE DEF GateInv
<1>1. GateTypeOK' /\ QueueBounded' /\ ControlsAwaited' /\ ReservationsCounted'
  <2>1. GateTypeOK'
    BY StepTypes, Zenon
  <2>2. QueueBounded'
    BY StepBounded, Zenon
  <2>3. ControlsAwaited'
    BY StepAwaited, Zenon
  <2>4. ReservationsCounted'
    BY StepCounted, Zenon
  <2> QED
    BY <2>1, <2>2, <2>3, <2>4, Zenon
<1>2. OrderInv' /\ \A c \in Computers : durable'[c] >= durable[c]
  BY OrderStep, Zenon
<1>3. ClosingInv'
  <2>1. CASE UNCHANGED gateVars
    BY <2>1, Zenon DEF gateVars, queueVars, ClosingInv
  <2>2. ASSUME NEW c \in Computers, CarrierStarts(c) \/ CarrierSteps(c)
        PROVE  ClosingInv'
    BY <2>2, CarrierClosing, Zenon
  <2>3. ASSUME NEW k \in Callers, CallerSteps(k) \/ CallerRuns(k)
        PROVE  ClosingInv'
    BY <2>3, CallerClosing, Zenon
  <2>4. CASE WorkerSteps
    BY <2>4, WorkerClosing, Zenon
  <2>5. CASE CloseBegin \/ CloserRuns
    BY <2>5, CloserClosing, Zenon
  <2> QED
    BY <2>1, <2>2, <2>3, <2>4, <2>5, Zenon DEF GateStep
<1> QED
  BY <1>1, <1>2, <1>3, Zenon

LEMMA InvDrained == GateInv => GateDrained
<1> SUFFICES ASSUME GateInv, health = "Closed", NEW c \in Computers
             PROVE  durable[c] = admitted[c]
  BY Zenon DEF GateDrained
<1>1. queue = <<>> /\ worker.pc = "exited"
  BY Zenon DEF GateInv, ClosingInv
<1>2. \A g : ~Pending(c, g)
  BY <1>1 DEF Pending
<1>3. /\ durable[c] \in Nat \cup {Absent} /\ admitted[c] \in Nat \cup {Absent}
      /\ durable[c] <= admitted[c]
  BY Zenon DEF GateInv, GateTypeOK, OrderInv, GenerationOrder
<1>4. admitted[c] \notin durable[c] + 1 .. admitted[c]
  BY <1>2, Zenon DEF GateInv, OrderInv, NoAdmittedLoss
<1> QED
  BY <1>3, <1>4 DEF Absent

\* The whole invariant holds in every reachable state.
LEMMA GateCorrect == GateSpec => []GateInv
<1>1. GateInv /\ [GateNext]_gateVars => GateInv'
  BY GateNextIsStep, StepGate, Zenon DEF GateInv
<1> QED
  BY <1>1, InitGate, PTL DEF GateSpec

\* close() leaves no published generation behind (drain, stop and the worker's
\* exit), unless the store faults.
THEOREM CloseLeavesNothing == GateSpec => []GateDrained
BY GateCorrect, InvDrained, PTL

================================================================================
