---------------------------- MODULE PersistenceGate ----------------------------
(***************************************************************************)
(* The persistence queue between the computers and the disk                *)
(* (filesystem/worker.rs, and the parts of filesystem/store.rs that take   *)
(* its lock).  A computer's filesystem reserves queue space before it      *)
(* changes anything, mutates its tree, then publishes the reservation; one *)
(* worker thread takes commands in order and makes them durable; callers   *)
(* flush, or queue a control command (tombstone, collection) and wait for  *)
(* its completion; close() drains the queue and joins the worker.          *)
(*                                                                         *)
(* Every action is one critical section of the gate's mutex.  `sleeping'   *)
(* is the set of threads blocked on the condition variable `changed':      *)
(* notify_all empties it, and a sleeping thread re-evaluates nothing.      *)
(* What a command does on disk is left to WorldStore; here persisting it   *)
(* succeeds or, when DiskMayFail, may fail.                                *)
(***************************************************************************)
EXTENDS Integers, Sequences, FiniteSets

CONSTANTS
    Computers,      \* computer identities; each has at most one carrier
    Callers,        \* threads calling flush, tombstone and collect
    Bodies,         \* what a mutation carries: opaque to the gate
    ControlBodies,  \* what a control command carries
    MutationBytes,  \* possible byte costs of a mutation
    ControlBytes,   \* possible byte costs of a control command
    MaxRecords,     \* limits.maximum_persistence_queue_records
    MaxBytes,       \* limits.maximum_persistence_queue_bytes
    MaxGeneration,  \* bound on the generations a run explores
    DiskMayFail     \* may a disk operation return an error

ASSUME LimitsAssumption ==
    /\ MaxRecords \in Nat
    /\ MaxBytes \in Nat
    /\ MaxGeneration \in Nat
    /\ DiskMayFail \in BOOLEAN

ASSUME CostsAssumption ==
    /\ MutationBytes \subseteq Nat
    /\ ControlBytes \subseteq Nat

ASSUME ThreadsAssumption ==
    /\ IsFiniteSet(Computers)
    /\ IsFiniteSet(Callers)

VARIABLES
    health,            \* StoreHealth, as the gate sees it
    queue,             \* commands waiting for the worker
    queued_bytes,
    reserved_records,
    reserved_bytes,
    admitted,          \* last generation published, per computer
    durable,           \* last generation persisted, per computer
    stop_enqueued,
    sleeping,          \* threads waiting on the condition variable
    carrier,           \* the thread driving each computer's filesystem
    caller,            \* flush and control calls
    worker,            \* the persistence thread
    closer             \* WorldFileSystemStore::close

queueVars == <<queue, queued_bytes, reserved_records, reserved_bytes>>
gateVars == <<health, queueVars, admitted, durable, stop_enqueued, sleeping,
              carrier, caller, worker, closer>>

--------------------------------------------------------------------------------
(* Data *)

\* A computer missing from the `admitted' and `durable' maps.
Absent == -1

Worker == "worker"
Closer == "closer"

Mutation(c, g, n, b) ==
    [kind |-> "Mutation", id |-> c, gen |-> g, cost |-> n, body |-> b]
Control(k, n, b) == [kind |-> "Control", by |-> k, cost |-> n, body |-> b]
Stop == [kind |-> "Stop", cost |-> 0]

Idle(result) == [pc |-> "idle", result |-> result]

\* admitted.get(&id).copied().unwrap_or(0), and the same for durable.
Get(map, c) == IF map[c] = Absent THEN 0 ELSE map[c]

Commands ==
    [kind : {"Mutation"}, id : Computers, gen : Nat, cost : Nat, body : Bodies]
        \cup [kind : {"Control"}, by : Callers, cost : Nat, body : ControlBodies]
        \cup {Stop}

Results == {"none", "Ok", "InvalidGeneration", "StorageFaulted", "Closed"}

CarrierStates ==
    [pc : {"detached", "opening", "recovering"}]
        \cup [pc : {"flushing", "attached"}, gen : Nat]
        \cup [pc : {"reserved"}, gen : Nat, cost : Nat, body : Bodies]

CallerStates ==
    [pc : {"idle"}, result : Results]
        \cup [pc : {"flushing"}, id : Computers, gen : Nat]
        \cup [pc : {"reserved"}, cost : Nat, body : ControlBodies]
        \cup [pc : {"waiting"}]

WorkerStates ==
    [pc : {"running", "exited"}]
        \cup [pc : {"busy", "completing"}, cmd : Commands]

GateInit ==
    /\ health = "Active"
    /\ queue = <<>>
    /\ queued_bytes = 0
    /\ reserved_records = 0
    /\ reserved_bytes = 0
    /\ admitted = [c \in Computers |-> Absent]
    /\ durable = [c \in Computers |-> Absent]
    /\ stop_enqueued = FALSE
    /\ sleeping = {}
    /\ carrier = [c \in Computers |-> [pc |-> "detached"]]
    /\ caller = [k \in Callers |-> Idle("none")]
    /\ worker = [pc |-> "running"]
    /\ closer = "idle"

\* self.shared.changed.notify_all()
NotifyAll == sleeping' = {}

--------------------------------------------------------------------------------
(* Reservations *)

\* PersistenceGate::reserve: refused with Closed, StorageFaulted or Busy unless
CanReserve(cost) ==
    /\ health = "Active"
    /\ Len(queue) + reserved_records < MaxRecords
    /\ queued_bytes + reserved_bytes + cost <= MaxBytes

Reserve(cost) ==
    /\ CanReserve(cost)
    /\ reserved_records' = reserved_records + 1
    /\ reserved_bytes' = reserved_bytes + cost

\* Mutant of PublishCommand: nobody is woken.
PublishSilently(command) ==
    /\ reserved_records' = reserved_records - 1
    /\ reserved_bytes' = reserved_bytes - command.cost
    /\ queued_bytes' = queued_bytes + command.cost
    /\ queue' = Append(queue, command)
    /\ UNCHANGED sleeping

\* QueueReservation::publish.  The store's health is not looked at again.
PublishCommand(command) ==
    /\ reserved_records' = reserved_records - 1
    /\ reserved_bytes' = reserved_bytes - command.cost
    /\ queued_bytes' = queued_bytes + command.cost
    /\ queue' = Append(queue, command)
    /\ NotifyAll

\* A mutation of an attached filesystem: quota checked, generation chosen,
\* then ComputerPersistence::prepare reserves the queue space.
Prepare(c, cost, body) ==
    /\ carrier[c].pc = "attached"
    /\ carrier[c].gen < MaxGeneration
    /\ Reserve(cost)
    /\ carrier' = [carrier EXCEPT ![c] =
          [pc |-> "reserved", gen |-> carrier[c].gen, cost |-> cost, body |-> body]]
    /\ UNCHANGED <<health, queue, queued_bytes, admitted, durable, stop_enqueued,
                   sleeping, caller, worker, closer>>

\* The tree is mutated, the generation adopted and the reservation published.
Publish(c) ==
    LET gen == carrier[c].gen + 1 IN
    /\ carrier[c].pc = "reserved"
    /\ PublishCommand(Mutation(c, gen, carrier[c].cost, carrier[c].body))
    /\ admitted' = [admitted EXCEPT ![c] = gen]
    /\ carrier' = [carrier EXCEPT ![c] = [pc |-> "attached", gen |-> gen]]
    /\ UNCHANGED <<health, durable, stop_enqueued, caller, worker, closer>>

\* Mutant of DropReservation: nobody is woken.
DropSilently(c) ==
    /\ carrier[c].pc = "reserved"
    /\ reserved_records' = reserved_records - 1
    /\ reserved_bytes' = reserved_bytes - carrier[c].cost
    /\ carrier' = [carrier EXCEPT ![c] = [pc |-> "attached", gen |-> carrier[c].gen]]
    /\ UNCHANGED <<health, queue, queued_bytes, admitted, durable, stop_enqueued,
                   sleeping, caller, worker, closer>>

\* An error between prepare and publish drops the reservation.
DropReservation(c) ==
    /\ carrier[c].pc = "reserved"
    /\ reserved_records' = reserved_records - 1
    /\ reserved_bytes' = reserved_bytes - carrier[c].cost
    /\ carrier' = [carrier EXCEPT ![c] = [pc |-> "attached", gen |-> carrier[c].gen]]
    /\ NotifyAll
    /\ UNCHANGED <<health, queue, queued_bytes, admitted, durable, stop_enqueued,
                   caller, worker, closer>>

--------------------------------------------------------------------------------
(* Control commands: tombstone() and collect() *)

CallControl(k, cost, body) ==
    /\ caller[k].pc = "idle"
    /\ Reserve(cost)
    /\ caller' = [caller EXCEPT ![k] = [pc |-> "reserved", cost |-> cost, body |-> body]]
    /\ UNCHANGED <<health, queue, queued_bytes, admitted, durable, stop_enqueued,
                   sleeping, carrier, worker, closer>>

PublishControl(k) ==
    /\ caller[k].pc = "reserved"
    /\ PublishCommand(Control(k, caller[k].cost, caller[k].body))
    /\ caller' = [caller EXCEPT ![k] = [pc |-> "waiting"]]
    /\ UNCHANGED <<health, admitted, durable, stop_enqueued, carrier, worker, closer>>

--------------------------------------------------------------------------------
(* flush() *)

\* One turn of flush's loop under the lock.
FlushOutcome(c, g) ==
    CASE health = "Faulted" -> "StorageFaulted"
      [] health = "Closed" -> "Closed"
      [] health \in {"Active", "Draining"} /\ Get(durable, c) >= g -> "Ok"
      [] OTHER -> "wait"

FlushTurn(k, c, g, outcome) ==
    /\ caller' = [caller EXCEPT ![k] =
          IF outcome = "wait" THEN [pc |-> "flushing", id |-> c, gen |-> g]
                              ELSE Idle(outcome)]
    /\ sleeping' = IF outcome = "wait" THEN sleeping \cup {k} ELSE sleeping
    /\ UNCHANGED <<health, queueVars, admitted, durable, stop_enqueued, carrier,
                   worker, closer>>

Flush(k, c, g) ==
    /\ caller[k].pc = "idle"
    /\ FlushTurn(k, c, g, IF Get(admitted, c) < g THEN "InvalidGeneration"
                                                  ELSE FlushOutcome(c, g))

FlushWake(k) ==
    /\ caller[k].pc = "flushing"
    /\ k \notin sleeping
    /\ FlushTurn(k, caller[k].id, caller[k].gen,
                 FlushOutcome(caller[k].id, caller[k].gen))

--------------------------------------------------------------------------------
(* open_computer() *)

\* The health check that precedes everything else.
OpenBegin(c) ==
    /\ carrier[c].pc = "detached"
    /\ health = "Active"
    /\ carrier' = [carrier EXCEPT ![c] = [pc |-> "opening"]]
    /\ UNCHANGED <<health, queueVars, admitted, durable, stop_enqueued, sleeping,
                   caller, worker, closer>>

\* Mutant of OpenFlushAdmitted: recovery starts without waiting for the queue.
OpenWithoutFlush(c) ==
    /\ carrier[c].pc = "opening"
    /\ carrier' = [carrier EXCEPT ![c] =
          IF health # "Active" THEN [pc |-> "detached"] ELSE [pc |-> "recovering"]]
    /\ UNCHANGED <<health, queueVars, admitted, durable, stop_enqueued, sleeping,
                   caller, worker, closer>>

\* flush_admitted reads the admitted generation under the lock.
OpenFlushAdmitted(c) ==
    /\ carrier[c].pc = "opening"
    /\ carrier' = [carrier EXCEPT ![c] =
          CASE health # "Active" -> [pc |-> "detached"]
            [] health = "Active" /\ admitted[c] = Absent -> [pc |-> "recovering"]
            [] OTHER -> [pc |-> "flushing", gen |-> admitted[c]]]
    /\ UNCHANGED <<health, queueVars, admitted, durable, stop_enqueued, sleeping,
                   caller, worker, closer>>

\* ... and flushes it: wait until it is durable or the store is gone.
OpenFlushWait(c) ==
    LET outcome == FlushOutcome(c, carrier[c].gen) IN
    /\ carrier[c].pc = "flushing"
    /\ c \notin sleeping
    /\ sleeping' = IF outcome = "wait" THEN sleeping \cup {c} ELSE sleeping
    /\ carrier' = [carrier EXCEPT ![c] =
          CASE outcome = "wait" -> carrier[c]
            [] outcome = "Ok" -> [pc |-> "recovering"]
            [] OTHER -> [pc |-> "detached"]]
    /\ UNCHANGED <<health, queueVars, admitted, durable, stop_enqueued, caller,
                   worker, closer>>

\* register_computer with the generation recovered from disk.  The open fails
\* without it, and without a fault, when the gate is no longer active or the tree
\* cannot be built over the ROM (with_rom, restore_recovered).
OpenRegister(c, g) ==
    /\ carrier[c].pc = "recovering"
    /\ \/ /\ health = "Active"
          /\ admitted' = [admitted EXCEPT ![c] = g]
          /\ durable' = [durable EXCEPT ![c] = g]
          /\ carrier' = [carrier EXCEPT ![c] = [pc |-> "attached", gen |-> g]]
       \/ /\ carrier' = [carrier EXCEPT ![c] = [pc |-> "detached"]]
          /\ UNCHANGED <<admitted, durable>>
    /\ UNCHANGED <<health, queueVars, stop_enqueued, sleeping, caller, worker, closer>>

\* Recovery or the write of `confirmed' failed: PersistenceGate::fault, which
\* leaves the queue as it is.
OpenFault(c) ==
    /\ carrier[c].pc = "recovering"
    /\ health' = "Faulted"
    /\ carrier' = [carrier EXCEPT ![c] = [pc |-> "detached"]]
    /\ NotifyAll
    /\ UNCHANGED <<queueVars, admitted, durable, stop_enqueued, caller, worker, closer>>

\* The ComputerFileSystem is dropped (a reboot or an unloaded computer).
Detach(c) ==
    /\ carrier[c].pc = "attached"
    /\ carrier' = [carrier EXCEPT ![c] = [pc |-> "detached"]]
    /\ UNCHANGED <<health, queueVars, admitted, durable, stop_enqueued, sleeping,
                   caller, worker, closer>>

--------------------------------------------------------------------------------
(* worker_loop() *)

WorkerSleep ==
    /\ worker.pc = "running"
    /\ Worker \notin sleeping
    /\ queue = <<>>
    /\ sleeping' = sleeping \cup {Worker}
    /\ UNCHANGED <<health, queueVars, admitted, durable, stop_enqueued, carrier,
                   caller, worker, closer>>

WorkerTake ==
    /\ worker.pc = "running"
    /\ Worker \notin sleeping
    /\ queue # <<>>
    /\ queue' = Tail(queue)
    /\ queued_bytes' = queued_bytes - Head(queue).cost
    /\ worker' = IF Head(queue) = Stop THEN [pc |-> "exited"]
                                       ELSE [pc |-> "busy", cmd |-> Head(queue)]
    /\ NotifyAll
    /\ UNCHANGED <<health, reserved_records, reserved_bytes, admitted, durable,
                   stop_enqueued, carrier, caller, closer>>

\* persist_mutation succeeded: the generation is durable.
WorkerPersisted ==
    /\ worker.pc = "busy"
    /\ worker.cmd.kind = "Mutation"
    /\ durable' = [durable EXCEPT ![worker.cmd.id] = worker.cmd.gen]
    /\ worker' = [pc |-> "running"]
    /\ NotifyAll
    /\ UNCHANGED <<health, queueVars, admitted, stop_enqueued, carrier, caller, closer>>

\* A tombstone or collection succeeded: Completion::complete(Ok).
WorkerCompleted ==
    /\ worker.pc = "busy"
    /\ worker.cmd.kind = "Control"
    /\ caller' = [caller EXCEPT ![worker.cmd.by] = Idle("Ok")]
    /\ worker' = [pc |-> "running"]
    /\ UNCHANGED <<health, queueVars, admitted, durable, stop_enqueued, sleeping,
                   carrier, closer>>

\* The callers whose control commands are in the queue.
QueuedCallers == {k \in Callers :
    \E i \in DOMAIN queue : queue[i].kind = "Control" /\ queue[i].by = k}

\* Mutant of FaultWorker: the store's health is kept.
FaultKeepingHealth ==
    /\ queued_bytes' = 0
    /\ queue' = <<>>
    /\ caller' = [k \in Callers |->
          IF k \in QueuedCallers THEN Idle("StorageFaulted") ELSE caller[k]]
    /\ NotifyAll
    /\ UNCHANGED health

\* fault_worker: the queue is emptied and every control command in it failed;
\* queued mutations, and a queued Stop, are dropped.
FaultWorker ==
    /\ health' = "Faulted"
    /\ queued_bytes' = 0
    /\ queue' = <<>>
    /\ caller' = [k \in Callers |->
          IF k \in QueuedCallers THEN Idle("StorageFaulted") ELSE caller[k]]
    /\ NotifyAll

\* Persisting the command in hand failed.  A failed control command is
\* completed after the lock is released.
WorkerFailed ==
    /\ worker.pc = "busy"
    /\ FaultWorker
    /\ worker' = IF worker.cmd.kind = "Mutation"
                   THEN [pc |-> "running"]
                   ELSE [pc |-> "completing", cmd |-> worker.cmd]
    /\ UNCHANGED <<reserved_records, reserved_bytes, admitted, durable, stop_enqueued,
                   carrier, closer>>

WorkerCompletedFailed ==
    /\ worker.pc = "completing"
    /\ caller' = [caller EXCEPT ![worker.cmd.by] = Idle("StorageFaulted")]
    /\ worker' = [pc |-> "running"]
    /\ UNCHANGED <<health, queueVars, admitted, durable, stop_enqueued, sleeping,
                   carrier, closer>>

--------------------------------------------------------------------------------
(* close(), which holds the store's own mutex from CloseBegin to CloseMark *)

CloseUnchanged == UNCHANGED <<admitted, durable, carrier, caller, worker>>

CloseBegin ==
    /\ closer = "idle"
    /\ closer' = "draining"
    /\ UNCHANGED <<health, queueVars, stop_enqueued, sleeping>>
    /\ CloseUnchanged

CloseDrain ==
    /\ closer = "draining"
    /\ health' = IF health = "Active" THEN "Draining" ELSE health
    /\ closer' = "stopping"
    /\ NotifyAll
    /\ UNCHANGED <<queueVars, stop_enqueued>>
    /\ CloseUnchanged

\* Mutant of StopMustWait: Stop does not wait for reservations.
StopAtOnce == FALSE

\* stop() waits for outstanding reservations unless the store is gone.
StopMustWait == reserved_records # 0 /\ health \notin {"Faulted", "Closed"}

CloseStopWait ==
    /\ closer = "stopping"
    /\ Closer \notin sleeping
    /\ StopMustWait
    /\ sleeping' = sleeping \cup {Closer}
    /\ UNCHANGED <<health, queueVars, stop_enqueued, closer>>
    /\ CloseUnchanged

CloseStop ==
    /\ closer = "stopping"
    /\ Closer \notin sleeping
    /\ ~StopMustWait
    /\ queue' = IF stop_enqueued THEN queue ELSE Append(queue, Stop)
    /\ stop_enqueued' = TRUE
    /\ closer' = "joining"
    /\ NotifyAll
    /\ UNCHANGED <<health, queued_bytes, reserved_records, reserved_bytes>>
    /\ CloseUnchanged

CloseJoin ==
    /\ closer = "joining"
    /\ worker.pc = "exited"
    /\ closer' = "marking"
    /\ UNCHANGED <<health, queueVars, stop_enqueued, sleeping>>
    /\ CloseUnchanged

CloseMark ==
    /\ closer = "marking"
    /\ health' = IF health = "Faulted" THEN health ELSE "Closed"
    /\ closer' = "closed"
    /\ NotifyAll
    /\ UNCHANGED <<queueVars, stop_enqueued>>
    /\ CloseUnchanged

--------------------------------------------------------------------------------
(* The gate on its own.  Recovery yields the last durable generation. *)

CarrierRuns(c) ==
    \/ Publish(c)
    \/ DropReservation(c)
    \/ OpenFlushAdmitted(c)
    \/ OpenFlushWait(c)
    \/ OpenRegister(c, Get(durable, c))
    \/ DiskMayFail /\ OpenFault(c)

CarrierStarts(c) ==
    \/ OpenBegin(c)
    \/ Detach(c)
    \/ \E cost \in MutationBytes, body \in Bodies : Prepare(c, cost, body)

CallerRuns(k) == PublishControl(k) \/ FlushWake(k)

CallerStarts(k) ==
    \/ \E cost \in ControlBytes, body \in ControlBodies : CallControl(k, cost, body)
    \/ \E c \in Computers, g \in 0 .. MaxGeneration : Flush(k, c, g)

WorkerRuns ==
    \/ WorkerSleep
    \/ WorkerTake
    \/ WorkerPersisted
    \/ WorkerCompleted
    \/ DiskMayFail /\ WorkerFailed
    \/ WorkerCompletedFailed

CloserRuns ==
    \/ CloseDrain
    \/ CloseStopWait
    \/ CloseStop
    \/ CloseJoin
    \/ CloseMark

GateNext ==
    \/ \E c \in Computers : CarrierStarts(c) \/ CarrierRuns(c)
    \/ \E k \in Callers : CallerStarts(k) \/ CallerRuns(k)
    \/ WorkerRuns
    \/ CloseBegin
    \/ CloserRuns

GateSpec == GateInit /\ [][GateNext]_gateVars

\* A thread inside a call that is not blocked keeps running (the operating
\* system schedules it).  Nobody is obliged to start a call.
GateFairness ==
    /\ \A c \in Computers : WF_gateVars(CarrierRuns(c))
    /\ \A k \in Callers : WF_gateVars(CallerRuns(k))
    /\ WF_gateVars(WorkerRuns)
    /\ WF_gateVars(CloserRuns)

FairGateSpec == GateSpec /\ GateFairness

--------------------------------------------------------------------------------
(* Properties *)

\* The type invariant.
GateTypeOK ==
    /\ health \in {"Active", "Draining", "Faulted", "Closed"}
    /\ queue \in Seq(Commands)
    /\ queued_bytes \in Int
    /\ reserved_records \in Int
    /\ reserved_bytes \in Int
    /\ admitted \in [Computers -> Nat \cup {Absent}]
    /\ durable \in [Computers -> Nat \cup {Absent}]
    /\ stop_enqueued \in BOOLEAN
    /\ sleeping \subseteq Computers \cup Callers \cup {Worker, Closer}
    /\ carrier \in [Computers -> CarrierStates]
    /\ caller \in [Callers -> CallerStates]
    /\ worker \in WorkerStates
    /\ closer \in {"idle", "draining", "stopping", "joining", "marking", "closed"}

\* Back-pressure (reserve): the queue and the outstanding reservations together
\* never exceed the configured number of records; only Stop may come on top,
\* which is the one extra slot the queue is allocated with.
QueueBounded ==
    Len(queue) + reserved_records <= MaxRecords + (IF stop_enqueued THEN 1 ELSE 0)

\* Generation g of computer c is in the queue or in the worker's hands.
Pending(c, g) ==
    \/ /\ worker.pc = "busy"
       /\ worker.cmd.kind = "Mutation"
       /\ worker.cmd.id = c
       /\ worker.cmd.gen = g
    \/ \E i \in DOMAIN queue :
          queue[i].kind = "Mutation" /\ queue[i].id = c /\ queue[i].gen = g

\* Until the store faults, a generation the computer has published is durable
\* or still on its way to the disk: publish, the worker's pop and reopening a
\* computer (open_computer's flush and registration) never lose one.
NoAdmittedLoss ==
    health # "Faulted" =>
        \A c \in Computers : \A g \in durable[c] + 1 .. admitted[c] : Pending(c, g)

\* Mutations reach the worker in the order of their generations, after what is
\* durable, and none is ahead of what the gate believes admitted.
GenerationOrder ==
    /\ \A c \in Computers : durable[c] <= admitted[c]
    /\ \A i \in DOMAIN queue : queue[i].kind = "Mutation" =>
          /\ durable[queue[i].id] < queue[i].gen
          /\ queue[i].gen <= admitted[queue[i].id]
          /\ \A j \in DOMAIN queue :
                (j > i /\ queue[j].kind = "Mutation" /\ queue[j].id = queue[i].id)
                    => queue[i].gen < queue[j].gen
    /\ (worker.pc = "busy" /\ worker.cmd.kind = "Mutation") =>
          /\ durable[worker.cmd.id] < worker.cmd.gen
          /\ worker.cmd.gen <= admitted[worker.cmd.id]
          /\ \A j \in DOMAIN queue :
                (queue[j].kind = "Mutation" /\ queue[j].id = worker.cmd.id)
                    => worker.cmd.gen < queue[j].gen

\* A computer's filesystem and the gate agree on its last generation whenever it
\* may mutate or is waiting to be reopened, and recovery only reads the disk
\* once everything admitted is on it (flush_admitted before recover_computer).
CarrierAgrees ==
    \A c \in Computers :
        /\ carrier[c].pc \in {"attached", "reserved", "flushing"} =>
              carrier[c].gen = admitted[c]
        /\ carrier[c].pc = "recovering" => durable[c] = admitted[c]
        /\ admitted[c] # Absent => durable[c] # Absent

\* A generation reported durable stays reported durable, whoever faults, closes
\* or reopens the computer (register_computer overwrites the map).
DurableNeverRegresses ==
    [][\A c \in Computers : durable'[c] >= durable[c]]_gateVars

\* A published mutation becomes durable unless the store faults.
AdmittedBecomesDurable ==
    \A c \in Computers : \A g \in 1 .. MaxGeneration :
        (admitted[c] >= g) ~> (durable[c] >= g \/ health = "Faulted")

\* A flush that waits returns, and so does open_computer, which flushes what
\* was admitted: when the generation is durable, or when the store faults or
\* closes.  No change of what they wait for is left unannounced.
FlushesReturn ==
    /\ \A k \in Callers : (caller[k].pc = "flushing") ~> (caller[k].pc = "idle")
    /\ \A c \in Computers :
          (carrier[c].pc \in {"opening", "flushing", "recovering"})
              ~> (carrier[c].pc \in {"attached", "detached"})

\* A tombstone or collection whose command was published is completed.
ControlCallsReturn ==
    \A k \in Callers : (caller[k].pc = "waiting") ~> (caller[k].pc = "idle")

\* close() returns.
CloseReturns == (closer # "idle") ~> (closer = "closed")

\* Every call returns: flushes and opens always, and a published control command
\* is completed, and close() returns, unless the store faults: every wake-up they
\* need is sent (publish, the worker's pop, stop).  After a fault the last two do
\* not hold: the two properties above are violated.
CallsReturnOrFault ==
    /\ FlushesReturn
    /\ \A k \in Callers :
          (caller[k].pc = "waiting") ~> (caller[k].pc = "idle" \/ health = "Faulted")
    /\ (closer # "idle") ~> (closer = "closed" \/ health = "Faulted")
================================================================================
