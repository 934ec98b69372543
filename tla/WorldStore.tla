------------------------------- MODULE WorldStore -------------------------------
(***************************************************************************)
(* The world filesystem store (filesystem/store.rs) over the persistence   *)
(* gate: what each command writes to disk and in which order, recovery of  *)
(* a computer when it is opened, execution checkpoints, tombstones,        *)
(* collection of unreachable objects, close, and a crash of the process at *)
(* any point followed by a restart.                                        *)
(*                                                                         *)
(* A computer's namespace is abstracted to one file: the body of a         *)
(* mutation is the object that file now holds, or NoObject.  Replaying a   *)
(* journal therefore yields the body of its last record; the operations    *)
(* on whole trees are another component.  A file appears on disk when      *)
(* write_atomic renames it; all that was renamed survives a crash of the   *)
(* process.  No code of the repository writes a namespace checkpoint, so   *)
(* recovery starts from an empty state.                                    *)
(***************************************************************************)
EXTENDS PersistenceGate

CONSTANTS
    NoObject,            \* a mutation without object bytes
    Operations,          \* store operations the callers of this instance use
    MaxRecoveryRecords,  \* limits.maximum_recovery_records
    MaxRestarts,         \* bound on the restarts a run explores
    QuiescentCollection  \* does the host collect only while no computer is open

ASSUME StoreAssumption ==
    /\ NoObject \in Bodies
    /\ Operations \subseteq {"flush", "save", "discard", "tombstone", "collect"}
    /\ MaxRecoveryRecords \in Nat
    /\ MaxRestarts \in Nat
    /\ QuiescentCollection \in BOOLEAN

VARIABLES
    journal,     \* per computer: generation -> record on disk
    confirmed,   \* per computer: the `confirmed' file
    objects,     \* object files
    tombstone,   \* computers with a tombstone file
    execution,   \* per computer: generation saved in `execution', or Absent
    stray,       \* per computer: generations with a left-over journal temporary
    stage,       \* how far the worker is with the command in its hands
    removed,     \* objects it has removed for the collection in its hands
    call,        \* store operation each caller is inside of
    lock,        \* holder of the store's own `health' mutex
    restarts,
    log,         \* every mutation the computer's tree holds (history)
    reported     \* highest generation ever reported durable (history); once the
                 \* store has faulted it reports nothing

diskVars == <<journal, confirmed, objects, tombstone, execution, stray>>
historyVars == <<log, reported>>
callVars == <<call, lock>>
workVars == <<stage, removed>>
storeVars == <<gateVars, diskVars, workVars, callVars, restarts, historyVars>>

Objects == Bodies \ {NoObject}

StoreControlBodies ==
    [op : {"tombstone"}, id : Computers, present : BOOLEAN]
        \cup [op : {"collect"}, remove : SUBSET Objects]

\* What a journal directory may hold: a record for each of some generations.
Journals == UNION {[written -> Bodies] : written \in SUBSET (1 .. MaxGeneration)}

\* Where a caller may be inside an operation.
CallStates ==
    [pc : {"none", "collecting"}]
        \cup [pc : {"save", "write"}, id : Computers, gen : Nat]
        \cup [pc : {"flush_all"}, ok : BOOLEAN, todo : SUBSET (Computers \X Nat)]
        \cup [pc : {"reach"}, todo : SUBSET Computers, reachable : SUBSET Objects]
        \cup [pc : {"send"}, remove : SUBSET Objects]

ASSUME ControlAssumption ==
    /\ ControlBodies = StoreControlBodies
    /\ IsFiniteSet(Bodies)

StoreInit ==
    /\ GateInit
    /\ journal = [c \in Computers |-> <<>>]
    /\ confirmed = [c \in Computers |-> 0]
    /\ objects = {}
    /\ tombstone = {}
    /\ execution = [c \in Computers |-> Absent]
    /\ stray = [c \in Computers |-> {}]
    /\ stage = "object"
    /\ removed = {}
    /\ call = [k \in Callers |-> [pc |-> "none"]]
    /\ lock = "free"
    /\ restarts = 0
    /\ log = [c \in Computers |-> <<>>]
    /\ reported = [c \in Computers |-> 0]

\* The disk, the worker's progress and the callers' operations stay as they are.
KeepDisk == UNCHANGED <<diskVars, workVars, restarts>>
KeepCalls == UNCHANGED callVars
KeepHistory == UNCHANGED historyVars

--------------------------------------------------------------------------------
(* Recovery: recover_computer and recover *)

\* The generation replay reaches: records are applied from 1 up to the first gap.
Replayed(c) == CHOOSE n \in 0 .. MaxGeneration :
    1 .. n \subseteq DOMAIN journal[c] /\ n + 1 \notin DOMAIN journal[c]

\* The file's object in the replayed state.
Content(c) == IF Replayed(c) = 0 THEN NoObject ELSE journal[c][Replayed(c)]

\* Too many entries to scan, a gap at or below the confirmed generation, or an
\* object of the recovered state that is not on disk.
RecoverFails(c) ==
    \/ Cardinality(DOMAIN journal[c]) + Cardinality(stray[c]) > MaxRecoveryRecords
    \/ Replayed(c) < confirmed[c]
    \/ Content(c) \in Objects \ objects

--------------------------------------------------------------------------------
(* open_computer and the mutations of an open computer *)

\* A collection started by caller k has not returned.
Collecting(k) == call[k].pc \in {"flush_all", "reach", "send", "collecting"}

StoreOpenBegin(c) ==
    /\ c \notin tombstone
    /\ QuiescentCollection => ~ \E k \in Callers : Collecting(k)
    /\ OpenBegin(c)
    /\ KeepDisk /\ KeepCalls /\ KeepHistory

StoreOpenFlush(c) ==
    /\ OpenFlushAdmitted(c) \/ OpenFlushWait(c)
    /\ KeepDisk /\ KeepCalls /\ KeepHistory

\* A replayed tail beyond `confirmed' is confirmed before the computer is
\* registered with the gate, and stays confirmed when the open then fails.  Reading
\* the journal, the confirmation and the registration are one step: no mutation of
\* this computer is admitted before the last of them.
StoreOpenRegister(c) ==
    /\ ~RecoverFails(c)
    /\ OpenRegister(c, Replayed(c))
    /\ confirmed' = [confirmed EXCEPT ![c] = Replayed(c)]
    /\ IF carrier'[c].pc = "attached"
         THEN /\ log' = [log EXCEPT ![c] = [g \in 1 .. Replayed(c) |-> journal[c][g]]]
              /\ reported' = [reported EXCEPT ![c] = Replayed(c)]
         ELSE KeepHistory
    /\ UNCHANGED <<journal, objects, tombstone, execution, stray, workVars, restarts>>
    /\ KeepCalls

\* Recovery fails, or writing `confirmed' does: the whole store faults.
StoreOpenFault(c) ==
    /\ RecoverFails(c) \/ (DiskMayFail /\ Replayed(c) > confirmed[c])
    /\ OpenFault(c)
    /\ KeepDisk /\ KeepCalls /\ KeepHistory

StorePrepare(c, body) ==
    /\ \E cost \in MutationBytes : Prepare(c, cost, body)
    /\ KeepDisk /\ KeepCalls /\ KeepHistory

StorePublish(c) ==
    /\ Publish(c)
    /\ log' = [log EXCEPT ![c] = Append(log[c], carrier[c].body)]
    /\ KeepDisk /\ KeepCalls /\ UNCHANGED reported

StoreDetach(c) ==
    /\ Detach(c) \/ DropReservation(c)
    /\ KeepDisk /\ KeepCalls /\ KeepHistory

--------------------------------------------------------------------------------
(* The worker: persist_mutation, persist_tombstone and collect_objects *)

InHand(kind) == worker.pc = "busy" /\ worker.cmd.kind = kind

KeepForWorker == UNCHANGED <<gateVars, callVars, restarts, historyVars>>

\* The object file is written unless it exists (then it is only verified).
PersistObject ==
    /\ InHand("Mutation")
    /\ stage = "object"
    /\ objects' = objects \cup ({worker.cmd.body} \cap Objects)
    /\ stage' = "journal"
    /\ UNCHANGED <<journal, confirmed, tombstone, execution, stray, removed>>
    /\ KeepForWorker

PersistJournal ==
    LET c == worker.cmd.id IN
    /\ InHand("Mutation")
    /\ stage = "journal"
    /\ journal' = [journal EXCEPT ![c] = [g \in DOMAIN journal[c] \cup {worker.cmd.gen} |->
          IF g = worker.cmd.gen THEN worker.cmd.body ELSE journal[c][g]]]
    /\ stray' = [stray EXCEPT ![c] = @ \ {worker.cmd.gen}]
    /\ stage' = "confirmed"
    /\ UNCHANGED <<confirmed, objects, tombstone, execution, removed>>
    /\ KeepForWorker

PersistConfirmed ==
    /\ InHand("Mutation")
    /\ stage = "confirmed"
    /\ confirmed' = [confirmed EXCEPT ![worker.cmd.id] = worker.cmd.gen]
    /\ stage' = "done"
    /\ UNCHANGED <<journal, objects, tombstone, execution, stray, removed>>
    /\ KeepForWorker

\* Mutant of StorePersisted: durable is announced before the record is written.
StorePersistedEarly ==
    LET c == worker.cmd.id IN
    /\ stage = "journal"
    /\ WorkerPersisted
    /\ stage' = "object"
    /\ reported' = [reported EXCEPT ![c] =
          IF health # "Faulted" /\ @ < worker.cmd.gen THEN worker.cmd.gen ELSE @]
    /\ UNCHANGED <<diskVars, removed, callVars, restarts, log>>

StorePersisted ==
    LET c == worker.cmd.id IN
    /\ stage = "done"
    /\ WorkerPersisted
    /\ stage' = "object"
    /\ reported' = [reported EXCEPT ![c] =
          IF health # "Faulted" /\ @ < worker.cmd.gen THEN worker.cmd.gen ELSE @]
    /\ UNCHANGED <<diskVars, removed, callVars, restarts, log>>

PersistTombstone ==
    LET body == worker.cmd.body IN
    /\ InHand("Control")
    /\ body.op = "tombstone"
    /\ stage = "object"
    /\ body.present \/ body.id \in tombstone
    /\ tombstone' = IF body.present THEN tombstone \cup {body.id} ELSE tombstone \ {body.id}
    /\ stage' = "done"
    /\ UNCHANGED <<journal, confirmed, objects, execution, stray, removed>>
    /\ KeepForWorker

CollectObject(o) ==
    /\ InHand("Control")
    /\ worker.cmd.body.op = "collect"
    /\ o \in worker.cmd.body.remove \ removed
    /\ o \in objects
    /\ objects' = objects \ {o}
    /\ removed' = removed \cup {o}
    /\ UNCHANGED <<journal, confirmed, tombstone, execution, stray, stage>>
    /\ KeepForWorker

CollectedAll == worker.cmd.body.op = "collect" /\ removed = worker.cmd.body.remove

StoreCompleted ==
    /\ InHand("Control")
    /\ stage = "done" \/ CollectedAll
    /\ WorkerCompleted
    /\ stage' = "object"
    /\ removed' = {}
    /\ UNCHANGED <<diskVars, callVars, restarts, historyVars>>

\* remove_file fails for a file that does not exist.
RemovesMissingFile ==
    /\ InHand("Control")
    /\ stage = "object"
    /\ \/ /\ worker.cmd.body.op = "tombstone"
          /\ ~worker.cmd.body.present
          /\ worker.cmd.body.id \notin tombstone
       \/ /\ worker.cmd.body.op = "collect"
          /\ (worker.cmd.body.remove \ removed) \ objects # {}

\* write_atomic is interrupted: a journal temporary may be left behind.
Interrupted ==
    \/ UNCHANGED stray
    \/ /\ InHand("Mutation")
       /\ stage = "journal"
       /\ stray' = [stray EXCEPT ![worker.cmd.id] = @ \cup {worker.cmd.gen}]

StoreFailed ==
    /\ DiskMayFail \/ RemovesMissingFile
    /\ WorkerFailed
    /\ Interrupted
    /\ stage' = "object"
    /\ removed' = {}
    /\ UNCHANGED <<journal, confirmed, objects, tombstone, execution, callVars, restarts,
                   historyVars>>

StoreWorkerLoop ==
    /\ WorkerSleep \/ WorkerTake \/ WorkerCompletedFailed
    /\ KeepDisk /\ KeepCalls /\ KeepHistory

--------------------------------------------------------------------------------
(* Calls on the store *)

Free(k) == caller[k].pc = "idle" /\ call[k].pc = "none"

\* Caller k moves to another point of its operation; the gate is not involved.
Moves(k, to) ==
    /\ call' = [call EXCEPT ![k] = to]
    /\ UNCHANGED gateVars

StoreFlush(k, c, g) ==
    /\ "flush" \in Operations
    /\ Free(k)
    /\ Flush(k, c, g)
    /\ KeepDisk /\ KeepCalls /\ KeepHistory

StoreFlushWake(k) ==
    /\ FlushWake(k) \/ PublishControl(k)
    /\ KeepDisk /\ KeepCalls /\ KeepHistory

\* tombstone and recover_tombstone
Tombstone(k, c, present) ==
    /\ "tombstone" \in Operations
    /\ Free(k)
    /\ CallControl(k, 0, [op |-> "tombstone", id |-> c, present |-> present])
    /\ KeepDisk /\ KeepCalls /\ KeepHistory

\* Mutant of SaveBegin: the checkpoint is written without flushing first.
SaveWithoutFlush(k, c) ==
    /\ "save" \in Operations
    /\ Free(k)
    /\ lock = "free" /\ closer # "closed"
    /\ health = "Active"
    /\ carrier[c].pc = "attached"
    /\ Moves(k, [pc |-> "write", id |-> c, gen |-> carrier[c].gen])
    /\ lock' = k
    /\ KeepDisk /\ KeepHistory

\* save_execution_checkpoint holds the store's mutex while it flushes the frozen
\* computer's generation.
SaveBegin(k, c) ==
    /\ "save" \in Operations
    /\ Free(k)
    /\ lock = "free" /\ closer # "closed"
    /\ health = "Active"
    /\ carrier[c].pc = "attached"
    /\ Flush(k, c, carrier[c].gen)
    /\ call' = [call EXCEPT ![k] = [pc |-> "save", id |-> c, gen |-> carrier[c].gen]]
    /\ lock' = k
    /\ KeepDisk /\ KeepHistory

SaveCheck(k) ==
    LET c == call[k].id
        current == /\ caller[k].result = "Ok"
                   /\ health \in {"Active", "Draining"}
                   /\ durable[c] = call[k].gen
                   /\ c \notin tombstone
    IN
    /\ call[k].pc = "save"
    /\ caller[k].pc = "idle"
    /\ Moves(k, IF current THEN [call[k] EXCEPT !.pc = "write"] ELSE [pc |-> "none"])
    /\ lock' = IF current THEN lock ELSE "free"
    /\ KeepDisk /\ KeepHistory

SaveWrite(k) ==
    /\ call[k].pc = "write"
    /\ \/ execution' = [execution EXCEPT ![call[k].id] = call[k].gen]
       \/ DiskMayFail /\ UNCHANGED execution
    /\ Moves(k, [pc |-> "none"])
    /\ lock' = "free"
    /\ UNCHANGED <<journal, confirmed, objects, tombstone, stray, workVars, restarts>>
    /\ KeepHistory

DiscardExecution(k, c) ==
    /\ "discard" \in Operations
    /\ Free(k)
    /\ lock = "free" /\ closer # "closed"
    /\ health = "Active"
    /\ c \notin tombstone
    /\ execution' = [execution EXCEPT ![c] = Absent]
    /\ UNCHANGED <<gateVars, journal, confirmed, objects, tombstone, stray, workVars,
                   callVars, restarts>>
    /\ KeepHistory

--------------------------------------------------------------------------------
(* collect_unreachable_objects *)

\* flush_all takes a snapshot of the admitted generations ...
CollectBegin(k) ==
    /\ "collect" \in Operations
    /\ Free(k)
    /\ QuiescentCollection => \A c \in Computers : carrier[c].pc = "detached"
    /\ Moves(k, [pc |-> "flush_all", ok |-> TRUE,
                 todo |-> {<<c, admitted[c]>> : c \in {d \in Computers : admitted[d] # Absent}}])
    /\ KeepDisk /\ UNCHANGED lock /\ KeepHistory

FlushedOk(k) == call[k].ok \/ caller[k].result = "Ok"

\* ... and flushes them one after another.
CollectFlush(k) ==
    /\ call[k].pc = "flush_all"
    /\ caller[k].pc = "idle"
    /\ FlushedOk(k)
    /\ \E pair \in call[k].todo :
          /\ Flush(k, pair[1], pair[2])
          /\ call' = [call EXCEPT ![k].todo = @ \ {pair}, ![k].ok = FALSE]
    /\ KeepDisk /\ UNCHANGED lock /\ KeepHistory

CollectFlushed(k) ==
    /\ call[k].pc = "flush_all"
    /\ caller[k].pc = "idle"
    /\ ~FlushedOk(k) \/ call[k].todo = {}
    /\ Moves(k, IF FlushedOk(k) THEN [pc |-> "reach", todo |-> Computers, reachable |-> {}]
                                ELSE [pc |-> "none"])
    /\ KeepDisk /\ UNCHANGED lock /\ KeepHistory

\* Mutant of CollectReach: only the confirmed generation is looked at.
CollectReachConfirmed(k) ==
    /\ call[k].pc = "reach"
    /\ \E c \in call[k].todo :
          Moves(k, [call[k] EXCEPT !.todo = @ \ {c}, !.reachable = @ \cup
                      ({IF confirmed[c] = 0 THEN NoObject ELSE journal[c][confirmed[c]]}
                          \cap Objects)])
    /\ KeepDisk /\ UNCHANGED lock /\ KeepHistory

\* Each computer is recovered for the objects it reaches; an error, or too many
\* computers or objects to scan, ends the call.
CollectReach(k) ==
    /\ call[k].pc = "reach"
    /\ \/ \E c \in call[k].todo :
             /\ ~RecoverFails(c)
             /\ Moves(k, [call[k] EXCEPT !.todo = @ \ {c},
                                         !.reachable = @ \cup ({Content(c)} \cap Objects)])
       \/ Moves(k, [pc |-> "none"])
    /\ KeepDisk /\ UNCHANGED lock /\ KeepHistory

\* The stored objects that nothing reaches.
CollectList(k) ==
    /\ call[k].pc = "reach"
    /\ call[k].todo = {}
    /\ Moves(k, [pc |-> "send", remove |-> objects \ call[k].reachable])
    /\ KeepDisk /\ UNCHANGED lock /\ KeepHistory

\* They are removed by the worker, in queue order.
CollectSend(k) ==
    LET unreachable == call[k].remove IN
    /\ call[k].pc = "send"
    /\ IF CanReserve(Cardinality(unreachable))
         THEN /\ CallControl(k, Cardinality(unreachable),
                             [op |-> "collect", remove |-> unreachable])
              /\ call' = [call EXCEPT ![k] = [pc |-> "collecting"]]
         ELSE Moves(k, [pc |-> "none"])
    /\ KeepDisk /\ UNCHANGED lock /\ KeepHistory

CollectReturn(k) ==
    /\ call[k].pc = "collecting"
    /\ caller[k].pc = "idle"
    /\ Moves(k, [pc |-> "none"])
    /\ KeepDisk /\ UNCHANGED lock /\ KeepHistory

--------------------------------------------------------------------------------
(* close, crash and restart *)

StoreCloseBegin ==
    /\ lock = "free"
    /\ CloseBegin
    /\ lock' = Closer
    /\ UNCHANGED call
    /\ KeepDisk /\ KeepHistory

StoreClosing ==
    /\ CloseDrain \/ CloseStopWait \/ CloseStop \/ CloseJoin
    /\ KeepDisk /\ KeepCalls /\ KeepHistory

StoreCloseMark ==
    /\ CloseMark
    /\ lock' = "free"
    /\ UNCHANGED call
    /\ KeepDisk /\ KeepHistory

\* A new process opens the store (WorldFileSystemStore::open, which starts a new
\* gate and worker) on the same disk.
Restarted ==
    /\ restarts < MaxRestarts
    /\ restarts' = restarts + 1
    /\ health' = "Active"
    /\ queue' = <<>>
    /\ queued_bytes' = 0
    /\ reserved_records' = 0
    /\ reserved_bytes' = 0
    /\ admitted' = [c \in Computers |-> Absent]
    /\ durable' = [c \in Computers |-> Absent]
    /\ stop_enqueued' = FALSE
    /\ sleeping' = {}
    /\ carrier' = [c \in Computers |-> [pc |-> "detached"]]
    /\ caller' = [k \in Callers |-> Idle("none")]
    /\ worker' = [pc |-> "running"]
    /\ closer' = "idle"
    /\ stage' = "object"
    /\ removed' = {}
    /\ call' = [k \in Callers |-> [pc |-> "none"]]
    /\ lock' = "free"
    /\ UNCHANGED <<journal, confirmed, objects, tombstone, execution, log, reported>>

\* The process dies between any two steps, or while the worker writes a file.
Crash ==
    /\ Interrupted
    /\ Restarted

Reopen ==
    /\ closer = "closed"
    /\ UNCHANGED stray
    /\ Restarted

--------------------------------------------------------------------------------
StoreNext ==
    \/ \E c \in Computers :
         \/ StoreOpenBegin(c)
         \/ StoreOpenFlush(c)
         \/ StoreOpenRegister(c)
         \/ StoreOpenFault(c)
         \/ \E body \in Bodies : StorePrepare(c, body)
         \/ StorePublish(c)
         \/ StoreDetach(c)
    \/ PersistObject
    \/ PersistJournal
    \/ PersistConfirmed
    \/ StorePersisted
    \/ PersistTombstone
    \/ \E o \in Objects : CollectObject(o)
    \/ StoreCompleted
    \/ StoreFailed
    \/ StoreWorkerLoop
    \/ \E k \in Callers :
         \/ \E c \in Computers, g \in 0 .. MaxGeneration : StoreFlush(k, c, g)
         \/ StoreFlushWake(k)
         \/ \E c \in Computers, present \in BOOLEAN : Tombstone(k, c, present)
         \/ \E c \in Computers : SaveBegin(k, c) \/ DiscardExecution(k, c)
         \/ SaveCheck(k)
         \/ SaveWrite(k)
         \/ CollectBegin(k)
         \/ CollectFlush(k)
         \/ CollectFlushed(k)
         \/ CollectReach(k)
         \/ CollectList(k)
         \/ CollectSend(k)
         \/ CollectReturn(k)
    \/ StoreCloseBegin
    \/ StoreClosing
    \/ StoreCloseMark
    \/ Crash
    \/ Reopen

StoreSpec == StoreInit /\ [][StoreNext]_storeVars

--------------------------------------------------------------------------------
(* Properties *)

\* The type invariant.
StoreTypeOK ==
    /\ GateTypeOK
    /\ journal \in [Computers -> Journals]
    /\ confirmed \in [Computers -> Nat]
    /\ objects \subseteq Objects
    /\ tombstone \subseteq Computers
    /\ execution \in [Computers -> Nat \cup {Absent}]
    /\ stray \in [Computers -> SUBSET Nat]
    /\ stage \in {"object", "journal", "confirmed", "done"}
    /\ removed \subseteq Objects
    /\ call \in [Callers -> CallStates]
    /\ lock \in Callers \cup {Closer, "free"}
    /\ restarts \in Nat
    /\ log \in [Computers -> Seq(Bodies)]
    /\ reported \in [Computers -> Nat]

\* Whatever the disk holds, at any instant at which the process could die,
\* recovering any computer succeeds: persist_mutation writes the object before
\* the record and the record before `confirmed', and collection removes nothing
\* that replay needs.
AlwaysRecoverable == StoreTypeOK /\ \A c \in Computers : ~RecoverFails(c)

\* A generation reported durable (by flush or durable_generation, which report
\* nothing once the store has faulted) is reached by replay, and what replay
\* applies is what the computer published, disk errors included.
ReportedIsOnDisk ==
    \A c \in Computers :
        /\ reported[c] <= Replayed(c)
        /\ health # "Faulted" => durable[c] <= reported[c]
        /\ \A g \in 1 .. Replayed(c) : g <= Len(log[c]) /\ journal[c][g] = log[c][g]

\* close() of a store that did not fault leaves every published mutation on disk.
CloseDrains ==
    health = "Closed" => \A c \in Computers : Get(admitted, c) <= confirmed[c]

\* The filesystem generation a saved execution checkpoint belongs to is one that
\* replay of the journal reaches, before and after a restart
\* (save_execution_checkpoint flushes first).
ExecutionNeverAhead == \A c \in Computers : execution[c] <= Replayed(c)

Promise == INSTANCE DurableLog WITH
    Computers <- Computers, Bodies <- Bodies, log <- log, reported <- reported

\* The store keeps the promise of DurableLog across restarts, reopening and close:
\* recovery yields a prefix of the computer's mutations that includes everything
\* reported durable.
KeepsPromise == Promise!Spec
================================================================================
