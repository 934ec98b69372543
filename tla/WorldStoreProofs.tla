---------------------------- MODULE WorldStoreProofs ----------------------------
(***************************************************************************)
(* Proofs about the world store, for any number of computers, callers,     *)
(* generations and restarts: the layers of its invariant, that the         *)
(* journals hold what the computers published, and that a reliable disk    *)
(* recovers.                                                               *)
(***************************************************************************)
EXTENDS WorldStore, PersistenceGateProofs

--------------------------------------------------------------------------------
(* The inductive invariant *)

\* The conditions under which a store is always recoverable: the disk returns no
\* errors, no tombstone is taken back that does not exist, objects are collected
\* while no computer is open, and the scan limit admits a whole journal.
Reliable ==
    /\ ~DiskMayFail
    /\ "tombstone" \notin Operations
    /\ QuiescentCollection
    /\ MaxGeneration <= MaxRecoveryRecords

\* The conditions under which nothing reported is lost: no disk error, or no
\* restart after one.
Careful == Reliable \/ MaxRestarts = 0

\* The worker holds a mutation of computer c whose record is on disk.
Written(c) ==
    /\ InHand("Mutation")
    /\ worker.cmd.id = c
    /\ stage \in {"confirmed", "done"}

\* Generations stay within the bound, `confirmed' is written before a generation
\* is announced, and the worker starts every command from its first stage.
StageInv ==
    /\ \A c \in Computers :
          /\ admitted[c] <= MaxGeneration
          /\ carrier[c].pc = "reserved" => carrier[c].gen < MaxGeneration
          /\ durable[c] <= confirmed[c]
    /\ worker.pc # "busy" => stage = "object"
    /\ (InHand("Mutation") /\ stage = "done") => confirmed[worker.cmd.id] = worker.cmd.gen

\* Journals have no gap: always when nothing fails, until a fault otherwise.
NoGaps ==
    (Reliable \/ health # "Faulted") =>
        \A c \in Computers : \E n \in 0 .. MaxGeneration : DOMAIN journal[c] = 1 .. n

\* The journal of a registered computer ends with its durable generation, or with
\* the one in the worker's hands.
JournalsFollow ==
    health # "Faulted" => \A c \in Computers : durable[c] # Absent =>
        DOMAIN journal[c] = 1 .. (IF Written(c) THEN durable[c] + 1 ELSE durable[c])

\* What is on disk, in the worker's hands and in the queue is what the computers
\* published.
LogAgrees ==
    /\ \A c \in Computers :
          /\ \A g \in DOMAIN journal[c] : g <= Len(log[c]) /\ journal[c][g] = log[c][g]
          /\ admitted[c] # Absent => admitted[c] = Len(log[c])
    /\ \A i \in DOMAIN queue : queue[i].kind = "Mutation" =>
          /\ queue[i].gen <= Len(log[queue[i].id])
          /\ queue[i].body = log[queue[i].id][queue[i].gen]
    /\ InHand("Mutation") =>
          /\ worker.cmd.gen <= Len(log[worker.cmd.id])
          /\ worker.cmd.body = log[worker.cmd.id][worker.cmd.gen]

\* What was reported durable, or saved as an execution checkpoint, is on disk.
ReportsKept ==
    /\ \A c \in Computers :
          /\ 1 .. reported[c] \subseteq DOMAIN journal[c]
          /\ 1 .. execution[c] \subseteq DOMAIN journal[c]
          /\ health # "Faulted" => durable[c] <= reported[c]
    /\ \A k \in Callers : call[k].pc = "write" =>
          1 .. call[k].gen \subseteq DOMAIN journal[call[k].id]

LogInv == NoGaps /\ JournalsFollow /\ LogAgrees /\ ReportsKept

\* The disk of a reliable store: `confirmed' never runs ahead of the journal,
\* temporaries stand for records that are not written, and the newest object of
\* every computer exists.
DiskInv ==
    /\ \A c \in Computers :
          /\ 1 .. confirmed[c] \subseteq DOMAIN journal[c]
          /\ stray[c] \subseteq (1 .. MaxGeneration) \ DOMAIN journal[c]
          /\ Content(c) \in objects \cup {NoObject}
    /\ (InHand("Mutation") /\ stage # "object") => worker.cmd.body \in objects \cup {NoObject}

\* Nothing is on its way to the disk.
Settled == \A c \in Computers : carrier[c].pc = "detached" /\ admitted[c] = durable[c]

\* A flush of flush_all: still to do, done, waiting, or failed.
FlushProgress(k, c) ==
    \/ <<c, admitted[c]>> \in call[k].todo
    \/ durable[c] >= admitted[c]
    \/ caller[k].pc = "flushing" /\ caller[k].id = c /\ caller[k].gen = admitted[c]
    \/ caller[k].pc = "idle" /\ ~FlushedOk(k)

\* Removing these objects leaves every computer its newest one.
Spares(os) == \A c \in Computers : Content(c) \notin os

\* A collection runs while no computer is open and, past flush_all, while nothing
\* is on its way; what it asks to remove no computer needs.
CollectCall(k) ==
    /\ caller[k].pc \in {"reserved", "waiting"} => call[k].pc = "collecting"
    /\ caller[k].pc = "reserved" =>
          caller[k].body.op = "collect" /\ Spares(caller[k].body.remove)
    /\ call[k].pc = "flush_all" =>
          /\ caller[k].pc = "flushing" => ~call[k].ok
          /\ \A c \in Computers :
                carrier[c].pc = "detached" /\ (admitted[c] # Absent => FlushProgress(k, c))
    /\ call[k].pc \in {"reach", "send", "collecting"} => Settled
    /\ call[k].pc = "reach" => \A c \in Computers \ call[k].todo :
          Content(c) \in call[k].reachable \cup {NoObject}
    /\ call[k].pc = "send" => Spares(call[k].remove)

\* So do the collections published to the worker.
CollectCommands ==
    /\ \A i \in DOMAIN queue : queue[i].kind = "Control" =>
          queue[i].body.op = "collect" /\ Spares(queue[i].body.remove)
    /\ InHand("Control") => worker.cmd.body.op = "collect" /\ Spares(worker.cmd.body.remove)

\* A reliable store faults only when a collection finds a file missing.
CollectInv ==
    /\ health = "Faulted" => Settled
    /\ \A k \in Callers : CollectCall(k)
    /\ CollectCommands

StoreInv ==
    /\ GateInv
    /\ StoreTypeOK
    /\ StageInv
    /\ Careful => LogInv
    /\ Reliable => DiskInv /\ CollectInv

--------------------------------------------------------------------------------
(* Replay *)

LEMMA LeastNat ==
    ASSUME NEW S \in SUBSET Nat, S # {}
    PROVE  \E n \in S : \A m \in S : n <= m
<1> DEFINE R == {p \in Nat \X Nat : p[1] < p[2]}
<1>1. IsWellFoundedOn(R, Nat)
  BY NatLessThanWellFounded, Zenon DEF OpToRel
<1> HIDE DEF R
<1>2. PICK x \in S : \A y \in S : ~ (<<y, x>> \in R)
  BY <1>1, WFMin, Zenon
<1>3. \A y \in S : ~(y < x)
  BY <1>2, Zenon DEF R
<1> QED
  BY <1>3

\* Replay stops at the first gap.
LEMMA ReplayedSpec ==
    ASSUME NEW c \in Computers, DOMAIN journal[c] \subseteq 1 .. MaxGeneration
    PROVE  /\ Replayed(c) \in 0 .. MaxGeneration
           /\ 1 .. Replayed(c) \subseteq DOMAIN journal[c]
           /\ Replayed(c) + 1 \notin DOMAIN journal[c]
<1> USE LimitsAssumption
<1> DEFINE D == DOMAIN journal[c]
           S == {n \in Nat : n + 1 \notin D}
<1>1. MaxGeneration \in S
  OBVIOUS
<1>2. PICK n \in S : \A m \in S : n <= m
  BY <1>1, LeastNat, Zenon
<1>3. n \in 0 .. MaxGeneration /\ n + 1 \notin D
  BY <1>1, <1>2
<1>4. 1 .. n \subseteq D
  <2> SUFFICES ASSUME NEW m \in 1 .. n
               PROVE  m \in D
    BY Zenon
  <2>1. m - 1 \in Nat /\ ~(n <= m - 1) /\ (m - 1) + 1 = m
    BY <1>3
  <2>2. m - 1 \notin S
    BY <1>2, <2>1, Zenon
  <2> QED
    BY <2>1, <2>2, Zenon
<1>5. \E x \in 0 .. MaxGeneration : 1 .. x \subseteq D /\ x + 1 \notin D
  BY <1>3, <1>4, Zenon
<1> QED
  BY <1>5, Zenon DEF Replayed

\* A written prefix is replayed.
LEMMA ReplayedReaches ==
    ASSUME NEW c \in Computers, DOMAIN journal[c] \subseteq 1 .. MaxGeneration,
           NEW m \in Int, 1 .. m \subseteq DOMAIN journal[c]
    PROVE  m <= Replayed(c)
<1>1. /\ Replayed(c) \in 0 .. MaxGeneration
      /\ Replayed(c) + 1 \notin DOMAIN journal[c]
  BY ReplayedSpec, Zenon
<1> QED
  BY <1>1

\* A journal without a gap is replayed to its end.
LEMMA ReplayedIs ==
    ASSUME NEW c \in Computers, NEW n \in 0 .. MaxGeneration, DOMAIN journal[c] = 1 .. n
    PROVE  Replayed(c) = n
<1>0. MaxGeneration \in Nat /\ n \in Int /\ n >= 0
  BY LimitsAssumption
<1>1. DOMAIN journal[c] \subseteq 1 .. MaxGeneration
  BY <1>0
<1>2. /\ Replayed(c) \in 0 .. MaxGeneration
      /\ 1 .. Replayed(c) \subseteq 1 .. n
      /\ Replayed(c) + 1 \notin 1 .. n
  BY <1>1, ReplayedSpec, Zenon
<1>3. Replayed(c) = 0 \/ Replayed(c) \in 1 .. Replayed(c)
  BY <1>0, <1>2
<1> QED
  BY <1>0, <1>2, <1>3

\* Replay reads nothing but the computer's journal.
LEMMA ReplayKept ==
    ASSUME NEW c \in Computers, journal'[c] = journal[c]
    PROVE  Replayed(c)' = Replayed(c) /\ Content(c)' = Content(c)
<1>1. Replayed(c)' = Replayed(c)
  BY Zenon DEF Replayed
<1> QED
  BY <1>1, Zenon DEF Content

LEMMA JournalShape ==
    ASSUME NEW x \in Journals
    PROVE  DOMAIN x \subseteq 1 .. MaxGeneration /\ x \in [DOMAIN x -> Bodies]
BY Zenon DEF Journals

LEMMA CallShape ==
    ASSUME NEW x \in CallStates
    PROVE  /\ x.pc \in {"none", "collecting", "save", "write", "flush_all", "reach", "send"}
           /\ x.pc \in {"save", "write"} => x.id \in Computers /\ x.gen \in Nat
           /\ x.pc = "flush_all" => x.ok \in BOOLEAN /\ x.todo \subseteq Computers \X Nat
           /\ x.pc = "reach" => x.todo \subseteq Computers /\ x.reachable \subseteq Objects
           /\ x.pc = "send" => x.remove \subseteq Objects
BY Zenon DEF CallStates

--------------------------------------------------------------------------------
(* The gate inside the store *)

\* A restart begins with a new gate.
LEMMA RestartGate == Restarted => GateInv'
<1>1. Restarted => GateInit'
  BY Zenon DEF Restarted, GateInit
<1>2. GateInit' => GateInv'
  BY InitGate, PTL
<1> QED
  BY <1>1, <1>2, Zenon

\* Every step of the store is a step of the gate's users or a restart.
LEMMA StoreStepsGate ==
    ASSUME StoreInv, [StoreNext]_storeVars
    PROVE  [GateStep]_gateVars \/ Restarted
<1>0. /\ GateTypeOK
      /\ call \in [Callers -> CallStates]
      /\ objects \subseteq Objects
      /\ carrier \in [Computers -> CarrierStates]
      /\ journal \in [Computers -> Journals]
      /\ confirmed \in [Computers -> Nat]
      /\ durable \in [Computers -> Nat \cup {Absent}]
  BY Zenon DEF StoreInv, StoreTypeOK, GateTypeOK
<1>1. ASSUME NEW c \in Computers,
             \/ StoreOpenBegin(c) \/ StoreOpenFlush(c) \/ StoreOpenFault(c)
             \/ \E body \in Bodies : StorePrepare(c, body)
             \/ StorePublish(c) \/ StoreDetach(c)
      PROVE  GateStep
  <2>1. CarrierStarts(c) \/ CarrierSteps(c)
    BY <1>1, Zenon DEF StoreOpenBegin, StoreOpenFlush, StoreOpenFault, StorePrepare, StorePublish,
                StoreDetach, CarrierStarts, CarrierSteps
  <2> QED
    BY <2>1, Zenon DEF GateStep
<1>2. ASSUME NEW c \in Computers, StoreOpenRegister(c)
      PROVE  GateStep
  <2>1. DOMAIN journal[c] \subseteq 1 .. MaxGeneration
    BY <1>0, JournalShape, Zenon
  <2>2. Replayed(c) \in Nat
    BY <2>1, ReplayedSpec, LimitsAssumption
  <2>3. durable[c] <= confirmed[c] /\ ~(Replayed(c) < confirmed[c])
    BY <1>2, Zenon DEF StoreInv, StageInv, StoreOpenRegister, RecoverFails
  <2>4. Replayed(c) >= durable[c]
    BY <1>0, <2>2, <2>3 DEF Absent
  <2>5. CarrierSteps(c)
    BY <1>2, <2>2, <2>4, Zenon DEF StoreOpenRegister, CarrierSteps
  <2> QED
    BY <2>5, Zenon DEF GateStep
<1>3. ASSUME \/ StorePersisted \/ StoreCompleted \/ StoreFailed
             \/ StoreWorkerLoop
      PROVE  GateStep
  BY <1>3, Zenon DEF StorePersisted, StoreCompleted, StoreFailed, StoreWorkerLoop, WorkerSteps, GateStep
<1>4. ASSUME PersistObject \/ PersistJournal \/ PersistConfirmed \/ PersistTombstone
                 \/ \E o \in Objects : CollectObject(o)
      PROVE  UNCHANGED gateVars
  BY <1>4, Zenon DEF PersistObject, PersistJournal, PersistConfirmed, PersistTombstone, CollectObject,
              KeepForWorker
<1>5. ASSUME NEW k \in Callers, CallerSteps(k) \/ CallerRuns(k)
      PROVE  GateStep
  BY <1>5, Zenon DEF GateStep
<1>6. ASSUME NEW k \in Callers, NEW c \in Computers, NEW g \in 0 .. MaxGeneration,
             StoreFlush(k, c, g)
      PROVE  GateStep
  <2>1. g \in Nat
    BY LimitsAssumption
  <2> QED
    BY <1>5, <1>6, <2>1, Zenon DEF StoreFlush, CallerSteps
<1>7. ASSUME NEW k \in Callers, StoreFlushWake(k)
      PROVE  GateStep
  BY <1>5, <1>7, Zenon DEF StoreFlushWake, CallerRuns
<1>8. ASSUME NEW k \in Callers, NEW c \in Computers, NEW present \in BOOLEAN,
             Tombstone(k, c, present)
      PROVE  GateStep
  <2>1. [op |-> "tombstone", id |-> c, present |-> present] \in ControlBodies
    BY ControlAssumption, Zenon DEF StoreControlBodies
  <2> QED
    BY <1>5, <1>8, <2>1, Zenon DEF Tombstone, CallerSteps
<1>9. ASSUME NEW k \in Callers, NEW c \in Computers, SaveBegin(k, c)
      PROVE  GateStep
  <2>1. carrier[c].gen \in Nat
    BY <1>0, <1>9, CarrierShape, Zenon DEF SaveBegin
  <2> QED
    BY <1>5, <1>9, <2>1, Zenon DEF SaveBegin, CallerSteps
<1>10. ASSUME NEW k \in Callers, CollectFlush(k)
       PROVE  GateStep
  <2>1. call[k].todo \subseteq Computers \X Nat
    BY <1>0, <1>10, CallShape, Zenon DEF CollectFlush
  <2>2. PICK pair \in call[k].todo : Flush(k, pair[1], pair[2])
    BY <1>10, Zenon DEF CollectFlush
  <2>3. pair[1] \in Computers /\ pair[2] \in Nat
    BY <2>1, Zenon
  <2> QED
    BY <1>5, <2>2, <2>3, Zenon DEF CallerSteps
<1>11. ASSUME NEW k \in Callers, CollectSend(k)
       PROVE  GateStep \/ UNCHANGED gateVars
  <2>1. call[k].remove \subseteq Objects
    BY <1>0, <1>11, CallShape, Zenon DEF CollectSend
  <2>2. Cardinality(call[k].remove) \in Nat
    BY <2>1, ControlAssumption, FS_Subset, FS_CardinalityType, Zenon DEF Objects
  <2>3. [op |-> "collect", remove |-> call[k].remove] \in ControlBodies
    BY <2>1, ControlAssumption, Zenon DEF StoreControlBodies
  <2> QED
    BY <1>5, <1>11, <2>2, <2>3, Zenon DEF CollectSend, CallerSteps, Moves
<1>12. ASSUME NEW k \in Callers,
              \/ \E c \in Computers : DiscardExecution(k, c)
              \/ SaveCheck(k) \/ SaveWrite(k) \/ CollectBegin(k) \/ CollectFlushed(k)
              \/ CollectReach(k) \/ CollectList(k) \/ CollectReturn(k)
       PROVE  UNCHANGED gateVars
  BY <1>12, Zenon DEF DiscardExecution, SaveCheck, SaveWrite, CollectBegin, CollectFlushed, CollectReach,
               CollectList, CollectReturn, Moves
<1>13. ASSUME StoreCloseBegin \/ StoreClosing \/ StoreCloseMark
       PROVE  GateStep
  BY <1>13, Zenon DEF StoreCloseBegin, StoreClosing, StoreCloseMark, CloserRuns, GateStep
<1>14. Crash \/ Reopen => Restarted
  BY Zenon DEF Crash, Reopen
<1>15. UNCHANGED storeVars => UNCHANGED gateVars
  BY Zenon DEF storeVars
<1> QED
  BY <1>1, <1>2, <1>3, <1>4, <1>6, <1>7, <1>8, <1>9, <1>10, <1>11, <1>12, <1>13, <1>14, <1>15, Zenon
     DEF StoreNext

LEMMA StepStoreGate ==
    ASSUME StoreInv, [StoreNext]_storeVars
    PROVE  GateInv'
BY StoreStepsGate, StepGate, RestartGate, Zenon DEF StoreInv

--------------------------------------------------------------------------------
(* Types *)

DiskTypes ==
    /\ journal \in [Computers -> Journals]
    /\ confirmed \in [Computers -> Nat]
    /\ objects \subseteq Objects
    /\ tombstone \subseteq Computers
    /\ execution \in [Computers -> Nat \cup {Absent}]
    /\ stray \in [Computers -> SUBSET Nat]

WorkTypes ==
    /\ stage \in {"object", "journal", "confirmed", "done"}
    /\ removed \subseteq Objects
    /\ call \in [Callers -> CallStates]
    /\ lock \in Callers \cup {Closer, "free"}

HistoryTypes ==
    /\ log \in [Computers -> Seq(Bodies)]
    /\ reported \in [Computers -> Nat]

LEMMA TypesSplit ==
    StoreTypeOK <=>
        GateTypeOK /\ DiskTypes /\ WorkTypes /\ HistoryTypes /\ restarts \in Nat
BY Zenon DEF StoreTypeOK, DiskTypes, WorkTypes, HistoryTypes

\* The mutation in the worker's hands.
LEMMA HandShape ==
    ASSUME StoreInv, InHand("Mutation")
    PROVE  /\ worker.cmd \in Commands
           /\ worker.cmd.id \in Computers
           /\ worker.cmd.gen \in 1 .. MaxGeneration
           /\ worker.cmd.body \in Bodies
           /\ durable[worker.cmd.id] < worker.cmd.gen
           /\ worker.cmd.gen <= admitted[worker.cmd.id]
           /\ durable[worker.cmd.id] \in Nat
<1>1. worker.cmd \in Commands
  BY WorkerShape, Zenon DEF StoreInv, StoreTypeOK, GateTypeOK, InHand
<1>2. worker.cmd.id \in Computers /\ worker.cmd.gen \in Nat /\ worker.cmd.body \in Bodies
  BY <1>1 DEF InHand, Commands, Stop
<1>3. /\ durable[worker.cmd.id] < worker.cmd.gen
      /\ worker.cmd.gen <= admitted[worker.cmd.id]
      /\ admitted[worker.cmd.id] # Absent => durable[worker.cmd.id] # Absent
      /\ admitted[worker.cmd.id] <= MaxGeneration
  BY <1>2, Zenon DEF StoreInv, GateInv, OrderInv, GenerationOrder, CarrierAgrees, InHand, StageInv
<1>4. /\ durable[worker.cmd.id] \in Nat \cup {Absent}
      /\ admitted[worker.cmd.id] \in Nat \cup {Absent}
      /\ MaxGeneration \in Nat
  BY <1>2, LimitsAssumption, Zenon DEF StoreInv, StoreTypeOK, GateTypeOK
<1> QED
  BY <1>1, <1>2, <1>3, <1>4 DEF Absent

LEMMA CarrierTypes ==
    ASSUME StoreInv, NEW c \in Computers,
           \/ StoreOpenBegin(c) \/ StoreOpenFlush(c) \/ StoreOpenFault(c) \/ StoreOpenRegister(c)
           \/ \E body \in Bodies : StorePrepare(c, body)
           \/ StorePublish(c) \/ StoreDetach(c)
    PROVE  DiskTypes' /\ WorkTypes' /\ HistoryTypes'
<1>0. DiskTypes /\ WorkTypes /\ HistoryTypes /\ GateTypeOK
  BY TypesSplit, Zenon DEF StoreInv
<1>1. CASE StoreOpenRegister(c)
  <2>1. /\ DOMAIN journal[c] \subseteq 1 .. MaxGeneration
        /\ journal[c] \in [DOMAIN journal[c] -> Bodies]
    BY <1>0, JournalShape, Zenon DEF DiskTypes
  <2>2. Replayed(c) \in Nat /\ 1 .. Replayed(c) \subseteq DOMAIN journal[c]
    BY <2>1, ReplayedSpec, LimitsAssumption
  <2>3. [g \in 1 .. Replayed(c) |-> journal[c][g]] \in Seq(Bodies)
    <3> DEFINE n == Replayed(c)
    <3>1. \A g \in 1 .. n : journal[c][g] \in Bodies
      BY <2>1, <2>2, Zenon
    <3> HIDE DEF n
    <3>2. [g \in 1 .. n |-> journal[c][g]] \in [1 .. n -> Bodies]
      BY <3>1, Zenon
    <3> QED
      BY <2>2, <3>2 DEF n
  <2>4. DiskTypes' /\ WorkTypes'
    BY <1>0, <1>1, <2>2, Zenon DEF StoreOpenRegister, DiskTypes, WorkTypes, KeepCalls, workVars, callVars
  <2>5. HistoryTypes'
    BY <1>0, <1>1, <2>2, <2>3, Zenon DEF StoreOpenRegister, HistoryTypes, KeepHistory, historyVars
  <2> QED
    BY <2>4, <2>5, Zenon
<1>2. CASE StorePublish(c)
  <2>1. carrier[c].body \in Bodies
    BY <1>0, <1>2, CarrierShape, Zenon DEF StorePublish, Publish, GateTypeOK
  <2> QED
    BY <1>0, <1>2, <2>1 DEF StorePublish, DiskTypes, WorkTypes, HistoryTypes, KeepDisk, KeepCalls,
                            diskVars, workVars, callVars
<1>3. ASSUME KeepDisk, KeepCalls, KeepHistory
      PROVE  DiskTypes' /\ WorkTypes' /\ HistoryTypes'
  BY <1>0, <1>3, Zenon DEF DiskTypes, WorkTypes, HistoryTypes, KeepDisk, KeepCalls, KeepHistory,
                    diskVars, workVars, callVars, historyVars
<1> QED
  BY <1>1, <1>2, <1>3, Zenon DEF StoreOpenBegin, StoreOpenFlush, StoreOpenFault, StorePrepare, StoreDetach

LEMMA WorkerTypes ==
    ASSUME StoreInv,
           \/ PersistObject \/ PersistJournal \/ PersistConfirmed \/ StorePersisted
           \/ PersistTombstone \/ (\E o \in Objects : CollectObject(o))
           \/ StoreCompleted \/ StoreFailed \/ StoreWorkerLoop
    PROVE  DiskTypes' /\ WorkTypes' /\ HistoryTypes'
<1>0. DiskTypes /\ WorkTypes /\ HistoryTypes /\ GateTypeOK
  BY TypesSplit, Zenon DEF StoreInv
<1>1. CASE PersistObject
  BY <1>0, <1>1, Zenon DEF PersistObject, DiskTypes, WorkTypes, HistoryTypes, KeepForWorker, callVars,
                    historyVars
<1>2. CASE PersistJournal
  <2>1. /\ worker.cmd.id \in Computers /\ worker.cmd.gen \in 1 .. MaxGeneration
        /\ worker.cmd.body \in Bodies
    BY <1>2, HandShape, Zenon DEF PersistJournal
  <2> DEFINE c == worker.cmd.id
             D == DOMAIN journal[c] \cup {worker.cmd.gen}
             x == [g \in D |-> IF g = worker.cmd.gen THEN worker.cmd.body ELSE journal[c][g]]
  <2>2. x \in [D -> Bodies] /\ D \in SUBSET (1 .. MaxGeneration)
    BY <1>0, <2>1, JournalShape, Zenon DEF DiskTypes
  <2>3. x \in Journals
    BY <2>2, Zenon DEF Journals
  <2>4. /\ journal' = [journal EXCEPT ![c] = x]
        /\ stray' = [stray EXCEPT ![c] = stray[c] \ {worker.cmd.gen}]
    BY <1>2, Zenon DEF PersistJournal
  <2> HIDE DEF x
  <2>5. journal' \in [Computers -> Journals]
    BY <1>0, <2>1, <2>3, <2>4, Zenon DEF DiskTypes
  <2>6. stray' \in [Computers -> SUBSET Nat]
    BY <1>0, <2>1, <2>4, Zenon DEF DiskTypes
  <2> QED
    BY <1>0, <1>2, <2>5, <2>6, Zenon DEF PersistJournal, DiskTypes, WorkTypes, HistoryTypes,
                                  KeepForWorker, callVars, historyVars
<1>3. CASE PersistConfirmed
  <2>1. worker.cmd.id \in Computers /\ worker.cmd.gen \in Nat
    BY <1>3, HandShape, LimitsAssumption DEF PersistConfirmed
  <2> QED
    BY <1>0, <1>3, <2>1, Zenon DEF PersistConfirmed, DiskTypes, WorkTypes, HistoryTypes, KeepForWorker,
                            callVars, historyVars
<1>4. CASE StorePersisted
  <2>1. worker.cmd.id \in Computers /\ worker.cmd.gen \in Nat
    BY <1>4, HandShape, LimitsAssumption DEF StorePersisted, WorkerPersisted, InHand
  <2> QED
    BY <1>0, <1>4, <2>1, Zenon DEF StorePersisted, DiskTypes, WorkTypes, HistoryTypes, diskVars, callVars
<1>5. CASE PersistTombstone
  <2>1. worker.cmd.body \in ControlBodies
    BY <1>0, <1>5, WorkerShape DEF PersistTombstone, InHand, Commands, Stop, GateTypeOK
  <2>2. worker.cmd.body.op = "tombstone" => worker.cmd.body.id \in Computers
    BY <2>1, ControlAssumption, Zenon DEF StoreControlBodies
  <2> QED
    BY <1>0, <1>5, <2>2, Zenon DEF PersistTombstone, DiskTypes, WorkTypes, HistoryTypes, KeepForWorker,
                            callVars, historyVars
<1>6. ASSUME NEW o \in Objects, CollectObject(o)
      PROVE  DiskTypes' /\ WorkTypes' /\ HistoryTypes'
  BY <1>0, <1>6, Zenon DEF CollectObject, DiskTypes, WorkTypes, HistoryTypes, KeepForWorker, callVars,
                    historyVars
<1>7. CASE StoreCompleted
  BY <1>0, <1>7, Zenon DEF StoreCompleted, DiskTypes, WorkTypes, HistoryTypes, diskVars, callVars,
                    historyVars
<1>8. CASE StoreFailed
  <2>1. stray' \in [Computers -> SUBSET Nat]
    <3>1. CASE InHand("Mutation")
      <4>1. worker.cmd.id \in Computers /\ worker.cmd.gen \in Nat
        BY <3>1, HandShape, LimitsAssumption
      <4> QED
        BY <1>0, <1>8, <4>1 DEF StoreFailed, Interrupted, DiskTypes
    <3> QED
      BY <1>0, <1>8, <3>1, Zenon DEF StoreFailed, Interrupted, DiskTypes
  <2> QED
    BY <1>0, <1>8, <2>1, Zenon DEF StoreFailed, DiskTypes, WorkTypes, HistoryTypes, callVars, historyVars
<1>9. CASE StoreWorkerLoop
  BY <1>0, <1>9, Zenon DEF StoreWorkerLoop, DiskTypes, WorkTypes, HistoryTypes, KeepDisk, KeepCalls,
                    KeepHistory, diskVars, workVars, callVars, historyVars
<1> QED
  BY <1>1, <1>2, <1>3, <1>4, <1>5, <1>6, <1>7, <1>8, <1>9, Zenon

LEMMA CallerTypes ==
    ASSUME StoreInv, NEW k \in Callers,
           \/ (\E c \in Computers, g \in 0 .. MaxGeneration : StoreFlush(k, c, g))
           \/ StoreFlushWake(k)
           \/ (\E c \in Computers, present \in BOOLEAN : Tombstone(k, c, present))
           \/ (\E c \in Computers : SaveBegin(k, c) \/ DiscardExecution(k, c))
           \/ SaveCheck(k) \/ SaveWrite(k)
           \/ CollectBegin(k) \/ CollectFlush(k) \/ CollectFlushed(k) \/ CollectReach(k)
           \/ CollectList(k) \/ CollectSend(k) \/ CollectReturn(k)
    PROVE  DiskTypes' /\ WorkTypes' /\ HistoryTypes'
<1>0. DiskTypes /\ WorkTypes /\ HistoryTypes /\ GateTypeOK
  BY TypesSplit, Zenon DEF StoreInv
<1>1. ASSUME KeepDisk, KeepHistory, NEW to \in CallStates, call' = [call EXCEPT ![k] = to],
             lock' \in {lock, k, "free"}
      PROVE  DiskTypes' /\ WorkTypes' /\ HistoryTypes'
  BY <1>0, <1>1, Zenon DEF DiskTypes, WorkTypes, HistoryTypes, KeepDisk, KeepHistory,
                    diskVars, workVars, historyVars
<1>2. ASSUME KeepDisk, KeepCalls, KeepHistory
      PROVE  DiskTypes' /\ WorkTypes' /\ HistoryTypes'
  BY <1>0, <1>2, Zenon DEF DiskTypes, WorkTypes, HistoryTypes, KeepDisk, KeepCalls, KeepHistory,
                    diskVars, workVars, callVars, historyVars
<1>3. [pc |-> "none"] \in CallStates /\ [pc |-> "collecting"] \in CallStates
  BY Zenon DEF CallStates
<1>4. ASSUME NEW c \in Computers, SaveBegin(k, c)
      PROVE  DiskTypes' /\ WorkTypes' /\ HistoryTypes'
  <2>1. carrier[c].gen \in Nat
    BY <1>0, <1>4, CarrierShape, Zenon DEF SaveBegin, GateTypeOK
  <2>2. [pc |-> "save", id |-> c, gen |-> carrier[c].gen] \in CallStates
    BY <2>1, Zenon DEF CallStates
  <2> QED
    BY <1>1, <1>4, <2>2, Zenon DEF SaveBegin
<1>5. ASSUME NEW c \in Computers, DiscardExecution(k, c)
      PROVE  DiskTypes' /\ WorkTypes' /\ HistoryTypes'
  BY <1>0, <1>5, Zenon DEF DiscardExecution, DiskTypes, WorkTypes, HistoryTypes, KeepHistory, workVars,
                    callVars, historyVars
<1>6. CASE SaveCheck(k)
  <2>1. call[k] \in CallStates /\ call[k].pc = "save"
    BY <1>0, <1>6, Zenon DEF SaveCheck, WorkTypes
  <2>2. [call[k] EXCEPT !.pc = "write"] \in CallStates
    BY <2>1, Zenon DEF CallStates
  <2> QED
    BY <1>1, <1>3, <1>6, <2>2, Zenon DEF SaveCheck, Moves
<1>7. CASE SaveWrite(k)
  <2>1. call[k].id \in Computers /\ call[k].gen \in Nat
    BY <1>0, <1>7, CallShape, Zenon DEF SaveWrite, WorkTypes
  <2> QED
    BY <1>0, <1>3, <1>7, <2>1, Zenon DEF SaveWrite, Moves, DiskTypes, WorkTypes, HistoryTypes, KeepHistory,
                                  workVars, historyVars
<1>8. CASE CollectBegin(k)
  <2> DEFINE todo == {<<c, admitted[c]>> : c \in {d \in Computers : admitted[d] # Absent}}
  <2>1. todo \subseteq Computers \X Nat
    BY <1>0 DEF GateTypeOK
  <2>2. [pc |-> "flush_all", ok |-> TRUE, todo |-> todo] \in CallStates
    BY <2>1, Zenon DEF CallStates
  <2> QED
    BY <1>1, <1>8, <2>2, Zenon DEF CollectBegin, Moves
<1>9. CASE CollectFlush(k)
  <2>1. call[k] \in CallStates /\ call[k].pc = "flush_all"
    BY <1>0, <1>9, Zenon DEF CollectFlush, WorkTypes
  <2>2. PICK pair \in call[k].todo :
            call' = [call EXCEPT ![k].todo = @ \ {pair}, ![k].ok = FALSE]
    BY <1>9, Zenon DEF CollectFlush
  <2>3. [call[k] EXCEPT !.todo = @ \ {pair}, !.ok = FALSE] \in CallStates
    BY <2>1, Zenon DEF CallStates
  <2>4. call' = [call EXCEPT ![k] = [call[k] EXCEPT !.todo = @ \ {pair}, !.ok = FALSE]]
    BY <1>0, <2>2, Zenon DEF WorkTypes
  <2> QED
    BY <1>1, <1>9, <2>3, <2>4, Zenon DEF CollectFlush
<1>10. CASE CollectFlushed(k)
  <2>1. [pc |-> "reach", todo |-> Computers, reachable |-> {}] \in CallStates
    BY Zenon DEF CallStates
  <2> QED
    BY <1>1, <1>3, <1>10, <2>1, Zenon DEF CollectFlushed, Moves
<1>11. CASE CollectReach(k)
  <2>1. call[k] \in CallStates /\ call[k].pc = "reach"
    BY <1>0, <1>11, Zenon DEF CollectReach, WorkTypes
  <2>2. ASSUME NEW c \in call[k].todo
        PROVE  [call[k] EXCEPT !.todo = @ \ {c}, !.reachable = @ \cup ({Content(c)} \cap Objects)]
                   \in CallStates
    BY <2>1, Zenon DEF CallStates
  <2> QED
    BY <1>1, <1>3, <1>11, <2>2, Zenon DEF CollectReach, Moves
<1>12. CASE CollectList(k)
  <2>1. [pc |-> "send", remove |-> objects \ call[k].reachable] \in CallStates
    BY <1>0, Zenon DEF CallStates, DiskTypes
  <2> QED
    BY <1>1, <1>12, <2>1, Zenon DEF CollectList, Moves
<1>13. CASE CollectSend(k)
  BY <1>1, <1>3, <1>13, Zenon DEF CollectSend, Moves
<1>14. CASE CollectReturn(k)
  BY <1>1, <1>3, <1>14, Zenon DEF CollectReturn, Moves
<1> QED
  BY <1>2, <1>4, <1>5, <1>6, <1>7, <1>8, <1>9, <1>10, <1>11, <1>12, <1>13, <1>14, Zenon
     DEF StoreFlush, StoreFlushWake, Tombstone

LEMMA RestartTypes ==
    ASSUME StoreInv, Crash \/ Reopen
    PROVE  DiskTypes' /\ WorkTypes' /\ HistoryTypes'
<1>0. DiskTypes /\ WorkTypes /\ HistoryTypes /\ GateTypeOK
  BY TypesSplit, Zenon DEF StoreInv
<1>1. stray' \in [Computers -> SUBSET Nat]
  <2>1. CASE InHand("Mutation")
    <3>1. worker.cmd.id \in Computers /\ worker.cmd.gen \in Nat
      BY <2>1, HandShape, LimitsAssumption
    <3> QED
      BY <1>0, <3>1 DEF Crash, Reopen, Interrupted, DiskTypes
  <2> QED
    BY <1>0, <2>1, Zenon DEF Crash, Reopen, Interrupted, DiskTypes
<1>2. [pc |-> "none"] \in CallStates
  BY Zenon DEF CallStates
<1> QED
  BY <1>0, <1>1, <1>2, Zenon DEF Crash, Reopen, Restarted, DiskTypes, WorkTypes, HistoryTypes

LEMMA CloserTypes ==
    ASSUME StoreInv, StoreCloseBegin \/ StoreClosing \/ StoreCloseMark
    PROVE  DiskTypes' /\ WorkTypes' /\ HistoryTypes'
<1>0. DiskTypes /\ WorkTypes /\ HistoryTypes
  BY TypesSplit, Zenon DEF StoreInv
<1> QED
  BY <1>0, Zenon DEF StoreCloseBegin, StoreClosing, StoreCloseMark, DiskTypes, WorkTypes, HistoryTypes,
              KeepDisk, KeepCalls, KeepHistory, diskVars, workVars, callVars, historyVars

\* A call on the store keeps the carriers, the worker and the journals.
LEMMA CallsKeep ==
    ASSUME NEW k \in Callers,
           \/ (\E c \in Computers, g \in 0 .. MaxGeneration : StoreFlush(k, c, g))
           \/ StoreFlushWake(k)
           \/ (\E c \in Computers, present \in BOOLEAN : Tombstone(k, c, present))
           \/ (\E c \in Computers : SaveBegin(k, c) \/ DiscardExecution(k, c))
           \/ SaveCheck(k) \/ SaveWrite(k)
           \/ CollectBegin(k) \/ CollectFlush(k) \/ CollectFlushed(k) \/ CollectReach(k)
           \/ CollectList(k) \/ CollectSend(k) \/ CollectReturn(k)
    PROVE  UNCHANGED <<health, admitted, durable, worker, carrier, journal, confirmed, objects,
                       stray, stage, log, reported, restarts>>
<1> USE DEF KeepDisk, KeepHistory, diskVars, workVars, historyVars, Moves, gateVars
<1>1. CASE (\E c \in Computers, g \in 0 .. MaxGeneration : StoreFlush(k, c, g))
               \/ StoreFlushWake(k)
               \/ (\E c \in Computers, present \in BOOLEAN : Tombstone(k, c, present))
  BY <1>1, Zenon DEF StoreFlush, StoreFlushWake, Tombstone, Flush, FlushWake, FlushTurn, PublishControl,
              CallControl
<1>2. CASE \E c \in Computers : SaveBegin(k, c) \/ DiscardExecution(k, c)
  BY <1>2, Zenon DEF SaveBegin, DiscardExecution, Flush, FlushTurn
<1>3. CASE SaveCheck(k) \/ SaveWrite(k) \/ CollectBegin(k) \/ CollectFlushed(k)
               \/ CollectReach(k) \/ CollectList(k) \/ CollectReturn(k)
  BY <1>3, Zenon DEF SaveCheck, SaveWrite, CollectBegin, CollectFlushed, CollectReach, CollectList,
              CollectReturn
<1>4. CASE CollectFlush(k)
  BY <1>4, Zenon DEF CollectFlush, Flush, FlushTurn
<1>5. CASE CollectSend(k)
  BY <1>5, Zenon DEF CollectSend, CallControl
<1> QED
  BY <1>1, <1>2, <1>3, <1>4, <1>5, Zenon

\* So does closing it, which keeps the calls as well.
LEMMA ClosingKeeps ==
    ASSUME StoreCloseBegin \/ StoreClosing \/ StoreCloseMark
    PROVE  UNCHANGED <<admitted, durable, worker, carrier, caller, call, diskVars, workVars,
                       restarts, log, reported>>
BY Zenon DEF StoreCloseBegin, StoreClosing, StoreCloseMark, CloseBegin, CloseDrain, CloseStopWait,
       CloseStop, CloseJoin, CloseMark, CloseUnchanged, KeepDisk, KeepCalls, KeepHistory, callVars,
       historyVars

LEMMA StepRestarts ==
    ASSUME [StoreNext]_storeVars
    PROVE  restarts' = restarts \/ restarts' = restarts + 1
<1>1. ASSUME NEW c \in Computers,
             \/ StoreOpenBegin(c) \/ StoreOpenFlush(c) \/ StoreOpenFault(c)
             \/ StoreOpenRegister(c)
             \/ \E body \in Bodies : StorePrepare(c, body)
             \/ StorePublish(c) \/ StoreDetach(c)
      PROVE  restarts' = restarts
  BY <1>1, Zenon DEF StoreOpenBegin, StoreOpenFlush, StoreOpenFault, StoreOpenRegister, StorePrepare,
              StorePublish, StoreDetach, KeepDisk
<1>2. ASSUME \/ PersistObject \/ PersistJournal \/ PersistConfirmed \/ StorePersisted
             \/ PersistTombstone \/ (\E o \in Objects : CollectObject(o))
             \/ StoreCompleted \/ StoreFailed \/ StoreWorkerLoop
      PROVE  restarts' = restarts
  BY <1>2, Zenon DEF PersistObject, PersistJournal, PersistConfirmed, StorePersisted, PersistTombstone,
              CollectObject, StoreCompleted, StoreFailed, StoreWorkerLoop, KeepDisk, KeepForWorker
<1>3. Crash \/ Reopen => restarts' = restarts + 1
  BY Zenon DEF Crash, Reopen, Restarted
<1>4. UNCHANGED storeVars => restarts' = restarts
  BY Zenon DEF storeVars
<1> QED
  BY <1>1, <1>2, <1>3, <1>4, CallsKeep, ClosingKeeps, Zenon DEF StoreNext

LEMMA StepStoreTypes ==
    ASSUME StoreInv, [StoreNext]_storeVars
    PROVE  StoreTypeOK'
<1>1. DiskTypes' /\ WorkTypes' /\ HistoryTypes'
  <2>1. CASE UNCHANGED storeVars
    <3>1. DiskTypes /\ WorkTypes /\ HistoryTypes
      BY TypesSplit, Zenon DEF StoreInv
    <3> QED
      BY <2>1, <3>1, Zenon DEF DiskTypes, WorkTypes, HistoryTypes, storeVars, diskVars, workVars, callVars,
                        historyVars
  <2>2. CASE StoreNext
    BY <2>2, CarrierTypes, WorkerTypes, CallerTypes, CloserTypes, RestartTypes, Zenon DEF StoreNext
  <2> QED
    BY <2>1, <2>2, Zenon
<1>2. GateTypeOK'
  BY StepStoreGate, Zenon DEF GateInv
<1>3. restarts' \in Nat
  BY StepRestarts DEF StoreInv, StoreTypeOK
<1> QED
  BY <1>1, <1>2, <1>3, Zenon DEF StoreTypeOK, DiskTypes, WorkTypes, HistoryTypes

--------------------------------------------------------------------------------
(* Stages *)

\* Nothing StageInv reads changes but the carriers.
LEMMA StageKept ==
    ASSUME StageInv, UNCHANGED <<admitted, durable, confirmed, stage>>,
           worker' = worker \/ (stage = "object" /\ stage' = "object"),
           \A c \in Computers : carrier'[c].pc = "reserved" =>
               carrier'[c].gen < MaxGeneration
    PROVE  StageInv'
BY Zenon DEF StageInv, InHand

\* What StageInv and the types say of one computer, ready for arithmetic.
LEMMA StageBounds ==
    ASSUME StoreInv, NEW c \in Computers
    PROVE  /\ admitted[c] \in Int /\ durable[c] \in Int /\ confirmed[c] \in Nat
           /\ durable[c] <= confirmed[c]
           /\ admitted[c] <= MaxGeneration
           /\ carrier[c].pc = "reserved" => carrier[c].gen < MaxGeneration
           /\ MaxGeneration \in Nat
<1>1. /\ admitted[c] \in Nat \cup {Absent}
      /\ durable[c] \in Nat \cup {Absent}
      /\ confirmed[c] \in Nat
  BY Zenon DEF StoreInv, StoreTypeOK, GateTypeOK
<1>2. admitted[c] \in Int /\ durable[c] \in Int
  BY <1>1 DEF Absent
<1>3. /\ durable[c] <= confirmed[c]
      /\ admitted[c] <= MaxGeneration
      /\ carrier[c].pc = "reserved" => carrier[c].gen < MaxGeneration
  BY Zenon DEF StoreInv, StageInv
<1> QED
  BY <1>1, <1>2, <1>3, LimitsAssumption, Zenon

LEMMA CarrierStages ==
    ASSUME StoreInv, NEW c \in Computers,
           \/ StoreOpenBegin(c) \/ StoreOpenFlush(c) \/ StoreOpenFault(c) \/ StoreOpenRegister(c)
           \/ \E body \in Bodies : StorePrepare(c, body)
           \/ StorePublish(c) \/ StoreDetach(c)
    PROVE  StageInv'
<1>0. /\ carrier \in [Computers -> CarrierStates]
      /\ admitted \in [Computers -> Nat \cup {Absent}]
      /\ durable \in [Computers -> Nat \cup {Absent}]
      /\ confirmed \in [Computers -> Nat]
      /\ journal \in [Computers -> Journals]
      /\ MaxGeneration \in Nat
      /\ StageInv
  BY LimitsAssumption, Zenon DEF StoreInv, StoreTypeOK, GateTypeOK
<1>1. ASSUME NEW x, carrier' = [carrier EXCEPT ![c] = x],
             x.pc = "reserved" => x.gen < MaxGeneration,
             UNCHANGED <<admitted, durable, confirmed, stage, worker>>
      PROVE  StageInv'
  <2>1. \A d \in Computers : carrier'[d].pc = "reserved" => carrier'[d].gen < MaxGeneration
    BY <1>0, <1>1, Zenon DEF StageInv
  <2> QED
    BY <1>0, <1>1, <2>1, StageKept, Zenon
<1>2. CASE StoreOpenRegister(c)
  <2>1. DOMAIN journal[c] \subseteq 1 .. MaxGeneration
    BY <1>0, JournalShape, Zenon
  <2>2. Replayed(c) \in 0 .. MaxGeneration
    BY <2>1, ReplayedSpec, Zenon
  <2>3. durable[c] <= Replayed(c) /\ confirmed[c] <= Replayed(c)
    <3>1. ~(Replayed(c) < confirmed[c])
      BY <1>2, Zenon DEF StoreOpenRegister, RecoverFails
    <3>2. durable[c] \in Int /\ confirmed[c] \in Nat /\ durable[c] <= confirmed[c]
      BY StageBounds, Zenon
    <3>3. Replayed(c) \in Int
      BY <2>2
    <3> QED
      BY <3>1, <3>2, <3>3
  <2>4. /\ OpenRegister(c, Replayed(c))
        /\ confirmed' = [confirmed EXCEPT ![c] = Replayed(c)]
        /\ UNCHANGED <<stage, worker>>
    BY <1>2, Zenon DEF StoreOpenRegister, OpenRegister, workVars
  <2>5. InHand("Mutation") => worker.cmd.id # c
    <3> SUFFICES ASSUME InHand("Mutation"), worker.cmd.id = c
                 PROVE  FALSE
      BY Zenon
    <3>1. /\ durable[worker.cmd.id] < worker.cmd.gen
          /\ worker.cmd.gen <= admitted[worker.cmd.id]
          /\ worker.cmd.gen \in 1 .. MaxGeneration
      BY HandShape, Zenon
    <3>2. durable[c] = admitted[c]
      BY <2>4, Zenon DEF StoreInv, GateInv, OrderInv, CarrierAgrees, OpenRegister
    <3>3. durable[c] \in Int /\ admitted[c] \in Int /\ MaxGeneration \in Nat
      BY StageBounds, Zenon
    <3> QED
      BY <3>1, <3>2, <3>3
  <2>6. \A d \in Computers :
            /\ admitted'[d] <= MaxGeneration
            /\ carrier'[d].pc = "reserved" => carrier'[d].gen < MaxGeneration
            /\ durable'[d] <= confirmed'[d]
    <3> TAKE d \in Computers
    <3> DEFINE r == Replayed(c)
    <3>1. /\ admitted' = admitted \/ admitted' = [admitted EXCEPT ![c] = r]
          /\ durable' = durable \/ durable' = [durable EXCEPT ![c] = r]
          /\ \E x : carrier' = [carrier EXCEPT ![c] = x] /\ x.pc # "reserved"
          /\ confirmed' = [confirmed EXCEPT ![c] = r]
      BY <2>4, Zenon DEF OpenRegister
    <3>2. r \in Int /\ r <= MaxGeneration /\ durable[c] <= r
      BY <1>0, <2>2, <2>3
    <3> HIDE DEF r
    <3>3. CASE d = c
      <4>1. /\ admitted'[d] = admitted[d] \/ admitted'[d] = r
            /\ durable'[d] = durable[d] \/ durable'[d] = r
            /\ carrier'[d].pc # "reserved" /\ confirmed'[d] = r
        BY <1>0, <3>1, <3>3, Zenon
      <4> QED
        BY <3>2, <3>3, <4>1, StageBounds
    <3>4. CASE d # c
      <4>1. /\ admitted'[d] = admitted[d] /\ durable'[d] = durable[d]
            /\ carrier'[d] = carrier[d] /\ confirmed'[d] = confirmed[d]
        BY <1>0, <3>1, <3>4, Zenon
      <4> QED
        BY <4>1, StageBounds, Zenon
    <3> QED
      BY <3>3, <3>4, Zenon
  <2>7. InHand("Mutation") => confirmed'[worker.cmd.id] = confirmed[worker.cmd.id]
    BY <1>0, <2>4, <2>5
  <2> QED
    BY <1>0, <2>4, <2>6, <2>7, Zenon DEF StageInv, InHand
<1>3. CASE StorePublish(c)
  <2>1. carrier[c].pc = "reserved" /\ carrier[c].gen \in Nat /\ carrier[c].gen < MaxGeneration
    BY <1>0, <1>3, CarrierShape, Zenon DEF StorePublish, Publish, StageInv
  <2>2. /\ admitted' = [admitted EXCEPT ![c] = carrier[c].gen + 1]
        /\ carrier' = [carrier EXCEPT ![c] = [pc |-> "attached", gen |-> carrier[c].gen + 1]]
        /\ UNCHANGED <<durable, confirmed, stage, worker>>
    BY <1>3, Zenon DEF StorePublish, Publish, KeepDisk, diskVars, workVars
  <2>3. \A d \in Computers :
            /\ admitted'[d] <= MaxGeneration
            /\ carrier'[d].pc = "reserved" => carrier'[d].gen < MaxGeneration
    BY <1>0, <2>1, <2>2 DEF StageInv, Absent
  <2> QED
    BY <1>0, <2>2, <2>3, Zenon DEF StageInv, InHand
<1>4. ASSUME NEW body \in Bodies, StorePrepare(c, body)
      PROVE  StageInv'
  BY <1>1, <1>4, Zenon DEF StorePrepare, Prepare, KeepDisk, diskVars, workVars
<1>5. CASE StoreOpenBegin(c) \/ StoreOpenFault(c) \/ StoreDetach(c)
  BY <1>1, <1>5, Zenon DEF StoreOpenBegin, StoreOpenFault, StoreDetach, OpenBegin, OpenFault, Detach,
                    DropReservation, KeepDisk, diskVars, workVars
<1>6. CASE StoreOpenFlush(c)
  <2>1. /\ carrier'[c].pc # "reserved"
        /\ \A d \in Computers \ {c} : carrier'[d] = carrier[d]
        /\ UNCHANGED <<admitted, durable, confirmed, stage, worker>>
    <3>1. CASE OpenFlushAdmitted(c)
      BY <1>0, <1>6, <3>1, Zenon DEF StoreOpenFlush, OpenFlushAdmitted, KeepDisk, diskVars, workVars
    <3>2. CASE OpenFlushWait(c)
      <4> DEFINE outcome == FlushOutcome(c, carrier[c].gen)
      <4>1. /\ carrier[c].pc = "flushing"
            /\ carrier' = [carrier EXCEPT ![c] =
                  CASE outcome = "wait" -> carrier[c]
                    [] outcome = "Ok" -> [pc |-> "recovering"]
                    [] OTHER -> [pc |-> "detached"]]
            /\ UNCHANGED <<admitted, durable, confirmed, stage, worker>>
        BY <1>6, <3>2, Zenon DEF StoreOpenFlush, OpenFlushWait, KeepDisk, diskVars, workVars
      <4> HIDE DEF outcome
      <4> QED
        BY <1>0, <4>1, Zenon
    <3> QED
      BY <1>6, <3>1, <3>2, Zenon DEF StoreOpenFlush
  <2>2. \A d \in Computers : carrier'[d].pc = "reserved" => carrier'[d].gen < MaxGeneration
    BY <1>0, <2>1, Zenon DEF StageInv
  <2> QED
    BY <1>0, <2>1, <2>2, StageKept, Zenon
<1> QED
  BY <1>2, <1>3, <1>4, <1>5, <1>6, Zenon

LEMMA WorkerStages ==
    ASSUME StoreInv,
           \/ PersistObject \/ PersistJournal \/ PersistConfirmed \/ StorePersisted
           \/ PersistTombstone \/ (\E o \in Objects : CollectObject(o))
           \/ StoreCompleted \/ StoreFailed \/ StoreWorkerLoop
    PROVE  StageInv'
<1>0. /\ durable \in [Computers -> Nat \cup {Absent}]
      /\ confirmed \in [Computers -> Nat]
      /\ StageInv
  BY Zenon DEF StoreInv, StoreTypeOK, GateTypeOK
<1>1. CASE PersistObject \/ PersistJournal \/ PersistTombstone
               \/ (\E o \in Objects : CollectObject(o))
  <2>1. /\ UNCHANGED <<admitted, durable, confirmed, carrier, worker>>
        /\ worker.pc = "busy"
        /\ InHand("Mutation") => stage' # "done"
    BY <1>1, Zenon DEF PersistObject, PersistJournal, PersistTombstone, CollectObject, KeepForWorker,
                gateVars, InHand
  <2> QED
    BY <1>0, <2>1, Zenon DEF StageInv, InHand
<1>2. CASE PersistConfirmed
  <2>1. /\ worker.cmd.id \in Computers
        /\ worker.cmd.gen \in Nat /\ durable[worker.cmd.id] < worker.cmd.gen
    BY <1>2, HandShape, LimitsAssumption DEF PersistConfirmed
  <2>2. /\ UNCHANGED <<admitted, durable, carrier, worker>>
        /\ worker.pc = "busy"
        /\ confirmed' = [confirmed EXCEPT ![worker.cmd.id] = worker.cmd.gen]
    BY <1>2, Zenon DEF PersistConfirmed, KeepForWorker, gateVars, InHand
  <2>3. ASSUME NEW c \in Computers
        PROVE  durable'[c] <= confirmed'[c]
    <3>1. durable'[c] = durable[c]
      BY <2>2, Zenon
    <3>2. CASE c = worker.cmd.id
      <4>1. confirmed'[c] = worker.cmd.gen
        BY <1>0, <2>2, <3>2, Zenon
      <4> QED
        BY <2>1, <3>1, <3>2, <4>1, StageBounds
    <3>3. CASE c # worker.cmd.id
      <4>1. confirmed'[c] = confirmed[c]
        BY <1>0, <2>2, <3>3, Zenon
      <4> QED
        BY <3>1, <4>1, StageBounds, Zenon
    <3> QED
      BY <3>2, <3>3, Zenon
  <2> QED
    BY <1>0, <2>1, <2>2, <2>3, Zenon DEF StageInv, InHand
<1>3. CASE StorePersisted
  <2>1. worker.cmd.id \in Computers /\ worker.cmd.gen \in Nat
    BY <1>3, HandShape, LimitsAssumption DEF StorePersisted, WorkerPersisted, InHand
  <2>2. /\ UNCHANGED <<admitted, carrier, confirmed>>
        /\ durable' = [durable EXCEPT ![worker.cmd.id] = worker.cmd.gen]
        /\ worker' = [pc |-> "running"]
        /\ stage' = "object"
        /\ InHand("Mutation") /\ stage = "done"
    BY <1>3, Zenon DEF StorePersisted, WorkerPersisted, diskVars, InHand
  <2>3. ASSUME NEW c \in Computers
        PROVE  durable'[c] <= confirmed'[c]
    <3>1. confirmed'[c] = confirmed[c]
      BY <2>2, Zenon
    <3>2. CASE c = worker.cmd.id
      <4>1. durable'[c] = worker.cmd.gen
        BY <1>0, <2>2, <3>2, Zenon
      <4>2. confirmed[c] = worker.cmd.gen
        BY <1>0, <2>2, <3>2, Zenon DEF StageInv
      <4> QED
        BY <2>1, <3>1, <4>1, <4>2
    <3>3. CASE c # worker.cmd.id
      <4>1. durable'[c] = durable[c]
        BY <1>0, <2>2, <3>3, Zenon
      <4> QED
        BY <3>1, <4>1, StageBounds, Zenon
    <3> QED
      BY <3>2, <3>3, Zenon
  <2> QED
    BY <1>0, <2>2, <2>3, Zenon DEF StageInv, InHand
<1>4. CASE StoreCompleted \/ StoreFailed
  <2>1. UNCHANGED <<admitted, durable, confirmed, carrier>> /\ stage' = "object"
    BY <1>4, Zenon DEF StoreCompleted, StoreFailed, WorkerCompleted, WorkerFailed, diskVars
  <2> QED
    BY <1>0, <2>1, Zenon DEF StageInv
<1>5. CASE StoreWorkerLoop
  <2>1. /\ UNCHANGED <<admitted, durable, confirmed, carrier, stage>>
        /\ worker' = worker \/ worker.pc # "busy"
    BY <1>5, Zenon DEF StoreWorkerLoop, WorkerSleep, WorkerTake, WorkerCompletedFailed, KeepDisk, diskVars,
                workVars
  <2>2. worker' = worker \/ (stage = "object" /\ stage' = "object")
    BY <1>0, <2>1, Zenon DEF StageInv
  <2>3. \A c \in Computers : carrier'[c].pc = "reserved" => carrier'[c].gen < MaxGeneration
    BY <1>0, <2>1, Zenon DEF StageInv
  <2> QED
    BY <1>0, <2>1, <2>2, <2>3, StageKept, Zenon
<1> QED
  BY <1>1, <1>2, <1>3, <1>4, <1>5, Zenon

\* The callers and the closer touch nothing of it.
LEMMA OtherStages ==
    ASSUME StoreInv, UNCHANGED <<admitted, durable, confirmed, stage, worker, carrier>>
    PROVE  StageInv'
BY Zenon DEF StoreInv, StageInv, InHand

LEMMA StepStages ==
    ASSUME StoreInv, [StoreNext]_storeVars
    PROVE  StageInv'
<1>1. ASSUME NEW k \in Callers,
             \/ (\E c \in Computers, g \in 0 .. MaxGeneration : StoreFlush(k, c, g))
             \/ StoreFlushWake(k)
             \/ (\E c \in Computers, present \in BOOLEAN : Tombstone(k, c, present))
             \/ (\E c \in Computers : SaveBegin(k, c) \/ DiscardExecution(k, c))
             \/ SaveCheck(k) \/ SaveWrite(k)
             \/ CollectBegin(k) \/ CollectFlush(k) \/ CollectFlushed(k) \/ CollectReach(k)
             \/ CollectList(k) \/ CollectSend(k) \/ CollectReturn(k)
      PROVE  StageInv'
  BY <1>1, CallsKeep, OtherStages, Zenon
<1>2. CASE StoreCloseBegin \/ StoreClosing \/ StoreCloseMark
  BY <1>2, ClosingKeeps, OtherStages, Zenon DEF diskVars, workVars
<1>3. CASE Crash \/ Reopen
  <2>1. Restarted
    BY <1>3, Zenon DEF Crash, Reopen
  <2>2. MaxGeneration \in Nat /\ confirmed \in [Computers -> Nat]
    BY LimitsAssumption, Zenon DEF StoreInv, StoreTypeOK
  <2> QED
    BY <2>1, <2>2 DEF Restarted, StageInv, InHand, Absent
<1>4. CASE UNCHANGED storeVars
  BY <1>4, OtherStages, Zenon DEF storeVars, gateVars, diskVars, workVars
<1> QED
  BY <1>1, <1>2, <1>3, <1>4, CarrierStages, WorkerStages, Zenon DEF StoreNext

--------------------------------------------------------------------------------
(* The journals and what the computers published *)

\* Until a fault the worker holds the generation after the durable one.
LEMMA HandIsNext ==
    ASSUME StoreInv, health # "Faulted", InHand("Mutation")
    PROVE  worker.cmd.gen = durable[worker.cmd.id] + 1
<1> DEFINE c == worker.cmd.id
           g == durable[c] + 1
<1>1. /\ c \in Computers /\ worker.cmd.gen \in Int /\ durable[c] \in Nat
      /\ durable[c] < worker.cmd.gen /\ worker.cmd.gen <= admitted[c]
  BY HandShape
<1>2. admitted[c] \in Int
  BY <1>1 DEF StoreInv, StoreTypeOK, GateTypeOK, Absent
<1>3. g \in durable[c] + 1 .. admitted[c]
  BY <1>1, <1>2
<1>4. Pending(c, g)
  BY <1>1, <1>3, Zenon DEF StoreInv, GateInv, OrderInv, NoAdmittedLoss
<1>5. \A j \in DOMAIN queue : (queue[j].kind = "Mutation" /\ queue[j].id = c)
          => worker.cmd.gen < queue[j].gen
  BY Zenon DEF StoreInv, GateInv, OrderInv, GenerationOrder, InHand
<1>6. CASE \E j \in DOMAIN queue :
               queue[j].kind = "Mutation" /\ queue[j].id = c /\ queue[j].gen = g
  BY <1>1, <1>5, <1>6
<1> QED
  BY <1>4, <1>6, Zenon DEF Pending

\* In a reliable store the worker holds no mutation after a fault.
LEMMA HandMeansHealthy ==
    ASSUME StoreInv, Reliable, InHand("Mutation")
    PROVE  health # "Faulted"
<1>1. worker.cmd.id \in Computers /\ worker.cmd.gen \in Int /\ durable[worker.cmd.id] \in Nat
      /\ durable[worker.cmd.id] < worker.cmd.gen /\ worker.cmd.gen <= admitted[worker.cmd.id]
  BY HandShape
<1> QED
  BY <1>1 DEF StoreInv, CollectInv, Settled

\* How far the journal of the computer in the worker's hands goes.
LEMMA HandJournal ==
    ASSUME StoreInv, Careful, health # "Faulted", InHand("Mutation")
    PROVE  DOMAIN journal[worker.cmd.id] =
               1 .. (IF stage \in {"confirmed", "done"} THEN worker.cmd.gen ELSE worker.cmd.gen - 1)
<1>1. /\ worker.cmd.id \in Computers /\ worker.cmd.gen \in Int
      /\ durable[worker.cmd.id] \in Nat
      /\ worker.cmd.gen = durable[worker.cmd.id] + 1
  BY HandShape, HandIsNext
<1>2. durable[worker.cmd.id] # Absent /\ durable[worker.cmd.id] = worker.cmd.gen - 1
  BY <1>1 DEF Absent
<1>3. Written(worker.cmd.id) <=> stage \in {"confirmed", "done"}
  BY Zenon DEF Written
<1>4. LogInv
  BY Zenon DEF StoreInv
<1> QED
  BY <1>1, <1>2, <1>3, <1>4, Zenon DEF LogInv, JournalsFollow

\* The mutations in the queue.
LEMMA QueueShape ==
    ASSUME StoreInv, NEW i \in DOMAIN queue, queue[i].kind = "Mutation"
    PROVE  /\ queue[i].id \in Computers
           /\ queue[i].gen \in Nat
           /\ durable[queue[i].id] < queue[i].gen
           /\ queue[i].gen <= admitted[queue[i].id]
           /\ durable[queue[i].id] \in Nat
           /\ admitted[queue[i].id] \in Nat
<1>1. queue[i] \in Commands
  BY DEF StoreInv, StoreTypeOK, GateTypeOK
<1>2. queue[i].id \in Computers /\ queue[i].gen \in Nat
  BY <1>1, CommandShape, Zenon
<1>3. /\ durable[queue[i].id] < queue[i].gen
      /\ queue[i].gen <= admitted[queue[i].id]
      /\ admitted[queue[i].id] # Absent => durable[queue[i].id] # Absent
  BY <1>2, Zenon DEF StoreInv, GateInv, OrderInv, GenerationOrder, CarrierAgrees
<1>4. /\ durable[queue[i].id] \in Nat \cup {Absent}
      /\ admitted[queue[i].id] \in Nat \cup {Absent}
  BY <1>2, Zenon DEF StoreInv, StoreTypeOK, GateTypeOK
<1> QED
  BY <1>2, <1>3, <1>4 DEF Absent

\* The journals, the logs and the generations stay, no command appears, and no
\* call gets to its write.
LEMMA LogKept ==
    ASSUME LogInv, UNCHANGED <<journal, durable, admitted, log, reported, execution>>,
           \A c \in Computers : Written(c)' <=> Written(c),
           InHand("Mutation")' =>
               (InHand("Mutation") /\ worker' = worker)
               \/ \E j \in DOMAIN queue : worker'.cmd = queue[j],
           \A i \in DOMAIN queue' : queue'[i].kind = "Mutation" =>
               \E j \in DOMAIN queue : queue'[i] = queue[j],
           health = "Faulted" => health' = "Faulted",
           \A k \in Callers : call'[k].pc = "write" => call[k] = call'[k]
    PROVE  LogInv'
<1>1. NoGaps'
  BY Zenon DEF LogInv, NoGaps
<1>2. JournalsFollow'
  BY Zenon DEF LogInv, JournalsFollow
<1>3. LogAgrees'
  BY DEF LogInv, LogAgrees, InHand
<1>4. ReportsKept'
  BY Zenon DEF LogInv, ReportsKept
<1> QED
  BY <1>1, <1>2, <1>3, <1>4, Zenon DEF LogInv

\* The worker stays where it is.
LEMMA WorkerKept ==
    ASSUME UNCHANGED <<worker, stage>>
    PROVE  /\ \A c \in Computers : Written(c)' <=> Written(c)
           /\ InHand("Mutation")' => InHand("Mutation") /\ worker' = worker
BY Zenon DEF Written, InHand

LEMMA PublishLog ==
    ASSUME StoreInv, Careful, NEW c \in Computers, StorePublish(c)
    PROVE  LogInv'
<1> DEFINE gen == carrier[c].gen + 1
           cmd == Mutation(c, gen, carrier[c].cost, carrier[c].body)
<1>0. /\ carrier \in [Computers -> CarrierStates]
      /\ admitted \in [Computers -> Nat \cup {Absent}]
      /\ log \in [Computers -> Seq(Bodies)]
      /\ queue \in Seq(Commands)
      /\ LogInv
  BY Zenon DEF StoreInv, StoreTypeOK, GateTypeOK
<1>1. /\ queue' = Append(queue, cmd)
      /\ admitted' = [admitted EXCEPT ![c] = gen]
      /\ log' = [log EXCEPT ![c] = Append(log[c], carrier[c].body)]
      /\ UNCHANGED <<health, durable, worker, stage, journal, execution, reported, call>>
  BY Zenon DEF StorePublish, Publish, PublishCommand, KeepDisk, KeepCalls, diskVars, workVars, callVars
<1>2. /\ carrier[c].gen \in Nat /\ carrier[c].gen = admitted[c] /\ carrier[c].body \in Bodies
  BY <1>0, CarrierShape, Zenon
     DEF StoreInv, GateInv, OrderInv, CarrierAgrees, StorePublish, Publish
<1>3. carrier[c].gen = Len(log[c])
  BY <1>0, <1>2 DEF LogInv, LogAgrees, Absent
<1>4. /\ Len(log'[c]) = gen /\ log'[c][gen] = carrier[c].body
      /\ \A d \in Computers : /\ Len(log[d]) \in Nat /\ Len(log'[d]) \in Nat
                              /\ Len(log[d]) <= Len(log'[d])
                              /\ \A g \in 1 .. Len(log[d]) : log'[d][g] = log[d][g]
  BY <1>0, <1>1, <1>2, <1>3
<1>5. cmd.kind = "Mutation" /\ cmd.id = c /\ cmd.gen = gen /\ cmd.body = carrier[c].body
  BY Zenon DEF Mutation
<1> HIDE DEF cmd
<1>6. /\ DOMAIN queue' = DOMAIN queue \cup {Len(queue) + 1}
      /\ queue'[Len(queue) + 1] = cmd
      /\ \A i \in DOMAIN queue : queue'[i] = queue[i]
  BY <1>0, <1>1
<1>7. \A d \in Computers :
          /\ \A g \in DOMAIN journal'[d] : g <= Len(log'[d]) /\ journal'[d][g] = log'[d][g]
          /\ admitted'[d] # Absent => admitted'[d] = Len(log'[d])
  <2> SUFFICES ASSUME NEW d \in Computers
               PROVE  /\ \A g \in DOMAIN journal[d] :
                             g <= Len(log'[d]) /\ journal[d][g] = log'[d][g]
                      /\ admitted'[d] # Absent => admitted'[d] = Len(log'[d])
    BY <1>1, Zenon
  <2>1. DOMAIN journal[d] \subseteq 1 .. MaxGeneration
    BY JournalShape, Zenon DEF StoreInv, StoreTypeOK
  <2>2. ASSUME NEW g \in DOMAIN journal[d]
        PROVE  g <= Len(log'[d]) /\ journal[d][g] = log'[d][g]
    <3>1. g <= Len(log[d]) /\ journal[d][g] = log[d][g] /\ g \in Nat /\ g >= 1
      BY <1>0, <2>1 DEF LogInv, LogAgrees
    <3> QED
      BY <1>4, <3>1
  <2>3. admitted'[d] # Absent => admitted'[d] = Len(log'[d])
    <3>1. CASE d = c
      BY <1>0, <1>1, <1>4, <3>1, Zenon
    <3>2. CASE d # c
      BY <1>0, <1>1, <3>2, Zenon DEF LogInv, LogAgrees
    <3> QED
      BY <3>1, <3>2, Zenon
  <2> QED
    BY <2>2, <2>3, Zenon
<1>8. ASSUME NEW i \in DOMAIN queue', queue'[i].kind = "Mutation"
      PROVE  /\ queue'[i].gen <= Len(log'[queue'[i].id])
             /\ queue'[i].body = log'[queue'[i].id][queue'[i].gen]
  <2>1. CASE i = Len(queue) + 1
    BY <1>2, <1>4, <1>5, <1>6, <2>1, SMTT(30)
  <2>2. CASE i \in DOMAIN queue
    <3>1. queue[i] = queue'[i] /\ queue[i].kind = "Mutation"
      BY <1>6, <1>8, <2>2, Zenon
    <3>2. /\ queue[i].id \in Computers /\ queue[i].gen \in Nat
          /\ durable[queue[i].id] < queue[i].gen /\ durable[queue[i].id] \in Nat
      BY <2>2, <3>1, QueueShape, Zenon
    <3>3. queue[i].gen >= 1
      BY <3>2
    <3>4. /\ queue[i].gen <= Len(log[queue[i].id])
          /\ queue[i].body = log[queue[i].id][queue[i].gen]
      BY <1>0, <2>2, <3>1, Zenon DEF LogInv, LogAgrees
    <3> QED
      BY <1>4, <3>1, <3>2, <3>3, <3>4, SMTT(30)
  <2> QED
    BY <1>6, <2>1, <2>2, Zenon
<1>9. InHand("Mutation")' =>
          /\ worker'.cmd.gen <= Len(log'[worker'.cmd.id])
          /\ worker'.cmd.body = log'[worker'.cmd.id][worker'.cmd.gen]
  <2> SUFFICES ASSUME InHand("Mutation")
               PROVE  /\ worker.cmd.gen <= Len(log'[worker.cmd.id])
                      /\ worker.cmd.body = log'[worker.cmd.id][worker.cmd.gen]
    BY <1>1, Zenon DEF InHand
  <2>1. worker.cmd.id \in Computers /\ worker.cmd.gen \in Nat /\ worker.cmd.gen >= 1
    BY HandShape
  <2>2. /\ worker.cmd.gen <= Len(log[worker.cmd.id])
        /\ worker.cmd.body = log[worker.cmd.id][worker.cmd.gen]
    BY <1>0, Zenon DEF LogInv, LogAgrees
  <2> QED
    BY <1>4, <2>1, <2>2
<1>10. LogAgrees'
  BY <1>7, <1>8, <1>9, Zenon DEF LogAgrees
<1>11. \A d \in Computers : Written(d)' <=> Written(d)
  BY <1>1, Zenon DEF Written, InHand
<1>12. NoGaps' /\ JournalsFollow' /\ ReportsKept'
  BY <1>0, <1>1, <1>11, Zenon DEF LogInv, NoGaps, JournalsFollow, ReportsKept
<1> QED
  BY <1>10, <1>12, Zenon DEF LogInv

\* Registering a reopened computer: its log is what replay found.
LEMMA RegisterLog ==
    ASSUME StoreInv, Careful, NEW c \in Computers, StoreOpenRegister(c)
    PROVE  LogInv'
<1>0. /\ admitted \in [Computers -> Nat \cup {Absent}]
      /\ durable \in [Computers -> Nat \cup {Absent}]
      /\ log \in [Computers -> Seq(Bodies)]
      /\ reported \in [Computers -> Nat]
      /\ journal \in [Computers -> Journals]
      /\ carrier \in [Computers -> CarrierStates]
      /\ LogInv
  BY Zenon DEF StoreInv, StoreTypeOK, GateTypeOK
<1>1. /\ OpenRegister(c, Replayed(c))
      /\ UNCHANGED <<health, queue, worker, stage, journal, execution, call>>
  BY Zenon DEF StoreOpenRegister, OpenRegister, workVars, KeepCalls, callVars, queueVars
<1>a. /\ carrier' = [carrier EXCEPT ![c] = [pc |-> "detached"]] => carrier'[c].pc # "attached"
      /\ carrier' = [carrier EXCEPT ![c] = [pc |-> "attached", gen |-> Replayed(c)]] =>
            carrier'[c].pc = "attached"
  <2>1. carrier \in [Computers -> CarrierStates]
    BY <1>0, Zenon
  <2> HIDE DEF Replayed
  <2> QED
    BY <2>1
<1>2. CASE carrier'[c].pc # "attached"
  <2>1. UNCHANGED <<log, reported>>
    BY <1>2, Zenon DEF StoreOpenRegister, KeepHistory, historyVars
  <2>2. UNCHANGED <<admitted, durable>>
    BY <1>1, <1>2, <1>a, Zenon DEF OpenRegister
  <2> QED
    BY <1>0, <1>1, <2>1, <2>2, LogKept, WorkerKept, Zenon
<1>3. CASE carrier'[c].pc = "attached"
  <2>0. /\ health = "Active"
        /\ admitted' = [admitted EXCEPT ![c] = Replayed(c)]
        /\ durable' = [durable EXCEPT ![c] = Replayed(c)]
    BY <1>1, <1>3, <1>a, Zenon DEF OpenRegister
  <2> DEFINE n == Replayed(c)
  <2>1. PICK m \in 0 .. MaxGeneration : DOMAIN journal[c] = 1 .. m
    BY <1>0, <2>0, Zenon DEF LogInv, NoGaps
  <2>2. n = m /\ n \in Nat /\ DOMAIN journal[c] = 1 .. n
    BY <2>1, ReplayedIs, LimitsAssumption
  <2>3. /\ admitted' = [admitted EXCEPT ![c] = n]
        /\ durable' = [durable EXCEPT ![c] = n]
        /\ log' = [log EXCEPT ![c] = [g \in 1 .. n |-> journal[c][g]]]
        /\ reported' = [reported EXCEPT ![c] = n]
    BY <1>3, <2>0, Zenon DEF StoreOpenRegister
  <2> HIDE DEF n
  <2>4. /\ log'[c] = [g \in 1 .. n |-> journal[c][g]]
        /\ admitted'[c] = n /\ durable'[c] = n /\ reported'[c] = n
        /\ \A d \in Computers \ {c} :
              /\ log'[d] = log[d] /\ admitted'[d] = admitted[d]
              /\ durable'[d] = durable[d] /\ reported'[d] = reported[d]
    BY <1>0, <2>3, Zenon
  <2>5. Len(log'[c]) = n
    BY <2>2, <2>4
  <2>6. durable[c] = admitted[c]
    BY <1>1, Zenon DEF StoreInv, GateInv, OrderInv, CarrierAgrees, OpenRegister
  <2>7. \A i \in DOMAIN queue : queue[i].kind = "Mutation" => queue[i].id \in Computers \ {c}
    <3> SUFFICES ASSUME NEW i \in DOMAIN queue, queue[i].kind = "Mutation"
                 PROVE  queue[i].id \in Computers \ {c}
      BY Zenon
    <3>1. /\ queue[i].id \in Computers /\ queue[i].gen \in Nat
          /\ durable[queue[i].id] < queue[i].gen /\ queue[i].gen <= admitted[queue[i].id]
      BY QueueShape, Zenon
    <3>2. /\ admitted \in [Computers -> Nat \cup {Absent}]
          /\ durable \in [Computers -> Nat \cup {Absent}]
      BY <1>0, Zenon
    <3>3. queue[i].id # c
      BY <2>6, <3>1, <3>2, SMTT(30) DEF Absent
    <3> QED
      BY <3>1, <3>3, Zenon
  <2>8. InHand("Mutation") => worker.cmd.id \in Computers \ {c}
    <3> SUFFICES ASSUME InHand("Mutation")
                 PROVE  worker.cmd.id \in Computers \ {c}
      BY Zenon
    <3>1. /\ worker.cmd.id \in Computers /\ worker.cmd.gen \in Int
          /\ durable[worker.cmd.id] < worker.cmd.gen /\ worker.cmd.gen <= admitted[worker.cmd.id]
          /\ durable[worker.cmd.id] \in Int
      BY HandShape
    <3>2. admitted[worker.cmd.id] \in Int
      BY <1>0, <3>1 DEF Absent
    <3>3. durable[worker.cmd.id] # admitted[worker.cmd.id]
      BY <3>1, <3>2
    <3> QED
      BY <2>6, <3>1, <3>3, Zenon
  <2>9. ~Written(c)' /\ \A d \in Computers : Written(d)' <=> Written(d)
    BY <1>1, <2>8, Zenon DEF Written, InHand
  <2>10. NoGaps'
    BY <1>0, <1>1, Zenon DEF LogInv, NoGaps
  <2>11. JournalsFollow'
    <3> SUFFICES ASSUME NEW d \in Computers, durable'[d] # Absent
                 PROVE  DOMAIN journal[d] =
                            1 .. (IF Written(d)' THEN durable'[d] + 1 ELSE durable'[d])
      BY <1>1, Zenon DEF JournalsFollow
    <3>1. CASE d = c
      BY <2>2, <2>4, <2>9, <3>1, Zenon
    <3>2. CASE d # c
      BY <1>0, <2>0, <2>4, <2>9, <3>2, ZenonT(40) DEF LogInv, JournalsFollow
    <3> QED
      BY <3>1, <3>2, Zenon
  <2>12. LogAgrees'
    <3>1. \A d \in Computers :
              /\ \A g \in DOMAIN journal[d] : g <= Len(log'[d]) /\ journal[d][g] = log'[d][g]
              /\ admitted'[d] # Absent => admitted'[d] = Len(log'[d])
      <4>1. ASSUME NEW d \in Computers \ {c}
            PROVE  /\ \A g \in DOMAIN journal[d] :
                          g <= Len(log'[d]) /\ journal[d][g] = log'[d][g]
                   /\ admitted'[d] # Absent => admitted'[d] = Len(log'[d])
        BY <1>0, <2>4, SMTT(30) DEF LogInv, LogAgrees
      <4>2. \A g \in DOMAIN journal[c] : g <= Len(log'[c]) /\ journal[c][g] = log'[c][g]
        BY <2>2, <2>4, <2>5
      <4> QED
        BY <2>4, <2>5, <4>1, <4>2, ZenonT(40)
    <3> QED
      BY <1>0, <1>1, <2>4, <2>7, <2>8, <3>1, SMTT(30) DEF LogInv, LogAgrees, InHand
  <2>13. ReportsKept'
    <3>0. ReportsKept
      BY <1>0, Zenon DEF LogInv
    <3>1. ASSUME NEW d \in Computers
          PROVE  /\ 1 .. reported'[d] \subseteq DOMAIN journal[d]
                 /\ health # "Faulted" => durable'[d] <= reported'[d]
      <4>1. CASE d = c
        BY <2>2, <2>4, <4>1
      <4>2. CASE d # c
        BY <2>4, <3>0, <4>2, Zenon DEF ReportsKept
      <4> QED
        BY <4>1, <4>2, Zenon
    <3> QED
      BY <1>1, <3>0, <3>1, Zenon DEF ReportsKept
  <2> QED
    BY <2>10, <2>11, <2>12, <2>13, Zenon DEF LogInv
<1> QED
  BY <1>2, <1>3, Zenon

\* Writing a record.
LEMMA JournalLog ==
    ASSUME StoreInv, Careful, PersistJournal
    PROVE  LogInv'
<1> DEFINE c == worker.cmd.id
           gen == worker.cmd.gen
<1>0. /\ journal \in [Computers -> Journals]
      /\ InHand("Mutation") /\ stage = "journal"
      /\ LogInv
  BY Zenon DEF StoreInv, StoreTypeOK, PersistJournal
<1>1. /\ c \in Computers /\ gen \in 1 .. MaxGeneration /\ worker.cmd.body \in Bodies
      /\ MaxGeneration \in Nat
  BY <1>0, HandShape, LimitsAssumption, Zenon
<1>2. /\ journal' = [journal EXCEPT ![c] = [g \in DOMAIN journal[c] \cup {gen} |->
            IF g = gen THEN worker.cmd.body ELSE journal[c][g]]]
      /\ stage' = "confirmed"
      /\ UNCHANGED <<health, durable, admitted, queue, worker, log, reported, execution, call>>
  BY Zenon DEF PersistJournal, KeepForWorker, gateVars, callVars, historyVars, queueVars
<1>3. /\ DOMAIN journal'[c] = DOMAIN journal[c] \cup {gen}
      /\ journal'[c][gen] = worker.cmd.body
      /\ \A g \in DOMAIN journal[c] : g # gen => journal'[c][g] = journal[c][g]
      /\ \A d \in Computers \ {c} : journal'[d] = journal[d]
  BY <1>0, <1>1, <1>2, Zenon
<1>4. health # "Faulted" => DOMAIN journal'[c] = 1 .. gen
  <2> SUFFICES ASSUME health # "Faulted"
               PROVE  DOMAIN journal'[c] = 1 .. gen
    BY Zenon
  <2>1. DOMAIN journal[c] = 1 .. gen - 1
    BY <1>0, HandJournal, Zenon
  <2> QED
    BY <1>1, <1>3, <2>1
<1>5. Written(c)' /\ \A d \in Computers \ {c} : ~Written(d)' /\ ~Written(d)
  BY <1>0, <1>2, Zenon DEF Written, InHand
<1>6. NoGaps'
  <2> SUFFICES ASSUME Reliable \/ health' # "Faulted", NEW d \in Computers
               PROVE  \E n \in 0 .. MaxGeneration : DOMAIN journal'[d] = 1 .. n
    BY Zenon DEF NoGaps
  <2>1. CASE d = c
    <3>1. health # "Faulted"
      BY <1>0, <1>2, HandMeansHealthy, Zenon
    <3> QED
      BY <1>1, <1>4, <2>1, <3>1
  <2>2. CASE d # c
    BY <1>0, <1>2, <1>3, <2>2, Zenon DEF LogInv, NoGaps
  <2> QED
    BY <2>1, <2>2, Zenon
<1>7. JournalsFollow'
  <2> SUFFICES ASSUME health' # "Faulted", NEW d \in Computers, durable'[d] # Absent
               PROVE  DOMAIN journal'[d] =
                          1 .. (IF Written(d)' THEN durable'[d] + 1 ELSE durable'[d])
    BY Zenon DEF JournalsFollow
  <2>1. CASE d = c
    <3>1. gen = durable[c] + 1
      BY <1>0, <1>2, HandIsNext, Zenon
    <3> QED
      BY <1>2, <1>4, <1>5, <2>1, <3>1, Zenon
  <2>2. CASE d # c
    BY <1>0, <1>2, <1>3, <1>5, <2>2, ZenonT(40) DEF LogInv, JournalsFollow
  <2> QED
    BY <2>1, <2>2, Zenon
<1>8. LogAgrees'
  <2>1. gen <= Len(log[c]) /\ worker.cmd.body = log[c][gen]
    BY <1>0, Zenon DEF LogInv, LogAgrees
  <2>2. \A g \in DOMAIN journal'[c] : g <= Len(log[c]) /\ journal'[c][g] = log[c][g]
    BY <1>0, <1>1, <1>3, <2>1, Zenon DEF LogInv, LogAgrees
  <2>3. \A d \in Computers : \A g \in DOMAIN journal'[d] :
            g <= Len(log[d]) /\ journal'[d][g] = log[d][g]
    BY <1>0, <1>3, <2>2 DEF LogInv, LogAgrees
  <2> QED
    BY <1>0, <1>2, <2>3 DEF LogInv, LogAgrees, InHand
<1>9. ReportsKept'
  <2>1. \A d \in Computers : DOMAIN journal[d] \subseteq DOMAIN journal'[d]
    BY <1>3, Zenon
  <2>2. \A k \in Callers : call[k].pc = "write" => call[k].id \in Computers
    BY CallShape, Zenon DEF StoreInv, StoreTypeOK
  <2> QED
    BY <1>0, <1>2, <2>1, <2>2, Zenon DEF LogInv, ReportsKept
<1> QED
  BY <1>6, <1>7, <1>8, <1>9, Zenon DEF LogInv

\* Announcing a generation durable.
LEMMA PersistedLog ==
    ASSUME StoreInv, Careful, StorePersisted
    PROVE  LogInv'
<1> DEFINE c == worker.cmd.id
           gen == worker.cmd.gen
<1>0. /\ durable \in [Computers -> Nat \cup {Absent}]
      /\ reported \in [Computers -> Nat]
      /\ InHand("Mutation") /\ stage = "done"
      /\ LogInv
  BY Zenon DEF StoreInv, StoreTypeOK, GateTypeOK, StorePersisted, WorkerPersisted, InHand
<1>1. /\ c \in Computers /\ gen \in 1 .. MaxGeneration /\ MaxGeneration \in Nat
      /\ durable[c] < gen /\ durable[c] \in Nat
  BY <1>0, HandShape, LimitsAssumption, Zenon
<1>2. /\ durable' = [durable EXCEPT ![c] = gen]
      /\ reported' = [reported EXCEPT ![c] =
            IF health # "Faulted" /\ reported[c] < gen THEN gen ELSE reported[c]]
      /\ worker' = [pc |-> "running"]
      /\ UNCHANGED <<health, admitted, queue, journal, execution, call, log>>
  BY Zenon DEF StorePersisted, WorkerPersisted, diskVars, callVars, queueVars
<1>3. ~InHand("Mutation")' /\ \A d \in Computers : ~Written(d)'
  BY <1>2, Zenon DEF InHand, Written
<1>4. health # "Faulted" => DOMAIN journal[c] = 1 .. gen
  BY <1>0, HandJournal, Zenon
<1>5. NoGaps'
  BY <1>0, <1>2, Zenon DEF LogInv, NoGaps
<1>6. JournalsFollow'
  <2> SUFFICES ASSUME health # "Faulted", NEW d \in Computers, durable'[d] # Absent
               PROVE  DOMAIN journal[d] = 1 .. durable'[d]
    BY <1>2, <1>3, Zenon DEF JournalsFollow
  <2>1. CASE d = c
    BY <1>0, <1>1, <1>2, <1>4, <2>1, Zenon
  <2>2. CASE d # c
    <3>1. ~Written(d)
      BY <2>2, Zenon DEF Written
    <3> QED
      BY <1>0, <1>1, <1>2, <2>2, <3>1, Zenon DEF LogInv, JournalsFollow
  <2> QED
    BY <2>1, <2>2, Zenon
<1>7. LogAgrees'
  BY <1>0, <1>2, <1>3, Zenon DEF LogInv, LogAgrees
<1>8. ReportsKept'
  <2>1. \A d \in Computers \ {c} : durable'[d] = durable[d] /\ reported'[d] = reported[d]
    BY <1>0, <1>1, <1>2, Zenon
  <2>2. /\ durable'[c] = gen
        /\ reported'[c] = IF health # "Faulted" /\ reported[c] < gen THEN gen ELSE reported[c]
    BY <1>0, <1>1, <1>2, Zenon
  <2>3. 1 .. reported'[c] \subseteq DOMAIN journal[c]
    BY <1>0, <1>1, <1>4, <2>2, Zenon DEF LogInv, ReportsKept
  <2>4. health # "Faulted" => durable'[c] <= reported'[c]
    BY <1>0, <1>1, <2>2
  <2> QED
    BY <1>0, <1>2, <2>1, <2>3, <2>4, Zenon DEF LogInv, ReportsKept
<1> QED
  BY <1>5, <1>6, <1>7, <1>8, Zenon DEF LogInv

LEMMA CarrierLog ==
    ASSUME StoreInv, Careful, NEW c \in Computers,
           \/ StoreOpenBegin(c) \/ StoreOpenFlush(c) \/ StoreOpenFault(c) \/ StoreOpenRegister(c)
           \/ \E body \in Bodies : StorePrepare(c, body)
           \/ StorePublish(c) \/ StoreDetach(c)
    PROVE  LogInv'
<1>1. ASSUME KeepDisk, KeepCalls, KeepHistory, UNCHANGED <<admitted, durable, queue, worker>>,
             health' = health \/ health' = "Faulted"
      PROVE  LogInv'
  BY <1>1, LogKept, WorkerKept, Zenon DEF StoreInv, KeepDisk, KeepCalls, KeepHistory, diskVars, workVars,
                                   callVars, historyVars
<1>2. CASE StoreOpenBegin(c) \/ StoreOpenFault(c) \/ StoreDetach(c)
  BY <1>1, <1>2, Zenon DEF StoreOpenBegin, StoreOpenFault, StoreDetach, OpenBegin, OpenFault, Detach,
                    DropReservation, queueVars
<1>3. CASE StoreOpenFlush(c)
  BY <1>1, <1>3, Zenon DEF StoreOpenFlush, OpenFlushAdmitted, OpenFlushWait, queueVars
<1>4. CASE \E body \in Bodies : StorePrepare(c, body)
  BY <1>1, <1>4, Zenon DEF StorePrepare, Prepare
<1> QED
  BY <1>2, <1>3, <1>4, PublishLog, RegisterLog, Zenon

LEMMA WorkerLog ==
    ASSUME StoreInv, Careful,
           \/ PersistObject \/ PersistJournal \/ PersistConfirmed \/ StorePersisted
           \/ PersistTombstone \/ (\E o \in Objects : CollectObject(o))
           \/ StoreCompleted \/ StoreFailed \/ StoreWorkerLoop
    PROVE  LogInv'
<1>0. /\ LogInv
      /\ queue \in Seq(Commands)
      /\ worker.pc # "busy" => stage = "object"
  BY Zenon DEF StoreInv, StoreTypeOK, GateTypeOK, StageInv
<1>1. CASE PersistObject \/ PersistConfirmed \/ PersistTombstone
               \/ (\E o \in Objects : CollectObject(o))
  <2>1. UNCHANGED <<journal, durable, admitted, log, reported, execution, worker, queue, health,
                    call>>
    BY <1>1, Zenon DEF PersistObject, PersistConfirmed, PersistTombstone, CollectObject, KeepForWorker,
                gateVars, queueVars, callVars, historyVars
  <2>2. \A c \in Computers : Written(c)' <=> Written(c)
    BY <1>1, <2>1, Zenon DEF PersistObject, PersistConfirmed, PersistTombstone, CollectObject, Written,
                      InHand
  <2>3. InHand("Mutation")' => InHand("Mutation") /\ worker' = worker
    BY <2>1, Zenon DEF InHand
  <2> QED
    BY <1>0, <2>1, <2>2, <2>3, LogKept, Zenon
<1>2. CASE StoreCompleted \/ StoreFailed
  <2>1. /\ UNCHANGED <<journal, durable, admitted, log, reported, execution, call>>
        /\ queue' \in {queue, <<>>}
        /\ health' = health \/ health' = "Faulted"
        /\ worker'.pc # "busy"
    BY <1>2 DEF StoreCompleted, StoreFailed, WorkerCompleted, WorkerFailed, FaultWorker, diskVars,
                queueVars, callVars, historyVars
  <2>2. ~InHand("Mutation")' /\ \A c \in Computers : ~Written(c)'
    BY <2>1, Zenon DEF Written, InHand
  <2>3. NoGaps' /\ JournalsFollow'
    <3>1. CASE StoreFailed
      <4>1. health' = "Faulted"
        BY <3>1, Zenon DEF StoreFailed, WorkerFailed, FaultWorker
      <4> QED
        BY <1>0, <2>1, <4>1, Zenon DEF LogInv, NoGaps, JournalsFollow
    <3>2. CASE StoreCompleted
      <4>1. ~InHand("Mutation") /\ health' = health
        BY <3>2, Zenon DEF StoreCompleted, WorkerCompleted, InHand
      <4>2. \A c \in Computers : ~Written(c)
        BY <4>1, ZenonT(40) DEF Written
      <4> QED
        BY <1>0, <2>1, <2>2, <4>1, <4>2, Zenon DEF LogInv, NoGaps, JournalsFollow
    <3> QED
      BY <1>2, <3>1, <3>2, Zenon
  <2>4. LogAgrees'
    BY <1>0, <2>1, <2>2 DEF LogInv, LogAgrees
  <2>5. ReportsKept'
    BY <1>0, <2>1, Zenon DEF LogInv, ReportsKept
  <2> QED
    BY <2>3, <2>4, <2>5, ZenonT(40) DEF LogInv
<1>3. CASE StoreWorkerLoop
  <2>0. UNCHANGED <<journal, durable, admitted, log, reported, execution, health, call, stage>>
    BY <1>3, Zenon DEF StoreWorkerLoop, WorkerSleep, WorkerTake, WorkerCompletedFailed, KeepDisk,
                KeepCalls, KeepHistory, diskVars, workVars, callVars, historyVars
  <2>1. CASE WorkerSleep
    <3>1. UNCHANGED <<queue, worker>>
      BY <2>1, Zenon DEF WorkerSleep, queueVars
    <3> QED
      BY <1>0, <2>0, <3>1, LogKept, WorkerKept, Zenon
  <2>2. CASE WorkerTake \/ WorkerCompletedFailed
    <3>1. /\ worker.pc # "busy" /\ stage = "object"
          /\ worker'.pc = "busy" => worker'.cmd = Head(queue) /\ queue # <<>>
          /\ queue' \in {queue, Tail(queue)}
          /\ queue = <<>> => queue' = queue
      <4>1. worker.pc # "busy" /\ stage = "object"
        BY <1>0, <2>2, Zenon DEF WorkerTake, WorkerCompletedFailed
      <4>2. CASE WorkerTake
        <5>1. /\ queue # <<>> /\ queue' = Tail(queue)
              /\ worker' \in {[pc |-> "exited"], [pc |-> "busy", cmd |-> Head(queue)]}
          BY <4>2, Zenon DEF WorkerTake
        <5>2. worker'.pc = "busy" => worker'.cmd = Head(queue)
          <6>1. CASE worker' = [pc |-> "exited"]
            <7>1. worker'.pc = "exited"
              BY <6>1, Zenon
            <7> QED
              BY <7>1, Zenon
          <6>2. CASE worker' = [pc |-> "busy", cmd |-> Head(queue)]
            BY <6>2, Zenon
          <6> QED
            BY <5>1, <6>1, <6>2, Zenon
        <5> QED
          BY <4>1, <5>1, <5>2, Zenon
      <4>3. CASE WorkerCompletedFailed
        <5>1. worker' = [pc |-> "running"] /\ queue' = queue
          BY <4>3, Zenon DEF WorkerCompletedFailed, queueVars
        <5>2. worker'.pc # "busy"
          BY <5>1, Zenon
        <5> QED
          BY <4>1, <5>1, <5>2, Zenon
      <4> QED
        BY <2>2, <4>2, <4>3, Zenon
    <3>2. \A c \in Computers : Written(c)' <=> Written(c)
      BY <2>0, <3>1, Zenon DEF Written
    <3>3. InHand("Mutation")' => \E j \in DOMAIN queue : worker'.cmd = queue[j]
      <4>1. queue # <<>> => 1 \in DOMAIN queue /\ Head(queue) = queue[1]
        BY <1>0
      <4> QED
        BY <3>1, <4>1, Zenon DEF InHand
    <3>4. \A i \in DOMAIN queue' : \E j \in DOMAIN queue : queue'[i] = queue[j]
      <4>1. CASE queue' = queue
        BY <4>1, Zenon
      <4>2. CASE queue' # queue
        <5>1. queue' = Tail(queue) /\ queue # <<>>
          BY <3>1, <4>2, Zenon
        <5>2. \A i \in DOMAIN Tail(queue) :
                  i + 1 \in DOMAIN queue /\ Tail(queue)[i] = queue[i + 1]
          BY <1>0, <5>1
        <5> QED
          BY <5>1, <5>2, Zenon
      <4> QED
        BY <4>1, <4>2, Zenon
    <3> QED
      BY <1>0, <2>0, <3>2, <3>3, <3>4, LogKept, ZenonT(40)
  <2> QED
    BY <1>3, <2>1, <2>2, Zenon DEF StoreWorkerLoop
<1> QED
  BY <1>1, <1>2, <1>3, JournalLog, PersistedLog, Zenon

\* A call publishes no mutation.
LEMMA CallsQueue ==
    ASSUME StoreInv, NEW k \in Callers,
           \/ (\E c \in Computers, g \in 0 .. MaxGeneration : StoreFlush(k, c, g))
           \/ StoreFlushWake(k)
           \/ (\E c \in Computers, present \in BOOLEAN : Tombstone(k, c, present))
           \/ (\E c \in Computers : SaveBegin(k, c) \/ DiscardExecution(k, c))
           \/ SaveCheck(k) \/ SaveWrite(k)
           \/ CollectBegin(k) \/ CollectFlush(k) \/ CollectFlushed(k) \/ CollectReach(k)
           \/ CollectList(k) \/ CollectSend(k) \/ CollectReturn(k)
    PROVE  \/ queue' = queue
           \/ /\ caller[k].pc = "reserved"
              /\ queue' = Append(queue, Control(k, caller[k].cost, caller[k].body))
              /\ UNCHANGED <<call, execution>>
<1> USE DEF Moves, gateVars, queueVars
<1>1. CASE \/ (\E c \in Computers, g \in 0 .. MaxGeneration : StoreFlush(k, c, g))
           \/ (\E c \in Computers, present \in BOOLEAN : Tombstone(k, c, present))
  BY <1>1, Zenon DEF StoreFlush, Tombstone, Flush, FlushTurn, CallControl
<1>2. CASE \E c \in Computers : SaveBegin(k, c) \/ DiscardExecution(k, c)
  BY <1>2, Zenon DEF SaveBegin, DiscardExecution, Flush, FlushTurn
<1>3. CASE SaveCheck(k) \/ SaveWrite(k) \/ CollectBegin(k) \/ CollectFlushed(k)
               \/ CollectReach(k) \/ CollectList(k) \/ CollectReturn(k)
  BY <1>3, ZenonT(40) DEF SaveCheck, SaveWrite, CollectBegin, CollectFlushed, CollectReach, CollectList,
              CollectReturn
<1>4. CASE CollectFlush(k) \/ CollectSend(k)
  BY <1>4, Zenon DEF CollectFlush, CollectSend, CallControl, Flush, FlushTurn
<1>5. CASE StoreFlushWake(k)
  BY <1>5, Zenon DEF StoreFlushWake, FlushWake, FlushTurn, PublishControl, PublishCommand, KeepDisk,
              KeepCalls, diskVars, callVars
<1> QED
  BY <1>1, <1>2, <1>3, <1>4, <1>5, Zenon

\* A call starts its write with a durable generation, and only a write or a
\* discard changes the execution checkpoint.
LEMMA CallsWrite ==
    ASSUME StoreInv, LogInv, NEW k \in Callers,
           \/ (\E c \in Computers, g \in 0 .. MaxGeneration : StoreFlush(k, c, g))
           \/ StoreFlushWake(k)
           \/ (\E c \in Computers, present \in BOOLEAN : Tombstone(k, c, present))
           \/ (\E c \in Computers : SaveBegin(k, c) \/ DiscardExecution(k, c))
           \/ SaveCheck(k) \/ SaveWrite(k)
           \/ CollectBegin(k) \/ CollectFlush(k) \/ CollectFlushed(k) \/ CollectReach(k)
           \/ CollectList(k) \/ CollectSend(k) \/ CollectReturn(k)
    PROVE  /\ \A c \in Computers : 1 .. execution'[c] \subseteq DOMAIN journal[c]
           /\ \A m \in Callers : call'[m].pc = "write" =>
                  1 .. call'[m].gen \subseteq DOMAIN journal[call'[m].id]
<1>0. /\ call \in [Callers -> CallStates]
      /\ execution \in [Computers -> Nat \cup {Absent}]
      /\ durable \in [Computers -> Nat \cup {Absent}]
      /\ reported \in [Computers -> Nat]
      /\ journal \in [Computers -> Journals]
      /\ ReportsKept
  BY Zenon DEF StoreInv, StoreTypeOK, GateTypeOK, LogInv
<1> DEFINE Goal == /\ \A c \in Computers : 1 .. execution'[c] \subseteq DOMAIN journal[c]
                   /\ \A m \in Callers : call'[m].pc = "write" =>
                         1 .. call'[m].gen \subseteq DOMAIN journal[call'[m].id]
<1>1. ASSUME UNCHANGED <<call, execution>>
      PROVE  Goal
  BY <1>0, <1>1, Zenon DEF ReportsKept
<1>2. ASSUME NEW x, call' = [call EXCEPT ![k] = x], UNCHANGED execution,
             x.pc = "write" => 1 .. x.gen \subseteq DOMAIN journal[x.id]
      PROVE  Goal
  BY <1>0, <1>2, ZenonT(40) DEF ReportsKept
<1>3. CASE \/ (\E c \in Computers, g \in 0 .. MaxGeneration : StoreFlush(k, c, g))
           \/ StoreFlushWake(k)
           \/ (\E c \in Computers, present \in BOOLEAN : Tombstone(k, c, present))
  BY <1>1, <1>3, Zenon DEF StoreFlush, StoreFlushWake, Tombstone, KeepDisk, KeepCalls, diskVars, callVars
<1>4. CASE \E c \in Computers : SaveBegin(k, c)
  BY <1>2, <1>4, ZenonT(40) DEF SaveBegin, KeepDisk, diskVars
<1>5. ASSUME NEW c \in Computers, DiscardExecution(k, c)
      PROVE  Goal
  <2>1. execution' = [execution EXCEPT ![c] = Absent] /\ call' = call
    BY <1>5, Zenon DEF DiscardExecution, callVars
  <2>2. 1 .. Absent = {}
    BY DEF Absent
  <2> QED
    BY <1>0, <2>1, <2>2, Zenon DEF ReportsKept
<1>6. CASE SaveCheck(k)
  <2> DEFINE c == call[k].id
             current == /\ caller[k].result = "Ok"
                        /\ health \in {"Active", "Draining"}
                        /\ durable[c] = call[k].gen
                        /\ c \notin tombstone
             x == IF current THEN [call[k] EXCEPT !.pc = "write"] ELSE [pc |-> "none"]
  <2>1. call' = [call EXCEPT ![k] = x] /\ UNCHANGED execution /\ call[k].pc = "save"
    BY <1>6, Zenon DEF SaveCheck, Moves, KeepDisk, diskVars
  <2>2. c \in Computers /\ call[k].gen \in Nat
    BY <1>0, <2>1, CallShape, ZenonT(40)
  <2>3. current => 1 .. call[k].gen \subseteq DOMAIN journal[c]
    <3>1. current => health # "Faulted" /\ durable[c] = call[k].gen
      BY Zenon
    <3> HIDE DEF c, current, x
    <3>2. /\ 1 .. reported[c] \subseteq DOMAIN journal[c] /\ reported[c] \in Nat
          /\ health # "Faulted" => durable[c] <= reported[c]
      BY <1>0, <2>2, Zenon DEF ReportsKept
    <3>3. current => call[k].gen <= reported[c]
      BY <3>1, <3>2, Zenon
    <3>4. call[k].gen <= reported[c] => 1 .. call[k].gen \subseteq 1 .. reported[c]
      BY <2>2, <3>2
    <3> QED
      BY <3>2, <3>3, <3>4, Zenon
  <2>4. current => x.gen = call[k].gen /\ x.id = c
    BY <1>0, <2>1, Zenon DEF CallStates
  <2>5. x.pc = "write" => current
    BY Zenon
  <2> HIDE DEF x
  <2> QED
    BY <1>2, <2>1, <2>3, <2>4, <2>5, Zenon
<1>7. CASE SaveWrite(k)
  <2>1. /\ call[k].pc = "write" /\ call' = [call EXCEPT ![k] = [pc |-> "none"]]
        /\ execution' = execution \/ execution' = [execution EXCEPT ![call[k].id] = call[k].gen]
    BY <1>7, Zenon DEF SaveWrite, Moves
  <2>2. \A m \in Callers : call'[m].pc = "write" => call'[m] = call[m]
    BY <1>0, <2>1, Zenon
  <2> QED
    BY <1>0, <2>1, <2>2, Zenon DEF ReportsKept
<1>8. CASE CollectBegin(k) \/ CollectFlushed(k) \/ CollectList(k) \/ CollectReturn(k)
               \/ CollectSend(k)
  BY <1>2, <1>8, Zenon DEF CollectBegin, CollectFlushed, CollectList, CollectReturn, CollectSend, Moves,
                    KeepDisk, diskVars
<1>9. CASE CollectFlush(k)
  <2>1. call[k] \in CallStates /\ call[k].pc = "flush_all" /\ execution' = execution
    BY <1>0, <1>9, Zenon DEF CollectFlush, KeepDisk, diskVars
  <2>2. PICK pair \in call[k].todo :
            call' = [call EXCEPT ![k].todo = @ \ {pair}, ![k].ok = FALSE]
    BY <1>9, Zenon DEF CollectFlush
  <2>3. /\ call'[k].pc = "flush_all"
        /\ \A m \in Callers \ {k} : call'[m] = call[m]
    BY <1>0, <2>1, <2>2, Zenon DEF CallStates
  <2>4. \A m \in Callers : call'[m].pc = "write" => call'[m] = call[m]
    BY <2>3, Zenon
  <2> QED
    BY <1>0, <2>1, <2>4, Zenon DEF ReportsKept
<1>10. CASE CollectReach(k)
  <2>1. call[k] \in CallStates /\ call[k].pc = "reach" /\ execution' = execution
    BY <1>0, <1>10, Zenon DEF CollectReach, KeepDisk, diskVars
  <2>2. ASSUME NEW c \in call[k].todo
        PROVE  [call[k] EXCEPT !.todo = @ \ {c},
                               !.reachable = @ \cup ({Content(c)} \cap Objects)].pc = "reach"
    BY <2>1, Zenon DEF CallStates
  <2>3. /\ call'[k].pc # "write"
        /\ \A m \in Callers \ {k} : call'[m] = call[m]
    <3>1. ASSUME NEW x, x.pc # "write", Moves(k, x)
          PROVE  /\ call'[k].pc # "write"
                 /\ \A m \in Callers \ {k} : call'[m] = call[m]
      BY <1>0, <3>1, Zenon DEF Moves
    <3>2. ASSUME NEW c \in call[k].todo,
                 Moves(k, [call[k] EXCEPT !.todo = @ \ {c},
                              !.reachable = @ \cup ({Content(c)} \cap Objects)])
          PROVE  /\ call'[k].pc # "write"
                 /\ \A m \in Callers \ {k} : call'[m] = call[m]
      <4> DEFINE x == [call[k] EXCEPT !.todo = @ \ {c},
                                      !.reachable = @ \cup ({Content(c)} \cap Objects)]
      <4>1. x.pc = "reach"
        BY <2>2, Zenon
      <4>2. Moves(k, x)
        BY <3>2, Zenon
      <4> HIDE DEF x
      <4> QED
        BY <3>1, <4>1, <4>2, ZenonT(40)
    <3>3. CASE Moves(k, [pc |-> "none"])
      BY <3>1, <3>3, Zenon
    <3> QED
      BY <1>10, <3>2, <3>3, ZenonT(40) DEF CollectReach
  <2>4. \A m \in Callers : call'[m].pc = "write" => call'[m] = call[m]
    BY <2>3, Zenon
  <2> QED
    BY <1>0, <2>1, <2>4, Zenon DEF ReportsKept
<1> QED
  BY <1>3, <1>4, <1>5, <1>6, <1>7, <1>8, <1>9, <1>10, Zenon

LEMMA CallerLog ==
    ASSUME StoreInv, Careful, NEW k \in Callers,
           \/ (\E c \in Computers, g \in 0 .. MaxGeneration : StoreFlush(k, c, g))
           \/ StoreFlushWake(k)
           \/ (\E c \in Computers, present \in BOOLEAN : Tombstone(k, c, present))
           \/ (\E c \in Computers : SaveBegin(k, c) \/ DiscardExecution(k, c))
           \/ SaveCheck(k) \/ SaveWrite(k)
           \/ CollectBegin(k) \/ CollectFlush(k) \/ CollectFlushed(k) \/ CollectReach(k)
           \/ CollectList(k) \/ CollectSend(k) \/ CollectReturn(k)
    PROVE  LogInv'
<1>0. LogInv /\ queue \in Seq(Commands)
  BY Zenon DEF StoreInv, StoreTypeOK, GateTypeOK
<1>1. UNCHANGED <<health, admitted, durable, worker, journal, stage, log, reported>>
  BY CallsKeep, Zenon
<1>2. \A i \in DOMAIN queue' : queue'[i].kind = "Mutation" =>
          \E j \in DOMAIN queue : queue'[i] = queue[j]
  <2>1. CASE queue' = queue
    BY <2>1, Zenon
  <2>2. CASE queue' # queue
    <3> DEFINE x == Control(k, caller[k].cost, caller[k].body)
    <3>1. queue' = Append(queue, x)
      BY <2>2, CallsQueue, Zenon
    <3>2. x.kind = "Control"
      BY Zenon DEF Control
    <3> HIDE DEF x
    <3>3. /\ DOMAIN queue' = DOMAIN queue \cup {Len(queue) + 1}
          /\ queue'[Len(queue) + 1] = x
          /\ \A i \in DOMAIN queue : queue'[i] = queue[i]
      BY <1>0, <3>1, SMTT(30)
    <3> QED
      BY <3>2, <3>3, Zenon
  <2> QED
    BY <2>1, <2>2, Zenon
<1>3. \A c \in Computers : Written(c)' <=> Written(c)
  BY <1>1, WorkerKept, Zenon
<1>4. NoGaps' /\ JournalsFollow'
  BY <1>0, <1>1, <1>3, Zenon DEF LogInv, NoGaps, JournalsFollow
<1>5. LogAgrees'
  BY <1>0, <1>1, <1>2, Zenon DEF LogInv, LogAgrees, InHand
<1>6. ReportsKept'
  <2>1. /\ \A c \in Computers : 1 .. execution'[c] \subseteq DOMAIN journal[c]
        /\ \A m \in Callers : call'[m].pc = "write" =>
               1 .. call'[m].gen \subseteq DOMAIN journal[call'[m].id]
    BY <1>0, CallsWrite, Zenon
  <2> QED
    BY <1>0, <1>1, <2>1, Zenon DEF LogInv, ReportsKept
<1> QED
  BY <1>4, <1>5, <1>6, ZenonT(40) DEF LogInv

LEMMA CloserLog ==
    ASSUME StoreInv, Careful, StoreCloseBegin \/ StoreClosing \/ StoreCloseMark
    PROVE  LogInv'
<1>0. LogInv /\ queue \in Seq(Commands)
  BY Zenon DEF StoreInv, StoreTypeOK, GateTypeOK
<1>1. UNCHANGED <<journal, durable, admitted, log, reported, execution, worker, stage, call>>
  BY ClosingKeeps, Zenon DEF diskVars, workVars
<1>2. /\ health = "Faulted" => health' = "Faulted"
      /\ queue' = queue \/ queue' = Append(queue, Stop)
  BY Zenon DEF StoreCloseBegin, StoreClosing, StoreCloseMark, CloseBegin, CloseDrain, CloseStopWait,
         CloseStop, CloseJoin, CloseMark, queueVars
<1>3. \A i \in DOMAIN queue' : queue'[i].kind = "Mutation" =>
          \E j \in DOMAIN queue : queue'[i] = queue[j]
  <2>1. CASE queue' = queue
    BY <2>1, Zenon
  <2>2. CASE queue' = Append(queue, Stop)
    <3>1. \A i \in DOMAIN queue' : queue'[i] = Stop \/ (i \in DOMAIN queue /\ queue'[i] = queue[i])
      BY <1>0, <2>2
    <3> QED
      BY <3>1 DEF Stop
  <2> QED
    BY <1>2, <2>1, <2>2, Zenon
<1> QED
  BY <1>0, <1>1, <1>2, <1>3, LogKept, WorkerKept, Zenon

\* A restart loses what is not on disk, and nothing else.
LEMMA RestartLog ==
    ASSUME StoreInv, Careful, Crash \/ Reopen
    PROVE  LogInv'
<1>1. /\ Restarted
      /\ LogInv
      /\ reported \in [Computers -> Nat]
  BY Zenon DEF Crash, Reopen, StoreInv, StoreTypeOK
<1>2. Reliable
  BY <1>1, StoreAssumption DEF Careful, Restarted, StoreInv, StoreTypeOK
<1>3. /\ UNCHANGED <<journal, execution, log, reported>>
      /\ queue' = <<>> /\ worker' = [pc |-> "running"]
      /\ \A c \in Computers : admitted'[c] = Absent /\ durable'[c] = Absent
      /\ \A k \in Callers : call'[k].pc # "write"
  BY <1>1, Zenon DEF Restarted
<1>4. NoGaps'
  BY <1>1, <1>2, <1>3, Zenon DEF LogInv, NoGaps
<1>5. JournalsFollow'
  BY <1>3, Zenon DEF JournalsFollow
<1>6. LogAgrees'
  <2>1. DOMAIN queue' = {} /\ worker'.pc # "busy"
    BY <1>3
  <2>2. ASSUME NEW c \in Computers
        PROVE  /\ \A g \in DOMAIN journal'[c] : g <= Len(log'[c]) /\ journal'[c][g] = log'[c][g]
               /\ admitted'[c] = Absent
    BY <1>1, <1>3, Zenon DEF LogInv, LogAgrees
  <2> QED
    BY <2>1, <2>2, Zenon DEF LogAgrees, InHand
<1>7. ReportsKept'
  <2>1. ASSUME NEW c \in Computers
        PROVE  /\ 1 .. reported'[c] \subseteq DOMAIN journal'[c]
               /\ 1 .. execution'[c] \subseteq DOMAIN journal'[c]
    BY <1>1, <1>3, Zenon DEF LogInv, ReportsKept
  <2>2. ASSUME NEW c \in Computers
        PROVE  durable'[c] <= reported'[c]
    <3>1. durable'[c] = -1 /\ reported'[c] \in Nat
      BY <1>1, <1>3, Zenon DEF Absent
    <3> QED
      BY <3>1
  <2> QED
    BY <1>3, <2>1, <2>2, Zenon DEF ReportsKept
<1> QED
  BY <1>4, <1>5, <1>6, <1>7, Zenon DEF LogInv

LEMMA StepLog ==
    ASSUME StoreInv, Careful, [StoreNext]_storeVars
    PROVE  LogInv'
<1>1. CASE UNCHANGED storeVars
  <2>1. UNCHANGED <<journal, durable, admitted, log, reported, execution, worker, stage, call,
                    health, queue>>
    BY <1>1, Zenon DEF storeVars, gateVars, queueVars, diskVars, workVars, callVars, historyVars
  <2> QED
    BY <2>1, LogKept, WorkerKept, Zenon DEF StoreInv
<1>2. CASE StoreNext
  BY <1>2, CarrierLog, WorkerLog, CallerLog, CloserLog, RestartLog, Zenon DEF StoreNext
<1> QED
  BY <1>1, <1>2, Zenon

--------------------------------------------------------------------------------
(* The disk of a reliable store *)

\* The records and the temporaries of a computer are no more than its generations.
LEMMA EntriesBounded ==
    ASSUME NEW D, NEW S, NEW n \in Nat, D \subseteq 1 .. n, S \subseteq (1 .. n) \ D
    PROVE  Cardinality(D) + Cardinality(S) <= n
<1>1. IsFiniteSet(1 .. n) /\ Cardinality(1 .. n) = n
  BY FS_Interval
<1>2. IsFiniteSet(D) /\ IsFiniteSet(S)
  BY <1>1, FS_Subset, Zenon
<1>3. D \cap S = {} /\ D \cup S \subseteq 1 .. n
  BY Zenon
<1>4. Cardinality(D \cap S) = 0
  BY <1>3, FS_EmptySet, Zenon
<1>5. Cardinality(D \cup S) = Cardinality(D) + Cardinality(S) - Cardinality(D \cap S)
  BY <1>2, FS_Union, Zenon
<1>6. Cardinality(D \cup S) <= Cardinality(1 .. n)
  BY <1>1, <1>3, FS_Subset, Zenon
<1>7. Cardinality(D) \in Nat /\ Cardinality(S) \in Nat
  BY <1>2, FS_CardinalityType, Zenon
<1> QED
  BY <1>1, <1>4, <1>5, <1>6, <1>7, SMTT(30)

\* Every computer can be recovered.
LEMMA Recovers ==
    ASSUME StoreInv, Reliable, NEW c \in Computers
    PROVE  ~RecoverFails(c)
<1>0. /\ DiskInv
      /\ MaxGeneration \in Nat /\ MaxRecoveryRecords \in Nat
      /\ MaxGeneration <= MaxRecoveryRecords
      /\ confirmed[c] \in Nat
      /\ DOMAIN journal[c] \subseteq 1 .. MaxGeneration
  BY LimitsAssumption, StoreAssumption, JournalShape, Zenon DEF StoreInv, StoreTypeOK, Reliable
<1>1. Cardinality(DOMAIN journal[c]) + Cardinality(stray[c]) <= MaxGeneration
  <2>1. stray[c] \subseteq (1 .. MaxGeneration) \ DOMAIN journal[c]
    BY <1>0, Zenon DEF DiskInv
  <2> QED
    BY <1>0, <2>1, EntriesBounded, Zenon
<1>2. /\ IsFiniteSet(DOMAIN journal[c]) /\ IsFiniteSet(stray[c])
      /\ Cardinality(DOMAIN journal[c]) \in Nat /\ Cardinality(stray[c]) \in Nat
  <2>1. IsFiniteSet(1 .. MaxGeneration)
    BY <1>0, FS_Interval
  <2>2. stray[c] \subseteq 1 .. MaxGeneration
    BY <1>0, Zenon DEF DiskInv
  <2> QED
    BY <1>0, <2>1, <2>2, FS_Subset, FS_CardinalityType, Zenon
<1>3. ~(Cardinality(DOMAIN journal[c]) + Cardinality(stray[c]) > MaxRecoveryRecords)
  BY <1>0, <1>1, <1>2
<1>4. ~(Replayed(c) < confirmed[c])
  <2>1. 1 .. confirmed[c] \subseteq DOMAIN journal[c]
    BY <1>0, Zenon DEF DiskInv
  <2>2. confirmed[c] <= Replayed(c) /\ Replayed(c) \in 0 .. MaxGeneration
    BY <1>0, <2>1, ReplayedReaches, ReplayedSpec
  <2> QED
    BY <1>0, <2>2
<1>5. Content(c) \notin Objects \ objects
  BY <1>0, Zenon DEF DiskInv, Objects
<1> QED
  BY <1>3, <1>4, <1>5, Zenon DEF RecoverFails

\* The records and the temporaries stay, and nothing a computer needs goes.
LEMMA DiskKept ==
    ASSUME DiskInv, UNCHANGED <<journal, confirmed, stray>>,
           objects \subseteq objects',
           (InHand("Mutation") /\ stage # "object")' => UNCHANGED <<worker, stage>>
    PROVE  DiskInv'
<1>1. \A c \in Computers : Content(c)' = Content(c)
  BY ReplayKept, Zenon
<1>2. (InHand("Mutation") /\ stage # "object")' => InHand("Mutation") /\ stage # "object"
  BY Zenon DEF InHand
<1> QED
  BY <1>1, <1>2, Zenon DEF DiskInv

LEMMA CarrierDisk ==
    ASSUME StoreInv, Reliable, NEW c \in Computers,
           \/ StoreOpenBegin(c) \/ StoreOpenFlush(c) \/ StoreOpenFault(c) \/ StoreOpenRegister(c)
           \/ \E body \in Bodies : StorePrepare(c, body)
           \/ StorePublish(c) \/ StoreDetach(c)
    PROVE  DiskInv'
<1>0. DiskInv
  BY Zenon DEF StoreInv
<1>1. UNCHANGED worker
  BY Zenon DEF StoreOpenBegin, StoreOpenFlush, StoreOpenFault, StoreOpenRegister, StorePrepare,
         StorePublish, StoreDetach, OpenBegin, OpenFlushAdmitted, OpenFlushWait, OpenFault,
         OpenRegister, Prepare, Publish, Detach, DropReservation
<1>2. CASE StoreOpenRegister(c)
  <2>1. /\ confirmed' = [confirmed EXCEPT ![c] = Replayed(c)]
        /\ UNCHANGED <<journal, objects, stray, stage>>
    BY <1>2, Zenon DEF StoreOpenRegister, workVars
  <2>2. /\ confirmed \in [Computers -> Nat]
        /\ DOMAIN journal[c] \subseteq 1 .. MaxGeneration
    BY JournalShape, Zenon DEF StoreInv, StoreTypeOK
  <2>3. 1 .. Replayed(c) \subseteq DOMAIN journal[c]
    BY <2>2, ReplayedSpec, Zenon
  <2>4. \A d \in Computers : Content(d)' = Content(d)
    BY <2>1, ReplayKept, Zenon
  <2>5. \A d \in Computers : 1 .. confirmed'[d] \subseteq DOMAIN journal[d]
    BY <1>0, <2>1, <2>2, <2>3, Zenon DEF DiskInv
  <2> QED
    BY <1>0, <1>1, <2>1, <2>4, <2>5, Zenon DEF DiskInv, InHand
<1>3. CASE ~StoreOpenRegister(c)
  <2>1. KeepDisk
    BY <1>3, Zenon DEF StoreOpenBegin, StoreOpenFlush, StoreOpenFault, StorePrepare, StorePublish,
                StoreDetach
  <2> QED
    BY <1>0, <1>1, <2>1, DiskKept, Zenon DEF KeepDisk, diskVars, workVars
<1> QED
  BY <1>2, <1>3, Zenon

\* The next state's journal without a gap is replayed to its end.
LEMMA ContentThen ==
    ASSUME NEW c \in Computers, NEW n \in 1 .. MaxGeneration, DOMAIN journal'[c] = 1 .. n
    PROVE  Content(c)' = journal'[c][n]
<1>1. MaxGeneration \in Nat /\ n \in Int /\ n >= 1 /\ n \in 0 .. MaxGeneration
  BY LimitsAssumption
<1>2. ASSUME NEW m \in 0 .. MaxGeneration, 1 .. m \subseteq 1 .. n, m + 1 \notin 1 .. n
      PROVE  m = n
  <2>1. m = 0 \/ m \in 1 .. m
    BY <1>1
  <2> QED
    BY <1>1, <1>2, <2>1
<1>3. n + 1 \notin 1 .. n
  BY <1>1
<1>4. Replayed(c)' = n
  BY <1>1, <1>2, <1>3, Zenon DEF Replayed
<1> QED
  BY <1>1, <1>4 DEF Content

\* The order of persist_mutation: object, record, `confirmed'.
LEMMA PersistDisk ==
    ASSUME StoreInv, Reliable, PersistObject \/ PersistJournal \/ PersistConfirmed
    PROVE  DiskInv'
<1> DEFINE c == worker.cmd.id
           gen == worker.cmd.gen
<1>0. /\ DiskInv /\ Careful
      /\ InHand("Mutation")
      /\ journal \in [Computers -> Journals]
      /\ confirmed \in [Computers -> Nat]
      /\ stray \in [Computers -> SUBSET Nat]
  BY Zenon DEF StoreInv, StoreTypeOK, PersistObject, PersistJournal, PersistConfirmed, Careful
<1>1. /\ c \in Computers /\ gen \in 1 .. MaxGeneration /\ worker.cmd.body \in Bodies
      /\ MaxGeneration \in Nat
      /\ health # "Faulted"
      /\ worker' = worker
  BY <1>0, HandShape, HandMeansHealthy, LimitsAssumption, ZenonT(40)
     DEF PersistObject, PersistJournal, PersistConfirmed, KeepForWorker, gateVars
<1>2. CASE PersistObject
  <2>1. /\ objects' = objects \cup ({worker.cmd.body} \cap Objects)
        /\ UNCHANGED <<journal, confirmed, stray>>
    BY <1>2, Zenon DEF PersistObject
  <2>2. \A d \in Computers : Content(d)' = Content(d)
    BY <2>1, ReplayKept, Zenon
  <2>3. worker.cmd.body \in objects' \cup {NoObject}
    BY <1>1, <2>1, Zenon DEF Objects
  <2> QED
    BY <1>0, <1>1, <2>1, <2>2, <2>3, SMTT(30) DEF DiskInv
<1>3. CASE PersistJournal
  <2>1. /\ stage = "journal"
        /\ journal' = [journal EXCEPT ![c] = [g \in DOMAIN journal[c] \cup {gen} |->
              IF g = gen THEN worker.cmd.body ELSE journal[c][g]]]
        /\ stray' = [stray EXCEPT ![c] = stray[c] \ {gen}]
        /\ UNCHANGED <<confirmed, objects>>
    BY <1>3, Zenon DEF PersistJournal
  <2>2. DOMAIN journal[c] = 1 .. gen - 1
    BY <1>0, <1>1, <2>1, HandJournal, Zenon
  <2>3. /\ DOMAIN journal'[c] = 1 .. gen
        /\ journal'[c][gen] = worker.cmd.body
        /\ \A d \in Computers \ {c} : journal'[d] = journal[d]
    <3>1. /\ DOMAIN journal'[c] = DOMAIN journal[c] \cup {gen}
          /\ journal'[c][gen] = worker.cmd.body
          /\ \A d \in Computers \ {c} : journal'[d] = journal[d]
      BY <1>0, <1>1, <2>1, Zenon
    <3>2. (1 .. gen - 1) \cup {gen} = 1 .. gen
      BY <1>1
    <3> QED
      BY <2>2, <3>1, <3>2, Zenon
  <2>4. ASSUME NEW d \in Computers, d = c
        PROVE  Content(d)' = worker.cmd.body
    BY <1>1, <2>3, <2>4, ContentThen, Zenon
  <2>5. \A d \in Computers \ {c} : Content(d)' = Content(d)
    BY <2>3, ReplayKept, Zenon
  <2>6. \A d \in Computers : Content(d)' \in objects' \cup {NoObject}
    BY <1>0, <2>1, <2>4, <2>5, Zenon DEF DiskInv
  <2>7. \A d \in Computers : /\ 1 .. confirmed'[d] \subseteq DOMAIN journal'[d]
                             /\ stray'[d] \subseteq (1 .. MaxGeneration) \ DOMAIN journal'[d]
    <3>1. /\ stray'[c] = stray[c] \ {gen}
          /\ \A d \in Computers \ {c} : stray'[d] = stray[d]
      BY <1>0, <1>1, <2>1, Zenon
    <3>2. /\ 1 .. confirmed[c] \subseteq 1 .. gen - 1
          /\ stray[c] \subseteq (1 .. MaxGeneration) \ (1 .. gen - 1)
      BY <1>0, <1>1, <2>2, ZenonT(40) DEF DiskInv
    <3>3. /\ 1 .. confirmed[c] \subseteq 1 .. gen
          /\ stray[c] \ {gen} \subseteq (1 .. MaxGeneration) \ (1 .. gen)
      BY <1>1, <3>2, SMTT(30)
    <3> QED
      BY <1>0, <2>1, <2>3, <3>1, <3>3, Zenon DEF DiskInv
  <2> QED
    BY <1>0, <1>1, <2>1, <2>6, <2>7, Zenon DEF DiskInv
<1>4. CASE PersistConfirmed
  <2>1. /\ stage = "confirmed"
        /\ confirmed' = [confirmed EXCEPT ![c] = gen]
        /\ UNCHANGED <<journal, stray, objects>>
    BY <1>4, Zenon DEF PersistConfirmed
  <2>2. DOMAIN journal[c] = 1 .. gen
    BY <1>0, <1>1, <2>1, HandJournal, Zenon
  <2>3. \A d \in Computers : 1 .. confirmed'[d] \subseteq DOMAIN journal[d]
    BY <1>0, <1>1, <2>1, <2>2, Zenon DEF DiskInv
  <2>4. \A d \in Computers : Content(d)' = Content(d)
    BY <2>1, ReplayKept, Zenon
  <2> QED
    BY <1>0, <1>1, <2>1, <2>3, <2>4, SMTT(30) DEF DiskInv
<1> QED
  BY <1>2, <1>3, <1>4, Zenon

LEMMA WorkerDisk ==
    ASSUME StoreInv, Reliable,
           \/ PersistObject \/ PersistJournal \/ PersistConfirmed \/ StorePersisted
           \/ PersistTombstone \/ (\E o \in Objects : CollectObject(o))
           \/ StoreCompleted \/ StoreFailed \/ StoreWorkerLoop
    PROVE  DiskInv'
<1>0. /\ DiskInv
      /\ worker.pc # "busy" => stage = "object"
  BY Zenon DEF StoreInv, StageInv
<1>1. CASE StorePersisted \/ StoreCompleted
  <2>1. UNCHANGED <<journal, confirmed, stray, objects>> /\ stage' = "object"
    BY <1>1, Zenon DEF StorePersisted, StoreCompleted, diskVars
  <2> QED
    BY <1>0, <2>1, DiskKept, Zenon
<1>2. CASE StoreFailed
  <2>1. InHand("Control")
    BY <1>2, Zenon DEF StoreFailed, Reliable, RemovesMissingFile
  <2>2. UNCHANGED <<journal, confirmed, stray, objects>> /\ stage' = "object"
    BY <1>2, <2>1, Zenon DEF StoreFailed, Interrupted, InHand
  <2> QED
    BY <1>0, <2>2, DiskKept, Zenon
<1>3. CASE PersistTombstone
  <2>1. UNCHANGED <<journal, confirmed, stray, objects, worker>> /\ InHand("Control")
    BY <1>3, Zenon DEF PersistTombstone, KeepForWorker, gateVars
  <2>2. ~InHand("Mutation")'
    BY <2>1, Zenon DEF InHand
  <2> QED
    BY <1>0, <2>1, <2>2, DiskKept, Zenon
<1>4. ASSUME NEW o \in Objects, CollectObject(o)
      PROVE  DiskInv'
  <2>1. /\ UNCHANGED <<journal, confirmed, stray, worker>> /\ InHand("Control")
        /\ objects' = objects \ {o}
        /\ o \in worker.cmd.body.remove
    BY <1>4, Zenon DEF CollectObject, KeepForWorker, gateVars
  <2>2. \A c \in Computers : Content(c) # o
    BY <2>1, Zenon DEF StoreInv, CollectInv, CollectCommands, Spares
  <2>3. \A c \in Computers : Content(c)' = Content(c)
    BY <2>1, ReplayKept, Zenon
  <2>4. ~InHand("Mutation")'
    BY <2>1, Zenon DEF InHand
  <2> QED
    BY <1>0, <2>1, <2>2, <2>3, <2>4, Zenon DEF DiskInv
<1>5. CASE StoreWorkerLoop
  <2>1. /\ UNCHANGED <<journal, confirmed, stray, objects, stage>>
        /\ worker' = worker \/ worker.pc # "busy"
    BY <1>5, Zenon DEF StoreWorkerLoop, WorkerSleep, WorkerTake, WorkerCompletedFailed, KeepDisk, diskVars,
                workVars
  <2> QED
    BY <1>0, <2>1, DiskKept, Zenon
<1> QED
  BY <1>1, <1>2, <1>3, <1>4, <1>5, PersistDisk, Zenon

LEMMA StepDisk ==
    ASSUME StoreInv, Reliable, [StoreNext]_storeVars
    PROVE  DiskInv'
<1>0. DiskInv
  BY Zenon DEF StoreInv
<1>1. ASSUME UNCHANGED <<journal, confirmed, stray, objects, worker, stage>>
      PROVE  DiskInv'
  BY <1>0, <1>1, DiskKept, Zenon
<1>2. CASE UNCHANGED storeVars
  BY <1>1, <1>2, Zenon DEF storeVars, gateVars, diskVars, workVars
<1>3. ASSUME StoreCloseBegin \/ StoreClosing \/ StoreCloseMark
      PROVE  DiskInv'
  BY <1>1, <1>3, ClosingKeeps, Zenon DEF diskVars, workVars
<1>4. ASSUME NEW k \in Callers,
             \/ (\E c \in Computers, g \in 0 .. MaxGeneration : StoreFlush(k, c, g))
             \/ StoreFlushWake(k)
             \/ (\E c \in Computers, present \in BOOLEAN : Tombstone(k, c, present))
             \/ (\E c \in Computers : SaveBegin(k, c) \/ DiscardExecution(k, c))
             \/ SaveCheck(k) \/ SaveWrite(k)
             \/ CollectBegin(k) \/ CollectFlush(k) \/ CollectFlushed(k) \/ CollectReach(k)
             \/ CollectList(k) \/ CollectSend(k) \/ CollectReturn(k)
      PROVE  DiskInv'
  BY <1>1, <1>4, CallsKeep, Zenon
<1>5. ASSUME Crash \/ Reopen
      PROVE  DiskInv'
  <2>1. /\ UNCHANGED <<journal, confirmed, objects>> /\ Interrupted
        /\ worker' = [pc |-> "running"]
    BY <1>5, Zenon DEF Crash, Reopen, Restarted, Interrupted
  <2>2. ~InHand("Mutation")'
    BY <2>1, Zenon DEF InHand
  <2>3. CASE UNCHANGED stray
    BY <1>0, <2>1, <2>2, <2>3, DiskKept, Zenon
  <2>4. CASE ~UNCHANGED stray
    <3> DEFINE c == worker.cmd.id
               gen == worker.cmd.gen
    <3>1. /\ InHand("Mutation") /\ stage = "journal"
          /\ stray' = [stray EXCEPT ![c] = stray[c] \cup {gen}]
      BY <2>1, <2>4, Zenon DEF Interrupted
    <3>2. /\ c \in Computers /\ gen \in 1 .. MaxGeneration /\ MaxGeneration \in Nat
          /\ stray \in [Computers -> SUBSET Nat]
      BY <3>1, HandShape, LimitsAssumption, Zenon DEF StoreInv, StoreTypeOK
    <3>3. DOMAIN journal[c] = 1 .. gen - 1
      BY <3>1, HandMeansHealthy, HandJournal, Zenon DEF Careful
    <3>4. gen \in (1 .. MaxGeneration) \ DOMAIN journal[c]
      BY <3>2, <3>3
    <3>5. \A d \in Computers : stray'[d] \subseteq (1 .. MaxGeneration) \ DOMAIN journal[d]
      <4>1. stray[c] \cup {gen} \subseteq (1 .. MaxGeneration) \ DOMAIN journal[c]
        BY <1>0, <3>2, <3>4, Zenon DEF DiskInv
      <4> HIDE DEF c, gen
      <4> QED
        BY <1>0, <3>1, <3>2, <4>1, Zenon DEF DiskInv
    <3>6. \A d \in Computers : Content(d)' = Content(d)
      BY <2>1, ReplayKept, Zenon
    <3> QED
      BY <1>0, <2>1, <2>2, <3>5, <3>6, ZenonT(40) DEF DiskInv
  <2> QED
    BY <2>3, <2>4, Zenon
<1> QED
  BY <1>2, <1>3, <1>4, <1>5, CarrierDisk, WorkerDisk, Zenon DEF StoreNext
================================================================================
