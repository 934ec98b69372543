------------------------------- MODULE BridgeProofs -------------------------------
(***************************************************************************)
(* Theorems about Bridge, for every number of threads, computers and       *)
(* objects.                                                                *)
(*                                                                         *)
(* The invariant says what a thread knows in the middle of a function:     *)
(* which tables it can be in, and that the session it saves is the one it  *)
(* compared with the store.  Its steps are proved from what a step does to *)
(* the three tables (TableFacts); that is shown at the end, where the      *)
(* exported functions turn out to take only steps of HandleTable, so that  *)
(* what HandleTableProofs proves holds of each of the tables.              *)
(***************************************************************************)
EXTENDS Bridge, HandleTableProofs

\* A sequence keeps its length and its kind of entries when one is replaced.
LEMMA EntryReplaced ==
    ASSUME NEW S, NEW s \in Seq(S), NEW i, NEW e \in S
    PROVE  [s EXCEPT ![i] = e] \in Seq(S) /\ Len([s EXCEPT ![i] = e]) = Len(s)
<1> DEFINE n == [s EXCEPT ![i] = e]
<1>1. /\ DOMAIN n = 1 .. Len(s) /\ n = [j \in DOMAIN n |-> n[j]]
      /\ \A j \in 1 .. Len(s) : n[j] \in S
  OBVIOUS
<1> HIDE DEF n
<1>2. Len(s) \in Nat
  OBVIOUS
<1>3. n \in Seq(S) /\ Len(n) = Len(s)
  BY <1>1, <1>2
<1> QED
  BY <1>3 DEF n

\* The functions in which a thread can be in each of the tables.
SessionOps == {"save", "advance", "size", "copy", "complete", "use", "verify", "deploy",
               "deployed", "closeSession"}
StoreOps == {"query", "command", "closeStore", "forgetStore", "open", "limits", "save",
             "restore", "discard"}
CandidateOps == {"deploy", "deployed", "closeCandidate"}

SessionRecords == [handle : Handles \cup {None}, id : Ids \cup {None}, home : Nat,
                   host : BOOLEAN, retained : Nat, computer : Computers]

JobStates ==
    [op : {"none", "query", "closeSession", "closeCandidate", "advance", "use", "verify",
           "deployed"}]
    \cup [op : {"command"}, id : Ids, tombstone : BOOLEAN]
    \cup [op : {"closeStore", "forgetStore", "copy"}, handle : Handles]
    \cup [op : {"open", "save", "restore"}, handle : Handles, id : Ids]
    \cup [op : {"limits"}, handle : Handles, session : SessionRecords]
    \cup [op : {"insert"}, session : SessionRecords]
    \cup [op : {"discard"}, id : Ids]
    \cup [op : {"size"}, handle : Handles, token : 1 .. MaxTokens]
    \cup [op : {"complete"}, token : 1 .. MaxTokens]
    \cup [op : {"candidate"}, machine : Nat]
    \cup [op : {"deploy"}, candidate : Handles]

Checkpoints == [by : Nat, into : Nat, computer : Computers]

\* The types of what the bridge adds to the tables.
BridgeTypes ==
    /\ sessions \in Seq(SessionRecords)
    /\ disk \in [Ids -> [tombstone : BOOLEAN, checkpoint : Checkpoints \cup {None}]]
    /\ jobs \in [Threads -> JobStates]
    /\ installs \in Seq(Nat)
    /\ Len(sessions) = Len(cells)
    /\ Len(installs) = Len(candCells)

\* The session of a stored computer lives in the store its handle was issued for.
Placed(s) == s.id # None => s.handle \in DOMAIN storeIssued /\ storeIssued[s.handle] = s.home

\* The bridge has the request of the compilation the computer waits for.
Retains(s) == s.computer.pending # 0 => s.retained = s.computer.pending

SessionsInv == \A i \in 1 .. Len(sessions) : Placed(sessions[i]) /\ Retains(sessions[i])

\* What holds of a thread in the middle of a function.
ThreadInv(t) ==
    /\ calls[t].pc # "idle" => jobs[t].op \in SessionOps
    /\ storeCalls[t].pc # "idle" => jobs[t].op \in StoreOps
    /\ candCalls[t].pc # "idle" => jobs[t].op \in CandidateOps
    /\ jobs[t].op \in {"open", "save", "restore"} /\ storeCalls[t].pc # "idle" =>
          storeCalls[t].handle = jobs[t].handle
    /\ jobs[t].op = "save" /\ storeCalls[t].pc # "idle" =>
          calls[t].pc = "inside" /\ Owns(sessions[calls[t].cell], jobs[t].handle, jobs[t].id)
    /\ jobs[t].op = "deploy" /\ candCalls[t].pc # "idle" => calls[t].pc = "inside"
    /\ jobs[t].op = "deployed" => calls[t].pc = "inside" /\ candCalls[t].pc = "inside"
    /\ jobs[t].op \in {"limits", "insert"} => Placed(jobs[t].session) /\ Retains(jobs[t].session)

\* A saved checkpoint names the session that wrote it.
CheckpointsInv == \A id \in Ids : disk[id].checkpoint # None =>
    /\ disk[id].checkpoint.by \in 1 .. Len(sessions)
    /\ sessions[disk[id].checkpoint.by].home = disk[id].checkpoint.into
    /\ sessions[disk[id].checkpoint.by].id = id

\* An installed candidate is gone from its cell, and only the deployment that installed
\* it is still inside.
InstallsInv == \A c \in 1 .. Len(installs) :
    /\ installs[c] <= 1
    /\ installs[c] # 0 =>
          /\ ~candCells[c].full
          /\ \A t \in Threads : candCalls[t].pc = "inside" /\ candCalls[t].cell = c =>
                jobs[t].op = "deployed"

TablesInv ==
    /\ TableInv /\ UserInv
    /\ Stores!TableInv /\ Stores!UserInv
    /\ Candidates!TableInv /\ Candidates!UserInv

\* The inductive invariant.
BridgeInv ==
    /\ TablesInv
    /\ BridgeTypes
    /\ SessionsInv
    /\ \A t \in Threads : ThreadInv(t)
    /\ CheckpointsInv
    /\ InstallsInv

--------------------------------------------------------------------------------
(* What the tables show *)

\* The host only passes handles the tables know the space of.
HandlesKnown ==
    /\ SessionHandles \subseteq Handles
    /\ StoreHandles \subseteq Handles
    /\ CandidateHandles \subseteq Handles

\* What a step of thread t does to the table of sessions: the calls of the others stay,
\* and the call of t goes through its two steps.
SessionFacts(t) ==
    /\ \A u \in Threads : u # t => calls'[u] = calls[u]
    /\ Len(cells') = IF Create(t) \/ PublishSession(t) THEN Len(cells) + 1 ELSE Len(cells)
    /\ \A u \in Threads : calls[u].pc = "inside" => calls[u].cell \in 1 .. Len(cells)
    /\ Leave(t) \/ Close(t) \/ Panic(t) => calls[t].pc = "inside" /\ calls'[t].pc = "idle"
    /\ TryLock(t) => calls[t].pc = "lock" /\ calls'[t].pc \in {"idle", "inside"}
    /\ \A kind, h : Resolve(t, kind, h) => calls[t].pc = "idle" /\ calls'[t].pc \in {"idle", "lock"}

\* The same for the stores; a handle keeps the store it was issued for.
StoreFacts(t) ==
    /\ \A u \in Threads : u # t => storeCalls'[u] = storeCalls[u]
    /\ \A h \in DOMAIN storeIssued : h \in DOMAIN storeIssued' /\ storeIssued'[h] = storeIssued[h]
    /\ Len(storeCells') = IF StoreOpen(t) THEN Len(storeCells) + 1 ELSE Len(storeCells)
    /\ \A u \in Threads : storeCalls[u].pc = "inside" =>
          /\ storeCalls[u].cell \in 1 .. Len(storeCells)
          /\ storeCalls[u].handle \in DOMAIN storeIssued
          /\ storeIssued[storeCalls[u].handle] = storeCalls[u].cell
    /\ Stores!Leave(t) \/ Stores!Close(t) \/ Stores!Panic(t) =>
          storeCalls[t].pc = "inside" /\ storeCalls'[t].pc = "idle"
    /\ Stores!TryLock(t) =>
          /\ storeCalls[t].pc = "lock"
          /\ storeCalls'[t].pc \in {"idle", "inside"}
          /\ storeCalls'[t].pc = "inside" => storeCalls'[t].handle = storeCalls[t].handle
    /\ \A kind, h : Stores!Resolve(t, kind, h) =>
          /\ storeCalls[t].pc = "idle"
          /\ storeCalls'[t].pc \in {"idle", "lock"}
          /\ storeCalls'[t].pc = "lock" => storeCalls'[t].handle = h

\* The same for the candidates; only the call that is inside a cell, or that finds a
\* value in it, changes it.
CandidateFacts(t) ==
    /\ \A u \in Threads : u # t => candCalls'[u] = candCalls[u]
    /\ Len(candCells') = IF PublishCandidate(t) THEN Len(candCells) + 1 ELSE Len(candCells)
    /\ \A c \in 1 .. Len(candCells) :
          \/ candCells'[c] = candCells[c]
          \/ /\ candCalls[t].pc = "inside" \/ candCells[c].full
             /\ candCalls[t].pc # "idle" /\ candCalls[t].cell = c
    /\ PublishCandidate(t) =>
          candCalls' = candCalls /\ \A c \in 1 .. Len(candCells) : candCells'[c] = candCells[c]
    /\ candCalls'[t].pc = "inside" =>
          \/ candCalls'[t] = candCalls[t]
          \/ candCells[candCalls[t].cell].full /\ candCalls'[t].cell = candCalls[t].cell
    /\ Candidates!Consumed(t) => ~candCells'[candCalls[t].cell].full
    /\ \A u \in Threads : candCalls[u].pc = "inside" =>
          /\ candCalls[u].cell \in 1 .. Len(candCells)
          /\ \A v \in Threads : v # u /\ candCalls[v].pc = "inside" => candCalls[v].cell # candCalls[u].cell
    /\ Candidates!GiveBack(t) \/ Candidates!Close(t) \/ Candidates!Consumed(t) \/ Candidates!Panic(t) =>
          candCalls[t].pc = "inside" /\ candCalls'[t].pc = "idle"
    /\ Candidates!TryLock(t) => candCalls[t].pc = "lock" /\ candCalls'[t].pc \in {"idle", "inside"}
    /\ \A kind, h : Candidates!Resolve(t, kind, h) =>
          candCalls[t].pc = "idle" /\ candCalls'[t].pc \in {"idle", "lock"}

TableFacts(t) == HandlesKnown /\ SessionFacts(t) /\ StoreFacts(t) /\ CandidateFacts(t)

--------------------------------------------------------------------------------
(* The exported functions take steps of the tables *)

\* A function enters a table first of all.
EntersStore(t) == \E h \in Handles, job \in JobStates :
    /\ job.op \in {"query", "command", "closeStore", "open", "restore", "discard"}
    /\ job.op \in {"open", "restore"} => job.handle = h
    /\ EnterStore(t, h, job)

EntersSession(t) == \E h \in Handles, job \in JobStates :
    /\ job.op \in {"save", "advance", "size", "complete", "use", "verify", "deploy"}
    /\ EnterSession(t, h, job)

\* A call opens a store, creates a session, or enters a table.
LEMMA CallForms ==
    ASSUME HandlesKnown, NEW t \in Threads, Call(t)
    PROVE  \/ StoreOpen(t) \/ Create(t) \/ EntersStore(t) \/ EntersSession(t)
           \/ \E h \in Handles : CloseSession(t, h) \/ CloseCandidate(t, h)
<1>1. CASE CallStore(t) /\ ~StoreOpen(t)
  <2>1. PICK h \in StoreHandles :
         \/ StoreQuery(t, h)
         \/ StoreClose(t, h)
         \/ \E id \in Ids :
              \/ \E tombstone \in BOOLEAN : StoreCommand(t, h, id, tombstone)
              \/ CreateInStore(t, h, id)
              \/ CreateBootInStore(t, h, id)
              \/ CheckpointRestore(t, h, id)
              \/ CheckpointDiscard(t, h, id)
    BY <1>1, Zenon DEF CallStore
  <2>2. h \in Handles
    BY Zenon DEF HandlesKnown
  <2> DEFINE query == [op |-> "query"]
             close == [op |-> "closeStore", handle |-> h]
             command(id, tombstone) == [op |-> "command", id |-> id, tombstone |-> tombstone]
             open(id) == [op |-> "open", handle |-> h, id |-> id]
             restore(id) == [op |-> "restore", handle |-> h, id |-> id]
             discard(id) == [op |-> "discard", id |-> id]
  <2>3. CASE StoreQuery(t, h) \/ StoreClose(t, h)
    <3>1. query \in JobStates /\ close \in JobStates
      BY <2>2, Zenon DEF JobStates
    <3>2. EnterStore(t, h, query) \/ EnterStore(t, h, close)
      BY <2>3, Zenon DEF StoreQuery, StoreClose
    <3>3. query.op = "query" /\ close.op = "closeStore"
      BY Zenon
    <3> HIDE DEF query, close
    <3> QED
      BY <2>2, <3>1, <3>2, <3>3, Zenon DEF EntersStore
  <2>4. ASSUME NEW id \in Ids, NEW tombstone \in BOOLEAN, StoreCommand(t, h, id, tombstone)
        PROVE  EntersStore(t)
    <3>1. command(id, tombstone) \in JobStates /\ command(id, tombstone).op = "command"
      BY Zenon DEF JobStates
    <3>2. EnterStore(t, h, command(id, tombstone))
      BY <2>4, Zenon DEF StoreCommand
    <3> HIDE DEF command
    <3> QED
      BY <2>2, <3>1, <3>2, Zenon DEF EntersStore
  <2>5. ASSUME NEW id \in Ids, CreateInStore(t, h, id) \/ CreateBootInStore(t, h, id)
        PROVE  EntersStore(t)
    <3>1. open(id) \in JobStates /\ open(id).op = "open" /\ open(id).handle = h
      BY <2>2, Zenon DEF JobStates
    <3>2. EnterStore(t, h, open(id))
      BY <2>5, Zenon DEF CreateInStore, CreateBootInStore
    <3> HIDE DEF open
    <3> QED
      BY <2>2, <3>1, <3>2, Zenon DEF EntersStore
  <2>6. ASSUME NEW id \in Ids, CheckpointRestore(t, h, id)
        PROVE  EntersStore(t)
    <3>1. restore(id) \in JobStates /\ restore(id).op = "restore" /\ restore(id).handle = h
      BY <2>2, Zenon DEF JobStates
    <3>2. EnterStore(t, h, restore(id))
      BY <2>6, Zenon DEF CheckpointRestore
    <3> HIDE DEF restore
    <3> QED
      BY <2>2, <3>1, <3>2, Zenon DEF EntersStore
  <2>7. ASSUME NEW id \in Ids, CheckpointDiscard(t, h, id)
        PROVE  EntersStore(t)
    <3>1. discard(id) \in JobStates /\ discard(id).op = "discard"
      BY Zenon DEF JobStates
    <3>2. EnterStore(t, h, discard(id))
      BY <2>7, Zenon DEF CheckpointDiscard
    <3> HIDE DEF discard
    <3> QED
      BY <2>2, <3>1, <3>2, Zenon DEF EntersStore
  <2> QED
    BY <2>1, <2>3, <2>4, <2>5, <2>6, <2>7, Zenon
<1>2. CASE CallSession(t) /\ ~Create(t)
  <2>1. PICK h \in SessionHandles :
         \/ CloseSession(t, h)
         \/ \E s \in StoreHandles, id \in Ids : CheckpointSave(t, h, s, id)
         \/ Advance(t, h)
         \/ AdvanceWithRetirementLimit(t, h)
         \/ \E token \in 1 .. MaxTokens :
              \/ CompilationRequest(t, h, token)
              \/ CompilationComplete(t, h, token)
         \/ Redstone(t, h)
         \/ ResumeScalar(t, h)
         \/ ResumePayload(t, h)
         \/ SubmitCanonicalLine(t, h)
         \/ TerminalInput(t, h)
         \/ TerminalState(t, h)
         \/ SessionQuery(t, h)
         \/ HostDescriptors(t, h)
         \/ FilesystemInspect(t, h)
         \/ ExecutableRevision(t, h)
         \/ VerifyForDeploy(t, h)
         \/ \E c \in CandidateHandles : Deploy(t, h, c)
    BY <1>2, Zenon DEF CallSession
  <2>2. h \in Handles
    BY Zenon DEF HandlesKnown
  <2> DEFINE plain(op) == [op |-> op]
             save(s, id) == [op |-> "save", handle |-> s, id |-> id]
             size(token) == [op |-> "size", handle |-> h, token |-> token]
             complete(token) == [op |-> "complete", token |-> token]
             deploy(c) == [op |-> "deploy", candidate |-> c]
  <2>3. ASSUME NEW s \in StoreHandles, NEW id \in Ids, CheckpointSave(t, h, s, id)
        PROVE  EntersSession(t)
    <3>1. s \in Handles
      BY Zenon DEF HandlesKnown
    <3>2. save(s, id) \in JobStates /\ save(s, id).op = "save"
      BY <3>1, Zenon DEF JobStates
    <3>3. EnterSession(t, h, save(s, id))
      BY <2>3, Zenon DEF CheckpointSave
    <3> HIDE DEF save
    <3> QED
      BY <2>2, <3>2, <3>3, Zenon DEF EntersSession
  <2>4. ASSUME NEW op \in {"advance", "use", "verify"}, EnterSession(t, h, [op |-> op])
        PROVE  EntersSession(t)
    <3>1. plain(op) \in JobStates /\ plain(op).op = op
      BY Zenon DEF JobStates
    <3>2. EnterSession(t, h, plain(op))
      BY <2>4, Zenon
    <3> HIDE DEF plain
    <3> QED
      BY <2>2, <3>1, <3>2, Zenon DEF EntersSession
  <2>5. ASSUME NEW token \in 1 .. MaxTokens, CompilationRequest(t, h, token)
        PROVE  EntersSession(t)
    <3>1. size(token) \in JobStates /\ size(token).op = "size"
      BY <2>2, Zenon DEF JobStates
    <3>2. EnterSession(t, h, size(token))
      BY <2>5, Zenon DEF CompilationRequest
    <3> HIDE DEF size
    <3> QED
      BY <2>2, <3>1, <3>2, Zenon DEF EntersSession
  <2>6. ASSUME NEW token \in 1 .. MaxTokens, CompilationComplete(t, h, token)
        PROVE  EntersSession(t)
    <3>1. complete(token) \in JobStates /\ complete(token).op = "complete"
      BY Zenon DEF JobStates
    <3>2. EnterSession(t, h, complete(token))
      BY <2>6, Zenon DEF CompilationComplete
    <3> HIDE DEF complete
    <3> QED
      BY <2>2, <3>1, <3>2, Zenon DEF EntersSession
  <2>7. ASSUME NEW c \in CandidateHandles, Deploy(t, h, c)
        PROVE  EntersSession(t)
    <3>1. c \in Handles
      BY Zenon DEF HandlesKnown
    <3>2. deploy(c) \in JobStates /\ deploy(c).op = "deploy"
      BY <3>1, Zenon DEF JobStates
    <3>3. EnterSession(t, h, deploy(c))
      BY <2>7, Zenon DEF Deploy
    <3> HIDE DEF deploy
    <3> QED
      BY <2>2, <3>2, <3>3, Zenon DEF EntersSession
  <2>8. Advance(t, h) \/ AdvanceWithRetirementLimit(t, h) => EntersSession(t)
    BY <2>4, Zenon DEF Advance, AdvanceWithRetirementLimit
  <2>9. VerifyForDeploy(t, h) => EntersSession(t)
    BY <2>4, Zenon DEF VerifyForDeploy
  <2>10. Redstone(t, h) \/ ResumeScalar(t, h) \/ ResumePayload(t, h) \/ SubmitCanonicalLine(t, h)
            \/ TerminalInput(t, h) \/ TerminalState(t, h) \/ SessionQuery(t, h)
            \/ HostDescriptors(t, h) \/ FilesystemInspect(t, h) \/ ExecutableRevision(t, h)
         => EntersSession(t)
    BY <2>4, Zenon DEF Redstone, ResumeScalar, ResumePayload, SubmitCanonicalLine, TerminalInput,
                TerminalState, SessionQuery, HostDescriptors, FilesystemInspect, ExecutableRevision
  <2> QED
    BY <2>1, <2>2, <2>3, <2>5, <2>6, <2>7, <2>8, <2>9, <2>10, Zenon
<1>3. CASE CallCandidate(t)
  BY <1>3, Zenon DEF CallCandidate, HandlesKnown
<1> QED
  BY <1>1, <1>2, <1>3, Zenon DEF Call

\* What the function a thread is in has in its hands.
LEMMA JobShape ==
    ASSUME NEW job \in JobStates
    PROVE  /\ job.op \in {"closeStore", "forgetStore", "copy", "open", "save", "restore", "limits",
                          "size"} => job.handle \in Handles
           /\ job.op \in {"command", "open", "save", "restore", "discard"} => job.id \in Ids
           /\ job.op \in {"limits", "insert"} => job.session \in SessionRecords
           /\ job.op = "deploy" => job.candidate \in Handles
           /\ job.op = "command" => job.tombstone \in BOOLEAN
           /\ job.op = "none" => job = NoJob
BY Zenon DEF JobStates, NoJob

\* What a thread does to the table of sessions.
LEMMA SessionSteps ==
    ASSUME BridgeInv, HandlesKnown, NEW t \in Threads, Call(t) \/ Work(t)
    PROVE  \/ [StepOf(t)]_tableVars
           \/ InsertStep /\ (Create(t) \/ PublishSession(t))
<1>0. "with" \in Kinds /\ "close" \in Kinds
  BY Zenon DEF Kinds
<1>1. CASE Call(t)
  <2>1. StoreOpen(t) \/ EntersStore(t) \/ (\E h \in Handles : CloseCandidate(t, h)) =>
          UNCHANGED tableVars
    BY Zenon DEF StoreOpen, EntersStore, EnterStore, CloseCandidate, sessionTable
  <2>2. Create(t) => InsertStep
    BY Zenon DEF Create, InsertSession, InsertStep
  <2>3. EntersSession(t) \/ (\E h \in Handles : CloseSession(t, h)) => StepOf(t)
    BY <1>0, Zenon DEF EntersSession, EnterSession, CloseSession, StepOf
  <2> QED
    BY <1>1, <2>1, <2>2, <2>3, CallForms, Zenon
<1>2. CASE Work(t)
  <2>1. CASE LockStore(t) \/ LockCandidate(t) \/ QueryStore(t) \/ CommandStore(t) \/ CloseStore(t)
               \/ ForgetStore(t) \/ OpenInStore(t) \/ LimitsOfStore(t) \/ RestoreInStore(t)
               \/ DiscardInStore(t) \/ PublishCandidate(t) \/ CandidateClosed(t) \/ PanicInStore(t)
    <3>1. UNCHANGED sessionTable
      BY <2>1, Zenon DEF LockStore, LockCandidate, QueryStore, CommandStore, CloseStore, ForgetStore,
           OpenInStore, LimitsOfStore, RestoreInStore, DiscardInStore, PublishCandidate,
           CandidateClosed, PanicInStore
    <3> QED
      BY <3>1, Zenon DEF sessionTable
  <2>2. CASE SaveInSession(t) \/ SaveLockStore(t) \/ SaveInStore(t)
               \/ AdvanceSession(t) \/ CompleteCompilation(t) \/ UseSession(t) \/ VerifyInSession(t)
               \/ DeployResolve(t) \/ DeployLock(t) \/ DeployInstall(t) \/ DeployEnd(t)
    <3>1. Leave(t) \/ UNCHANGED sessionTable
      BY <2>2, Zenon DEF SaveInSession, SaveLockStore, SaveInStore, AdvanceSession, CompleteCompilation,
           UseSession, VerifyInSession, DeployResolve, DeployLock, DeployInstall, DeployEnd
    <3> QED
      BY <3>1, Zenon DEF sessionTable, StepOf
  <2>3. CASE LockSession(t) \/ SessionClosed(t) \/ PanicInSession(t)
    BY <2>3, Zenon DEF LockSession, SessionClosed, PanicInSession, StepOf
  <2>4. CASE PublishSession(t)
    BY <2>4, Zenon DEF PublishSession, InsertSession, InsertStep
  <2>5. CASE CopyCompilationRequest(t)
    <3>1. jobs[t] \in JobStates
      BY Zenon DEF BridgeInv, BridgeTypes
    <3>2. jobs[t].op = "copy" => jobs[t].handle \in Handles
      BY <3>1, JobShape, Zenon
    <3> QED
      BY <1>0, <2>5, <3>2, Zenon DEF CopyCompilationRequest, StepOf
  <2> QED
    BY <1>2, <2>1, <2>2, <2>3, <2>4, <2>5, Zenon DEF Work
<1> QED
  BY <1>1, <1>2, Zenon

\* What a thread does to the table of stores.
LEMMA StoreSteps ==
    ASSUME BridgeInv, HandlesKnown, NEW t \in Threads, Call(t) \/ Work(t)
    PROVE  \/ [Stores!StepOf(t)]_storeTable
           \/ Stores!InsertStep /\ StoreOpen(t)
<1>0. "with" \in Stores!Kinds /\ "close" \in Stores!Kinds
  BY Zenon DEF Stores!Kinds
<1>1. jobs[t] \in JobStates
  BY Zenon DEF BridgeInv, BridgeTypes
<1>2. CASE Call(t)
  <2>1. CASE Create(t) \/ EntersSession(t) \/ \E h \in Handles : CloseSession(t, h) \/ CloseCandidate(t, h)
    BY <2>1, Zenon DEF Create, EntersSession, EnterSession, CloseSession, CloseCandidate
  <2>2. CASE StoreOpen(t)
    BY <2>2, Zenon DEF StoreOpen, Stores!InsertStep
  <2>3. CASE EntersStore(t)
    BY <1>0, <2>3, Zenon DEF EntersStore, EnterStore, Stores!StepOf
  <2> QED
    BY <1>2, <2>1, <2>2, <2>3, CallForms, Zenon
<1>3. CASE Work(t)
  <2>1. CASE LockSession(t) \/ LockCandidate(t) \/ PublishSession(t) \/ SessionClosed(t)
               \/ AdvanceSession(t) \/ CopyCompilationRequest(t) \/ CompleteCompilation(t)
               \/ UseSession(t) \/ VerifyInSession(t) \/ PublishCandidate(t) \/ CandidateClosed(t)
               \/ DeployResolve(t) \/ DeployLock(t) \/ DeployInstall(t) \/ DeployEnd(t)
    BY <2>1, Zenon DEF LockSession, LockCandidate, PublishSession, SessionClosed, AdvanceSession,
         CopyCompilationRequest, CompleteCompilation, UseSession, VerifyInSession,
         PublishCandidate, CandidateClosed, DeployResolve, DeployLock, DeployInstall, DeployEnd
  <2>2. CASE QueryStore(t) \/ CommandStore(t) \/ CloseStore(t) \/ OpenInStore(t)
               \/ SaveInStore(t) \/ RestoreInStore(t) \/ DiscardInStore(t)
    <3>1. Stores!Leave(t)
      BY <2>2, Zenon DEF QueryStore, CommandStore, CloseStore, OpenInStore, SaveInStore, RestoreInStore,
                  DiscardInStore
    <3> QED
      BY <3>1, Zenon DEF Stores!StepOf
  <2>3. CASE LockStore(t) \/ SaveLockStore(t) \/ PanicInStore(t) \/ PanicInSession(t)
    <3>1. Stores!TryLock(t) \/ Stores!Panic(t) \/ UNCHANGED storeTable
      BY <2>3, Zenon DEF LockStore, SaveLockStore, PanicInStore, PanicInSession
    <3> QED
      BY <3>1, Zenon DEF Stores!StepOf
  <2>4. CASE ForgetStore(t) \/ LimitsOfStore(t) \/ SaveInSession(t)
    <3>1. jobs[t].handle \in Handles
      BY <1>1, <2>4, JobShape, Zenon DEF ForgetStore, LimitsOfStore, SaveInSession
    <3>2. \/ \E kind \in {"with", "close"} : Stores!Resolve(t, kind, jobs[t].handle)
          \/ Stores!Close(t) \/ Stores!Leave(t) \/ UNCHANGED storeTable
      BY <2>4, Zenon DEF ForgetStore, LimitsOfStore, SaveInSession
    <3> QED
      BY <1>0, <3>1, <3>2, Zenon DEF Stores!StepOf
  <2> QED
    BY <1>3, <2>1, <2>2, <2>3, <2>4, Zenon DEF Work
<1> QED
  BY <1>2, <1>3, Zenon

\* What a thread does to the table of candidates.
LEMMA CandidateSteps ==
    ASSUME BridgeInv, HandlesKnown, NEW t \in Threads, Call(t) \/ Work(t)
    PROVE  \/ [Candidates!StepOf(t)]_candTable
           \/ Candidates!InsertStep /\ PublishCandidate(t)
<1>0. "consume" \in Candidates!Kinds /\ "close" \in Candidates!Kinds
  BY Zenon DEF Candidates!Kinds
<1>1. jobs[t] \in JobStates
  BY Zenon DEF BridgeInv, BridgeTypes
<1>2. CASE Call(t)
  <2>1. CASE Create(t) \/ StoreOpen(t) \/ EntersSession(t) \/ EntersStore(t)
               \/ \E h \in Handles : CloseSession(t, h)
    BY <2>1, Zenon DEF Create, StoreOpen, EntersSession, EnterSession, EntersStore, EnterStore, CloseSession
  <2>2. CASE \E h \in Handles : CloseCandidate(t, h)
    BY <1>0, <2>2, Zenon DEF CloseCandidate, Candidates!StepOf
  <2> QED
    BY <1>2, <2>1, <2>2, CallForms, Zenon
<1>3. CASE Work(t)
  <2>1. CASE \/ LockSession(t) \/ LockStore(t)
             \/ QueryStore(t) \/ CommandStore(t) \/ CloseStore(t) \/ ForgetStore(t)
             \/ OpenInStore(t) \/ LimitsOfStore(t) \/ PublishSession(t) \/ SessionClosed(t)
             \/ SaveInSession(t) \/ SaveLockStore(t) \/ SaveInStore(t)
             \/ RestoreInStore(t) \/ DiscardInStore(t)
             \/ AdvanceSession(t) \/ CopyCompilationRequest(t) \/ CompleteCompilation(t)
             \/ UseSession(t) \/ VerifyInSession(t) \/ PanicInStore(t)
    BY <2>1, Zenon DEF LockSession, LockStore, QueryStore, CommandStore, CloseStore, ForgetStore,
         OpenInStore, LimitsOfStore, PublishSession, SessionClosed, SaveInSession, SaveLockStore,
         SaveInStore, RestoreInStore, DiscardInStore, AdvanceSession, CopyCompilationRequest,
         CompleteCompilation, UseSession, VerifyInSession, PanicInStore
  <2>2. CASE PublishCandidate(t)
    BY <2>2, Zenon DEF PublishCandidate, Candidates!InsertStep
  <2>3. CASE DeployResolve(t)
    <3>1. jobs[t].candidate \in Handles
      BY <1>1, <2>3, JobShape, Zenon DEF DeployResolve
    <3>2. Candidates!Resolve(t, "consume", jobs[t].candidate) \/ UNCHANGED candTable
      BY <2>3, Zenon DEF DeployResolve
    <3> QED
      BY <1>0, <3>1, <3>2, Zenon DEF Candidates!StepOf
  <2>4. CASE LockCandidate(t) \/ CandidateClosed(t) \/ DeployLock(t) \/ DeployInstall(t)
               \/ DeployEnd(t) \/ PanicInSession(t)
    <3>1. \/ Candidates!TryLock(t) \/ Candidates!Close(t) \/ Candidates!GiveBack(t)
          \/ Candidates!Consumed(t) \/ Candidates!Panic(t) \/ UNCHANGED candTable
      BY <2>4, Zenon DEF LockCandidate, CandidateClosed, DeployLock, DeployInstall, DeployEnd,
                  PanicInSession
    <3> QED
      BY <3>1, Zenon DEF Candidates!StepOf
  <2> QED
    BY <1>3, <2>1, <2>2, <2>3, <2>4, Zenon DEF Work
<1> QED
  BY <1>2, <1>3, Zenon

--------------------------------------------------------------------------------
(* The functions the threads are in *)

\* What the step of thread t owes the rest of the invariant about functions.
JobStep(t) ==
    /\ jobs' \in [Threads -> JobStates]
    /\ \A u \in Threads : u # t => jobs'[u] = jobs[u]
    /\ ThreadInv(t)'

Quiet(t) == calls[t].pc = "idle" /\ storeCalls[t].pc = "idle" /\ candCalls[t].pc = "idle"

LEMMA Continued ==
    ASSUME BridgeInv, NEW t \in Threads, NEW job \in JobStates, Continue(t, job)
    PROVE  /\ jobs' \in [Threads -> JobStates]
           /\ \A u \in Threads : u # t => jobs'[u] = jobs[u]
           /\ jobs'[t] = job
BY Zenon DEF BridgeInv, BridgeTypes, Continue

LEMMA Returned ==
    ASSUME BridgeInv, NEW t \in Threads, Return(t), Quiet(t)'
    PROVE  JobStep(t)
<1>1. NoJob \in JobStates /\ NoJob.op = "none"
  BY Zenon DEF NoJob, JobStates
<1>2. /\ jobs' \in [Threads -> JobStates]
      /\ \A u \in Threads : u # t => jobs'[u] = jobs[u]
      /\ jobs'[t] = NoJob
  BY <1>1, Continued, Zenon DEF Return
<1>3. ThreadInv(t)'
  BY <1>1, <1>2, Zenon DEF ThreadInv, Quiet
<1> QED
  BY <1>2, <1>3, Zenon DEF JobStep

\* Between functions a thread is in no table, and inside one only in those it uses.
LEMMA WhereThreadsAre ==
    ASSUME BridgeInv, NEW t \in Threads
    PROVE  /\ jobs[t] \in JobStates
           /\ jobs[t].op \notin SessionOps => calls[t].pc = "idle"
           /\ jobs[t].op \notin StoreOps => storeCalls[t].pc = "idle"
           /\ jobs[t].op \notin CandidateOps => candCalls[t].pc = "idle"
           /\ jobs[t] = NoJob => Quiet(t)
BY DEF BridgeInv, BridgeTypes, ThreadInv, SessionOps, StoreOps, CandidateOps, NoJob, Quiet

\* What a thread's call in the table of sessions, stores or candidates is after a step.
LEMMA SessionCall ==
    ASSUME BridgeInv, NEW t \in Threads, TableFacts(t)
    PROVE  /\ Leave(t) \/ Close(t) \/ Panic(t) => calls[t].pc = "inside" /\ calls'[t].pc = "idle"
           /\ TryLock(t) => /\ calls[t].pc = "lock"
                            /\ calls'[t].pc \in {"idle", "inside"}
           /\ \A kind, h : Resolve(t, kind, h) => calls[t].pc = "idle" /\ calls'[t].pc \in {"idle", "lock"}
BY Zenon DEF TableFacts, SessionFacts

LEMMA StoreCall ==
    ASSUME BridgeInv, NEW t \in Threads, TableFacts(t)
    PROVE  /\ Stores!Leave(t) \/ Stores!Close(t) \/ Stores!Panic(t) =>
                 storeCalls[t].pc = "inside" /\ storeCalls'[t].pc = "idle"
           /\ Stores!TryLock(t) =>
                 /\ storeCalls[t].pc = "lock"
                 /\ storeCalls'[t].pc \in {"idle", "inside"}
                 /\ storeCalls'[t].pc = "inside" => storeCalls'[t].handle = storeCalls[t].handle
           /\ \A kind, h : Stores!Resolve(t, kind, h) =>
                 /\ storeCalls[t].pc = "idle"
                 /\ storeCalls'[t].pc \in {"idle", "lock"}
                 /\ storeCalls'[t].pc = "lock" => storeCalls'[t].handle = h
BY Zenon DEF TableFacts, StoreFacts

LEMMA CandidateCall ==
    ASSUME BridgeInv, NEW t \in Threads, TableFacts(t)
    PROVE  /\ Candidates!GiveBack(t) \/ Candidates!Close(t) \/ Candidates!Consumed(t)
                 \/ Candidates!Panic(t) => candCalls[t].pc = "inside" /\ candCalls'[t].pc = "idle"
           /\ Candidates!TryLock(t) =>
                 candCalls[t].pc = "lock" /\ candCalls'[t].pc \in {"idle", "inside"}
           /\ \A kind, h : Candidates!Resolve(t, kind, h) =>
                 candCalls[t].pc = "idle" /\ candCalls'[t].pc \in {"idle", "lock"}
BY Zenon DEF TableFacts, CandidateFacts

\* What a thread's step leaves alone in the tables: the calls of the others, and the
\* objects handles were issued for.
LEMMA OthersStay ==
    ASSUME BridgeInv, NEW t \in Threads, TableFacts(t), Call(t) \/ Work(t)
    PROVE  /\ \A u \in Threads : u # t =>
                 calls'[u] = calls[u] /\ storeCalls'[u] = storeCalls[u] /\ candCalls'[u] = candCalls[u]
           /\ \A h \in DOMAIN storeIssued : h \in DOMAIN storeIssued' /\ storeIssued'[h] = storeIssued[h]
BY Zenon DEF TableFacts, SessionFacts, StoreFacts, CandidateFacts

\* An object a handle was issued for stays the object of that handle.
LEMMA PlacedStays ==
    ASSUME BridgeInv, NEW t \in Threads, TableFacts(t), Call(t) \/ Work(t), NEW s, Placed(s)
    PROVE  s.id # None => s.handle \in DOMAIN storeIssued' /\ storeIssued'[s.handle] = s.home
BY OthersStay, Zenon DEF Placed

LEMMA CallJobs ==
    ASSUME BridgeInv, NEW t \in Threads, TableFacts(t), Call(t)
    PROVE  JobStep(t)
<1>1. CASE StoreOpen(t) \/ Create(t)
  <2>1. jobs' = jobs /\ jobs[t] = NoJob
    BY <1>1, Zenon DEF StoreOpen, Create
  <2>2. Quiet(t)
    BY <2>1, WhereThreadsAre, Zenon
  <2>3. calls' = calls /\ storeCalls' = storeCalls /\ candCalls' = candCalls
    BY <1>1, Zenon DEF StoreOpen, Create, InsertSession, Insert, Stores!Insert, sessionTable, tableVars,
                storeTable, candTable
  <2>4. ThreadInv(t)'
    BY <2>1, <2>2, <2>3 DEF ThreadInv, Quiet, NoJob
  <2> QED
    BY <2>1, <2>4, Zenon DEF JobStep, BridgeInv, BridgeTypes
<1>2. CASE EntersStore(t)
  <2>1. PICK h \in Handles, job \in JobStates :
          /\ job.op \in {"query", "command", "closeStore", "open", "restore", "discard"}
          /\ job.op \in {"open", "restore"} => job.handle = h
          /\ EnterStore(t, h, job)
    BY <1>2, Zenon DEF EntersStore
  <2>2. Quiet(t) /\ calls' = calls /\ candCalls' = candCalls
    BY <2>1, WhereThreadsAre, Zenon DEF EnterStore, sessionTable, tableVars, candTable
  <2>3. /\ storeCalls'[t].pc \in {"idle", "lock"}
        /\ storeCalls'[t].pc = "lock" => storeCalls'[t].handle = h
    BY <2>1, StoreCall, Zenon DEF EnterStore
  <2>4. CASE storeCalls'[t].pc = "idle"
    BY <2>1, <2>2, <2>4, Returned, Zenon DEF EnterStore, Proceed, Quiet
  <2>5. CASE storeCalls'[t].pc = "lock"
    <3>1. Continue(t, job)
      BY <2>1, <2>5, Zenon DEF EnterStore, Proceed
    <3>2. jobs'[t] = job
      BY <3>1, Continued, Zenon
    <3>3. ThreadInv(t)'
      BY <2>1, <2>2, <2>3, <2>5, <3>2, Zenon DEF ThreadInv, Quiet, StoreOps
    <3> QED
      BY <3>1, <3>3, Continued, Zenon DEF JobStep
  <2> QED
    BY <2>3, <2>4, <2>5, Zenon
<1>3. CASE EntersSession(t) \/ \E h \in Handles : CloseSession(t, h)
  <2>1. PICK h \in Handles, job \in JobStates, kind \in Kinds :
          /\ job.op \in SessionOps \ {"deployed"}
          /\ jobs[t] = NoJob
          /\ Resolve(t, kind, h)
          /\ Proceed(t, calls'[t], job)
          /\ UNCHANGED <<storeTable, candTable>>
    <3>1. CASE EntersSession(t)
      BY <3>1, Zenon DEF EntersSession, EnterSession, SessionOps, Kinds
    <3>2. CASE \E h \in Handles : CloseSession(t, h)
      <4> DEFINE job == [op |-> "closeSession"]
      <4>1. job \in JobStates /\ job.op = "closeSession"
        BY Zenon DEF JobStates
      <4>2. PICK h \in Handles : CloseSession(t, h)
        BY <3>2, Zenon
      <4>3. /\ jobs[t] = NoJob
            /\ Resolve(t, "close", h)
            /\ Proceed(t, calls'[t], job)
            /\ UNCHANGED <<storeTable, candTable>>
        BY <4>2, Zenon DEF CloseSession
      <4> HIDE DEF job
      <4> QED
        BY <4>1, <4>3, Zenon DEF SessionOps, Kinds
    <3> QED
      BY <1>3, <3>1, <3>2, Zenon
  <2>2. Quiet(t) /\ storeCalls' = storeCalls /\ candCalls' = candCalls
    BY <2>1, WhereThreadsAre, Zenon DEF storeTable, candTable
  <2>3. calls'[t].pc \in {"idle", "lock"}
    BY <2>1, SessionCall, Zenon
  <2>4. CASE calls'[t].pc = "idle"
    BY <2>1, <2>2, <2>4, Returned, Zenon DEF Proceed, Quiet
  <2>5. CASE calls'[t].pc = "lock"
    <3>1. Continue(t, job)
      BY <2>1, <2>5, Zenon DEF Proceed
    <3>2. jobs'[t] = job
      BY <3>1, Continued, Zenon
    <3>3. ThreadInv(t)'
      BY <2>1, <2>2, <2>5, <3>2, Zenon DEF ThreadInv, Quiet, SessionOps
    <3> QED
      BY <3>1, <3>3, Continued, Zenon DEF JobStep
  <2> QED
    BY <2>3, <2>4, <2>5, Zenon
<1>4. ASSUME NEW h \in Handles, CloseCandidate(t, h)
      PROVE  JobStep(t)
  <2> DEFINE job == [op |-> "closeCandidate"]
  <2>1. job \in JobStates /\ job.op = "closeCandidate"
    BY Zenon DEF JobStates
  <2>2. /\ jobs[t] = NoJob
        /\ Candidates!Resolve(t, "close", h)
        /\ Proceed(t, candCalls'[t], job)
        /\ UNCHANGED <<sessionTable, storeTable>>
    BY <1>4, Zenon DEF CloseCandidate
  <2> HIDE DEF job
  <2>3. Quiet(t) /\ calls' = calls /\ storeCalls' = storeCalls
    BY <2>2, WhereThreadsAre, Zenon DEF sessionTable, tableVars, storeTable
  <2>4. candCalls'[t].pc \in {"idle", "lock"}
    BY <2>2, CandidateCall, Zenon
  <2>5. CASE candCalls'[t].pc = "idle"
    BY <2>2, <2>3, <2>5, Returned, Zenon DEF Proceed, Quiet
  <2>6. CASE candCalls'[t].pc = "lock"
    <3>1. Continue(t, job)
      BY <2>2, <2>6, Zenon DEF Proceed
    <3>2. jobs'[t] = job
      BY <2>1, <3>1, Continued, Zenon
    <3>3. ThreadInv(t)'
      BY <2>1, <2>3, <2>6, <3>2, Zenon DEF ThreadInv, Quiet, CandidateOps
    <3> QED
      BY <2>1, <3>1, <3>3, Continued, Zenon DEF JobStep
  <2> QED
    BY <2>4, <2>5, <2>6, Zenon
<1> QED
  BY <1>1, <1>2, <1>3, <1>4, CallForms, Zenon DEF TableFacts

\* The mutex of the outermost object, and a panic.
LEMMA LockJobs ==
    ASSUME BridgeInv, NEW t \in Threads, TableFacts(t), Work(t),
           LockSession(t) \/ LockStore(t) \/ LockCandidate(t) \/ PanicInSession(t) \/ PanicInStore(t)
    PROVE  JobStep(t)
<1>0. jobs[t] \in JobStates /\ ThreadInv(t)
  BY WhereThreadsAre, Zenon DEF BridgeInv
<1>1. CASE LockSession(t)
  <2>1. calls[t].pc = "lock" /\ calls'[t].pc \in {"idle", "inside"}
    BY <1>1, SessionCall, Zenon DEF LockSession
  <2>2. storeCalls' = storeCalls /\ candCalls' = candCalls
    BY <1>1, Zenon DEF LockSession, storeTable, candTable
  <2>3. jobs[t].op \in SessionOps /\ storeCalls[t].pc = "idle" /\ candCalls[t].pc = "idle"
          /\ jobs[t].op # "deployed"
    BY <1>0, <2>1, Zenon DEF ThreadInv, SessionOps, StoreOps, CandidateOps
  <2>4. CASE calls'[t].pc = "idle"
    BY <1>1, <2>2, <2>3, <2>4, Returned, Zenon DEF LockSession, Proceed, Quiet
  <2>5. CASE calls'[t].pc = "inside"
    <3>1. Continue(t, jobs[t])
      BY <1>1, <2>5, Zenon DEF LockSession, Proceed
    <3>2. jobs'[t] = jobs[t]
      BY <1>0, <3>1, Continued, Zenon
    <3>3. ThreadInv(t)'
      BY <2>2, <2>3, <2>5, <3>2, Zenon DEF ThreadInv, SessionOps
    <3> QED
      BY <1>0, <3>1, <3>3, Continued, Zenon DEF JobStep
  <2> QED
    BY <2>1, <2>4, <2>5, Zenon
<1>2. CASE LockStore(t)
  <2>1. /\ storeCalls[t].pc = "lock" /\ storeCalls'[t].pc \in {"idle", "inside"}
        /\ storeCalls'[t].pc = "inside" => storeCalls'[t].handle = storeCalls[t].handle
    BY <1>2, StoreCall, Zenon DEF LockStore
  <2>2. calls' = calls /\ candCalls' = candCalls /\ storeIssued' = storeIssued
    BY <1>2, Zenon DEF LockStore, Stores!TryLock, sessionTable, tableVars, candTable
  <2>3. jobs[t].op \in StoreOps \ {"save"} /\ calls[t].pc = "idle" /\ candCalls[t].pc = "idle"
    BY <1>0, <1>2, <2>1, Zenon DEF LockStore, ThreadInv, SessionOps, StoreOps, CandidateOps
  <2>4. CASE storeCalls'[t].pc = "idle"
    BY <1>2, <2>2, <2>3, <2>4, Returned, Zenon DEF LockStore, Proceed, Quiet
  <2>5. CASE storeCalls'[t].pc = "inside"
    <3>1. Continue(t, jobs[t])
      BY <1>2, <2>5, Zenon DEF LockStore, Proceed
    <3>2. jobs'[t] = jobs[t]
      BY <1>0, <3>1, Continued, Zenon
    <3>3. ThreadInv(t)'
      BY <1>0, <2>1, <2>2, <2>3, <2>5, <3>2, Zenon DEF ThreadInv, StoreOps, Placed, Retains
    <3> QED
      BY <1>0, <3>1, <3>3, Continued, Zenon DEF JobStep
  <2> QED
    BY <2>1, <2>4, <2>5, Zenon
<1>3. CASE LockCandidate(t)
  <2>1. candCalls[t].pc = "lock" /\ candCalls'[t].pc \in {"idle", "inside"}
    BY <1>3, CandidateCall, Zenon DEF LockCandidate
  <2>2. calls' = calls /\ storeCalls' = storeCalls
    BY <1>3, Zenon DEF LockCandidate, sessionTable, tableVars, storeTable
  <2>3. jobs[t].op = "closeCandidate" /\ calls[t].pc = "idle" /\ storeCalls[t].pc = "idle"
    BY <1>0, <1>3, Zenon DEF LockCandidate, ThreadInv, SessionOps, StoreOps
  <2>4. CASE candCalls'[t].pc = "idle"
    BY <1>3, <2>2, <2>3, <2>4, Returned, Zenon DEF LockCandidate, Proceed, Quiet
  <2>5. CASE candCalls'[t].pc = "inside"
    <3>1. Continue(t, jobs[t])
      BY <1>3, <2>5, Zenon DEF LockCandidate, Proceed
    <3>2. jobs'[t] = jobs[t]
      BY <1>0, <3>1, Continued, Zenon
    <3>3. ThreadInv(t)'
      BY <2>2, <2>3, <2>5, <3>2, Zenon DEF ThreadInv, CandidateOps
    <3> QED
      BY <1>0, <3>1, <3>3, Continued, Zenon DEF JobStep
  <2> QED
    BY <2>1, <2>4, <2>5, Zenon
<1>4. CASE PanicInSession(t)
  <2>1. calls'[t].pc = "idle"
    BY <1>4, SessionCall, Zenon DEF PanicInSession
  <2>2. storeCalls'[t].pc = "idle"
    <3>1. CASE storeCalls[t].pc = "inside"
      BY <1>4, <3>1, StoreCall, Zenon DEF PanicInSession
    <3>2. CASE storeCalls[t].pc # "inside"
      <4>1. storeCalls[t] \in Stores!CallState
        BY Zenon DEF BridgeInv, TablesInv, Stores!TableInv, Stores!TableTypeOK
      <4>2. storeCalls[t].pc = "idle"
        BY <1>4, <3>2, <4>1, Zenon DEF PanicInSession, Stores!CallState
      <4> QED
        BY <1>4, <3>2, <4>2, Zenon DEF PanicInSession, storeTable
    <3> QED
      BY <3>1, <3>2, Zenon
  <2>3. candCalls'[t].pc = "idle"
    <3>1. CASE candCalls[t].pc = "inside"
      BY <1>4, <3>1, CandidateCall, Zenon DEF PanicInSession
    <3>2. CASE candCalls[t].pc # "inside"
      <4>1. candCalls[t] \in Candidates!CallState
        BY Zenon DEF BridgeInv, TablesInv, Candidates!TableInv, Candidates!TableTypeOK
      <4>2. candCalls[t].pc = "idle"
        BY <1>4, <3>2, <4>1, Zenon DEF PanicInSession, Candidates!CallState
      <4> QED
        BY <1>4, <3>2, <4>2, Zenon DEF PanicInSession, candTable
    <3> QED
      BY <3>1, <3>2, Zenon
  <2> QED
    BY <1>4, <2>1, <2>2, <2>3, Returned, Zenon DEF PanicInSession, Quiet
<1>5. CASE PanicInStore(t)
  <2>1. storeCalls[t].pc = "inside" /\ storeCalls'[t].pc = "idle"
    BY <1>5, StoreCall, Zenon DEF PanicInStore
  <2>2. calls' = calls /\ candCalls' = candCalls
    BY <1>5, Zenon DEF PanicInStore, sessionTable, tableVars, candTable
  <2>3. calls[t].pc = "idle" /\ candCalls[t].pc = "idle"
    BY <1>0, <1>5, <2>1, Zenon DEF PanicInStore, ThreadInv, SessionOps, StoreOps, CandidateOps
  <2> QED
    BY <1>5, <2>1, <2>2, <2>3, Returned, Zenon DEF PanicInStore, Quiet
<1> QED
  BY <1>1, <1>2, <1>3, <1>4, <1>5, Zenon

\* The functions on a store, up to the session of a new computer.
LEMMA StoreJobs ==
    ASSUME BridgeInv, NEW t \in Threads, TableFacts(t), Work(t),
           \/ QueryStore(t) \/ CommandStore(t) \/ CloseStore(t) \/ ForgetStore(t)
           \/ OpenInStore(t) \/ LimitsOfStore(t) \/ RestoreInStore(t) \/ DiscardInStore(t)
    PROVE  JobStep(t)
<1>0. jobs[t] \in JobStates /\ ThreadInv(t)
  BY WhereThreadsAre, Zenon DEF BridgeInv
<1>1. calls' = calls /\ candCalls' = candCalls /\ storeIssued' = storeIssued
  BY Zenon DEF QueryStore, CommandStore, CloseStore, ForgetStore, OpenInStore, LimitsOfStore,
         RestoreInStore, DiscardInStore, Stores!Leave, Stores!Resolve, Stores!Close, Stores!Clear,
         sessionTable, tableVars, candTable
<1>2. /\ jobs[t].op \in {"query", "command", "closeStore", "forgetStore", "open", "limits",
                         "restore", "discard"}
      /\ calls[t].pc = "idle" /\ candCalls[t].pc = "idle"
  BY <1>0, Zenon DEF QueryStore, CommandStore, CloseStore, ForgetStore, OpenInStore, LimitsOfStore,
              RestoreInStore, DiscardInStore, ThreadInv, SessionOps, CandidateOps
<1>3. ASSUME storeCalls'[t].pc = "idle", Return(t)
      PROVE  JobStep(t)
  BY <1>1, <1>2, <1>3, Returned, Zenon DEF Quiet
<1>4. ASSUME NEW job \in JobStates, job.op \notin {"save", "deploy", "deployed", "open", "restore"},
             storeCalls'[t].pc = "idle", Continue(t, job),
             job.op \in {"limits", "insert"} => Placed(job.session) /\ Retains(job.session)
      PROVE  JobStep(t)
  <2>1. jobs'[t] = job
    BY <1>4, Continued, Zenon
  <2>2. ThreadInv(t)'
    BY <1>1, <1>2, <1>4, <2>1, Zenon DEF ThreadInv, Placed, Retains
  <2> QED
    BY <1>4, <2>2, Continued, Zenon DEF JobStep
<1>5. ASSUME Proceed(t, storeCalls'[t], jobs[t]), jobs[t].op \in {"forgetStore", "limits"},
             storeCalls'[t].pc \in {"idle", "lock"}
      PROVE  JobStep(t)
  <2>1. CASE storeCalls'[t].pc = "idle"
    BY <1>3, <1>5, <2>1, Zenon DEF Proceed
  <2>2. CASE storeCalls'[t].pc = "lock"
    <3>1. Continue(t, jobs[t])
      BY <1>5, <2>2, Zenon DEF Proceed
    <3>2. jobs'[t] = jobs[t]
      BY <1>0, <3>1, Continued, Zenon
    <3>3. ThreadInv(t)'
      BY <1>0, <1>1, <1>2, <1>5, <2>2, <3>2, Zenon DEF ThreadInv, StoreOps, Placed, Retains
    <3> QED
      BY <1>0, <3>1, <3>3, Continued, Zenon DEF JobStep
  <2> QED
    BY <1>5, <2>1, <2>2, Zenon
<1>6. CASE QueryStore(t) \/ CommandStore(t) \/ DiscardInStore(t)
  BY <1>3, <1>6, StoreCall, Zenon DEF QueryStore, CommandStore, DiscardInStore
<1>7. CASE CloseStore(t)
  <2> DEFINE job == [op |-> "forgetStore", handle |-> jobs[t].handle]
  <2>1. job \in JobStates /\ job.op = "forgetStore"
    BY <1>0, <1>7, JobShape, Zenon DEF CloseStore, JobStates
  <2>2. storeCalls'[t].pc = "idle" /\ (Return(t) \/ Continue(t, job))
    BY <1>7, StoreCall, Zenon DEF CloseStore
  <2> HIDE DEF job
  <2> QED
    BY <1>3, <1>4, <2>1, <2>2, Zenon
<1>8. CASE ForgetStore(t)
  <2>1. CASE Stores!Resolve(t, "close", jobs[t].handle) /\ Proceed(t, storeCalls'[t], jobs[t])
    BY <1>5, <1>8, <2>1, StoreCall, Zenon DEF ForgetStore
  <2>2. CASE Stores!Close(t) /\ Return(t)
    BY <1>3, <2>2, StoreCall, Zenon
  <2> QED
    BY <1>8, <2>1, <2>2, Zenon DEF ForgetStore
<1>9. ASSUME jobs[t].op \in {"open", "restore"}, Stores!Leave(t), NEW computer \in Computers,
             NEW host \in BOOLEAN, NEW op \in {"limits", "insert"}
      PROVE  LET s == NewSession(computer, jobs[t].handle, jobs[t].id, storeCalls[t].cell, host)
             IN  s \in SessionRecords /\ Placed(s) /\ Retains(s)
  <2> DEFINE s == NewSession(computer, jobs[t].handle, jobs[t].id, storeCalls[t].cell, host)
  <2>1. jobs[t].handle \in Handles /\ jobs[t].id \in Ids
    BY <1>0, <1>9, JobShape, Zenon
  <2>2. storeCalls[t].pc = "inside" /\ storeCalls[t].handle = jobs[t].handle
    BY <1>0, <1>9, StoreCall, Zenon DEF ThreadInv
  <2>3. /\ storeCalls[t].handle \in DOMAIN storeIssued
        /\ storeIssued[storeCalls[t].handle] = storeCalls[t].cell
        /\ storeCalls[t].cell \in Nat
    BY <2>2 DEF TableFacts, StoreFacts
  <2>4. /\ s.handle = jobs[t].handle /\ s.id = jobs[t].id /\ s.home = storeCalls[t].cell
        /\ s.retained = computer.pending /\ s.computer = computer
    BY Zenon DEF NewSession
  <2>5. computer.pending \in Nat
    BY BridgeAssumption DEF Computers
  <2>6. s \in SessionRecords
    BY <2>1, <2>3, <2>5, Zenon DEF NewSession, SessionRecords
  <2> HIDE DEF s
  <2>7. Placed(s) /\ Retains(s)
    BY <2>2, <2>3, <2>4, Zenon DEF Placed, Retains
  <2> QED
    BY <2>6, <2>7, Zenon DEF s
<1>10. CASE OpenInStore(t)
  <2>1. CASE Return(t)
    BY <1>3, <1>10, <2>1, StoreCall, Zenon DEF OpenInStore
  <2>2. CASE ~Return(t)
    <3> DEFINE s == NewSession(FreshComputer, jobs[t].handle, jobs[t].id, storeCalls[t].cell, FALSE)
               job == [op |-> "limits", handle |-> jobs[t].handle, session |-> s]
    <3>1. FreshComputer \in Computers
      BY BridgeAssumption DEF FreshComputer, Computers
    <3>2. Stores!Leave(t) /\ jobs[t].op = "open" /\ Continue(t, job)
      BY <1>10, <2>2, Zenon DEF OpenInStore
    <3>3. s \in SessionRecords /\ Placed(s) /\ Retains(s)
      BY <1>9, <3>1, <3>2, Zenon
    <3>4. jobs[t].handle \in Handles
      BY <1>0, <3>2, JobShape, Zenon
    <3> HIDE DEF s
    <3>5. job \in JobStates /\ job.op = "limits" /\ job.session = s
      BY <3>3, <3>4, Zenon DEF JobStates
    <3> HIDE DEF job
    <3>6. storeCalls'[t].pc = "idle"
      BY <3>2, StoreCall, Zenon
    <3> QED
      BY <1>4, <3>2, <3>3, <3>5, <3>6, Zenon
  <2> QED
    BY <2>1, <2>2, Zenon
<1>11. CASE RestoreInStore(t)
  <2>1. CASE Return(t)
    BY <1>3, <1>11, <2>1, StoreCall, Zenon DEF RestoreInStore
  <2>2. CASE ~Return(t)
    <3> DEFINE saved == disk[jobs[t].id].checkpoint
               s == NewSession(saved.computer, jobs[t].handle, jobs[t].id, storeCalls[t].cell, TRUE)
               job == [op |-> "insert", session |-> s]
    <3>1. Stores!Leave(t) /\ jobs[t].op = "restore" /\ Continue(t, job) /\ saved # None
      BY <1>11, <2>2, Zenon DEF RestoreInStore
    <3>2. jobs[t].id \in Ids
      BY <1>0, <3>1, JobShape, Zenon
    <3>3. saved \in Checkpoints
      BY <3>1, <3>2, Zenon DEF BridgeInv, BridgeTypes
    <3>4. saved.computer \in Computers
      BY <3>3, Zenon DEF Checkpoints
    <3> HIDE DEF saved
    <3>5. s \in SessionRecords /\ Placed(s) /\ Retains(s)
      BY <1>9, <3>1, <3>4, Zenon
    <3> HIDE DEF s
    <3>6. job \in JobStates /\ job.op = "insert" /\ job.session = s
      BY <3>5, Zenon DEF JobStates
    <3> HIDE DEF job
    <3>7. storeCalls'[t].pc = "idle"
      BY <3>1, StoreCall, Zenon
    <3> QED
      BY <1>4, <3>1, <3>5, <3>6, <3>7, Zenon
  <2> QED
    BY <2>1, <2>2, Zenon
<1>12. CASE LimitsOfStore(t)
  <2>1. CASE Stores!Resolve(t, "with", jobs[t].handle) /\ Proceed(t, storeCalls'[t], jobs[t])
    BY <1>5, <1>12, <2>1, StoreCall, Zenon DEF LimitsOfStore
  <2>2. CASE Stores!Leave(t) /\ Continue(t, [op |-> "insert", session |-> jobs[t].session])
    <3> DEFINE job == [op |-> "insert", session |-> jobs[t].session]
    <3>1. jobs[t].session \in SessionRecords
      BY <1>0, <1>12, JobShape, Zenon DEF LimitsOfStore
    <3>2. Placed(jobs[t].session) /\ Retains(jobs[t].session)
      BY <1>0, <1>12, Zenon DEF LimitsOfStore, ThreadInv
    <3>3. job \in JobStates /\ job.op = "insert" /\ job.session = jobs[t].session
      BY <3>1, Zenon DEF JobStates
    <3>4. Continue(t, job) /\ storeCalls'[t].pc = "idle"
      BY <2>2, StoreCall, Zenon
    <3> HIDE DEF job
    <3> QED
      BY <1>4, <3>2, <3>3, <3>4, Zenon
  <2> QED
    BY <1>12, <2>1, <2>2, Zenon DEF LimitsOfStore
<1> QED
  BY <1>6, <1>7, <1>8, <1>10, <1>11, <1>12, Zenon

\* The functions on a session alone, and the ones that end in a table.
LEMMA SessionJobs ==
    ASSUME BridgeInv, NEW t \in Threads, TableFacts(t), Work(t),
           \/ PublishSession(t) \/ SessionClosed(t) \/ AdvanceSession(t) \/ CompleteCompilation(t)
           \/ UseSession(t) \/ VerifyInSession(t) \/ CopyCompilationRequest(t)
           \/ PublishCandidate(t) \/ CandidateClosed(t)
    PROVE  JobStep(t)
<1>0. jobs[t] \in JobStates /\ ThreadInv(t)
  BY WhereThreadsAre, Zenon DEF BridgeInv
<1>1. storeCalls[t].pc = "idle" /\ storeCalls' = storeCalls
  <2>1. jobs[t].op \notin StoreOps
    BY Zenon DEF PublishSession, SessionClosed, AdvanceSession, CompleteCompilation, UseSession,
           VerifyInSession, CopyCompilationRequest, PublishCandidate, CandidateClosed, StoreOps
  <2>2. UNCHANGED storeTable
    BY Zenon DEF PublishSession, SessionClosed, AdvanceSession, CompleteCompilation, UseSession,
           VerifyInSession, CopyCompilationRequest, PublishCandidate, CandidateClosed
  <2> QED
    BY <1>0, <2>1, <2>2, Zenon DEF ThreadInv, storeTable
<1>2. CASE PublishSession(t) \/ PublishCandidate(t)
  <2>1. jobs[t].op \in {"insert", "candidate"} /\ Return(t)
    BY <1>2, Zenon DEF PublishSession, PublishCandidate
  <2>2. calls[t].pc = "idle" /\ candCalls[t].pc = "idle"
    BY <1>0, <2>1, Zenon DEF ThreadInv, SessionOps, CandidateOps
  <2>3. calls' = calls /\ candCalls' = candCalls
    BY <1>2, Zenon DEF PublishSession, PublishCandidate, InsertSession, Insert, Candidates!Insert,
                sessionTable, tableVars, candTable
  <2> QED
    BY <1>1, <2>1, <2>2, <2>3, Returned, Zenon DEF Quiet
<1>3. CASE CandidateClosed(t)
  <2>1. jobs[t].op = "closeCandidate" /\ Return(t) /\ candCalls'[t].pc = "idle"
    BY <1>3, CandidateCall, Zenon DEF CandidateClosed
  <2>2. calls[t].pc = "idle" /\ calls' = calls
    BY <1>0, <1>3, <2>1, Zenon DEF ThreadInv, SessionOps, CandidateClosed, sessionTable, tableVars
  <2> QED
    BY <1>1, <2>1, <2>2, Returned, Zenon DEF Quiet
<1>4. ASSUME jobs[t].op \in {"closeSession", "advance", "complete", "use", "verify", "size", "copy"},
             UNCHANGED candTable
      PROVE  candCalls[t].pc = "idle" /\ candCalls' = candCalls
  BY <1>0, <1>4, Zenon DEF ThreadInv, CandidateOps, candTable
<1>5. CASE SessionClosed(t) \/ AdvanceSession(t) \/ CompleteCompilation(t) \/ UseSession(t)
  <2>1. /\ jobs[t].op \in {"closeSession", "advance", "complete", "use"}
        /\ UNCHANGED candTable /\ Return(t) /\ (Leave(t) \/ Close(t))
    BY <1>5, Zenon DEF SessionClosed, AdvanceSession, CompleteCompilation, UseSession
  <2>2. calls'[t].pc = "idle"
    BY <2>1, SessionCall, Zenon
  <2>3. candCalls[t].pc = "idle" /\ candCalls' = candCalls
    BY <1>4, <2>1, Zenon
  <2> QED
    BY <1>1, <2>1, <2>2, <2>3, Returned, Zenon DEF Quiet
<1>6. CASE VerifyInSession(t)
  <2> DEFINE job == [op |-> "candidate", machine |-> calls[t].cell]
  <2>1. /\ jobs[t].op = "verify" /\ Leave(t) /\ UNCHANGED candTable
        /\ Return(t) \/ Continue(t, job)
    BY <1>6, Zenon DEF VerifyInSession
  <2>2. calls[t].pc = "inside" /\ calls'[t].pc = "idle"
    BY <2>1, SessionCall, Zenon
  <2>3. candCalls[t].pc = "idle" /\ candCalls' = candCalls
    BY <1>4, <2>1, Zenon
  <2>4. calls[t] \in CallState
    BY Zenon DEF BridgeInv, TablesInv, TableInv, TableTypeOK
  <2>5. calls[t].cell \in Nat
    BY <2>2, <2>4, Zenon DEF CallState
  <2>6. job \in JobStates /\ job.op = "candidate"
    BY <2>5, Zenon DEF JobStates
  <2> HIDE DEF job
  <2>7. CASE Continue(t, job)
    <3>1. jobs'[t] = job
      BY <2>6, <2>7, Continued, Zenon
    <3>2. ThreadInv(t)'
      BY <1>1, <2>2, <2>3, <2>6, <3>1, Zenon DEF ThreadInv
    <3> QED
      BY <2>6, <2>7, <3>2, Continued, Zenon DEF JobStep
  <2> QED
    BY <1>1, <2>1, <2>2, <2>3, <2>7, Returned, Zenon DEF Quiet
<1>7. CASE CopyCompilationRequest(t)
  <2> DEFINE job == [op |-> "copy", handle |-> jobs[t].handle]
  <2>1. /\ jobs[t].op \in {"size", "copy"} /\ UNCHANGED candTable
        /\ \/ Leave(t) /\ Return(t)
           \/ Leave(t) /\ Continue(t, job)
           \/ Resolve(t, "with", jobs[t].handle) /\ Proceed(t, calls'[t], jobs[t])
                /\ jobs[t].op = "copy"
    BY <1>7, Zenon DEF CopyCompilationRequest
  <2>2. candCalls[t].pc = "idle" /\ candCalls' = candCalls
    BY <1>4, <2>1, Zenon
  <2>3. job \in JobStates /\ job.op = "copy"
    BY <1>0, <2>1, JobShape, Zenon DEF JobStates
  <2>4. \A kind, h : Resolve(t, kind, h) => calls'[t].pc \in {"idle", "lock"}
    BY SessionCall, Zenon
  <2>5. Leave(t) => calls'[t].pc = "idle"
    BY SessionCall, Zenon
  <2> HIDE DEF job
  <2>6. ASSUME NEW next \in JobStates, next.op = "copy", Continue(t, next)
        PROVE  JobStep(t)
    <3>1. jobs'[t] = next
      BY <2>6, Continued, Zenon
    <3>2. ThreadInv(t)'
      BY <1>1, <2>2, <2>6, <3>1, Zenon DEF ThreadInv, SessionOps
    <3> QED
      BY <2>6, <3>2, Continued, Zenon DEF JobStep
  <2>7. calls'[t].pc = "idle" /\ Return(t) => JobStep(t)
    BY <1>1, <2>2, Returned, Zenon DEF Quiet
  <2>8. CASE Resolve(t, "with", jobs[t].handle) /\ Proceed(t, calls'[t], jobs[t])
                /\ jobs[t].op = "copy"
    BY <1>0, <2>4, <2>6, <2>7, <2>8, Zenon DEF Proceed
  <2> QED
    BY <2>1, <2>3, <2>5, <2>6, <2>7, <2>8, Zenon
<1> QED
  BY <1>2, <1>3, <1>5, <1>6, <1>7, Zenon

\* The functions that enter a second table from inside a session.
LEMMA NestedJobs ==
    ASSUME BridgeInv, NEW t \in Threads, TableFacts(t), Work(t),
           \/ SaveInSession(t) \/ SaveLockStore(t) \/ SaveInStore(t)
           \/ DeployResolve(t) \/ DeployLock(t) \/ DeployInstall(t) \/ DeployEnd(t)
    PROVE  JobStep(t)
<1>0. jobs[t] \in JobStates /\ ThreadInv(t)
  BY WhereThreadsAre, Zenon DEF BridgeInv
<1>1. ASSUME jobs[t].op = "save", UNCHANGED candTable
      PROVE  candCalls[t].pc = "idle" /\ candCalls' = candCalls
  BY <1>0, <1>1, Zenon DEF ThreadInv, CandidateOps, candTable
<1>2. ASSUME jobs[t].op \in {"deploy", "deployed"}, UNCHANGED storeTable
      PROVE  storeCalls[t].pc = "idle" /\ storeCalls' = storeCalls
  BY <1>0, <1>2, Zenon DEF ThreadInv, StoreOps, storeTable
<1>3. Leave(t) => calls[t].pc = "inside" /\ calls'[t].pc = "idle"
  BY SessionCall, Zenon
<1>4. CASE SaveInSession(t)
  <2>1. /\ jobs[t].op = "save" /\ UNCHANGED candTable /\ sessions' = sessions
        /\ calls[t].pc = "inside" /\ storeCalls[t].pc = "idle"
    BY <1>4, Zenon DEF SaveInSession, Inside, contents
  <2>2. candCalls[t].pc = "idle" /\ candCalls' = candCalls
    BY <1>1, <2>1, Zenon
  <2>3. CASE Leave(t) /\ Return(t) /\ UNCHANGED storeTable
    BY <1>3, <2>1, <2>2, <2>3, Returned, Zenon DEF Quiet, storeTable
  <2>4. CASE /\ Owns(sessions[calls[t].cell], jobs[t].handle, jobs[t].id)
             /\ Stores!Resolve(t, "with", jobs[t].handle)
             /\ Proceed(t, storeCalls'[t], jobs[t])
             /\ IF storeCalls'[t].pc = "idle" THEN Leave(t) ELSE UNCHANGED sessionTable
    <3>1. /\ storeCalls'[t].pc \in {"idle", "lock"}
          /\ storeCalls'[t].pc = "lock" => storeCalls'[t].handle = jobs[t].handle
      BY <2>4, StoreCall, Zenon
    <3>2. CASE storeCalls'[t].pc = "idle"
      BY <1>3, <2>2, <2>4, <3>2, Returned, Zenon DEF Quiet, Proceed
    <3>3. CASE storeCalls'[t].pc = "lock"
      <4>1. Continue(t, jobs[t]) /\ calls' = calls
        BY <2>4, <3>3, Zenon DEF Proceed, sessionTable, tableVars
      <4>2. jobs'[t] = jobs[t]
        BY <1>0, <4>1, Continued, Zenon
      <4>3. ThreadInv(t)'
        BY <2>1, <2>2, <2>4, <3>1, <3>3, <4>1, <4>2, Zenon DEF ThreadInv, SessionOps, StoreOps
      <4> QED
        BY <1>0, <4>1, <4>3, Continued, Zenon DEF JobStep
    <3> QED
      BY <3>1, <3>2, <3>3, Zenon
  <2> QED
    BY <1>4, <2>3, <2>4, Zenon DEF SaveInSession
<1>5. CASE SaveLockStore(t)
  <2>1. jobs[t].op = "save" /\ UNCHANGED candTable /\ sessions' = sessions
    BY <1>5, Zenon DEF SaveLockStore, contents
  <2>2. candCalls[t].pc = "idle" /\ candCalls' = candCalls
    BY <1>1, <2>1, Zenon
  <2>3. /\ storeCalls[t].pc = "lock"
        /\ storeCalls'[t].pc \in {"idle", "inside"}
        /\ storeCalls'[t].pc = "inside" => storeCalls'[t].handle = storeCalls[t].handle
    BY <1>5, StoreCall, Zenon DEF SaveLockStore
  <2>4. /\ calls[t].pc = "inside"
        /\ Owns(sessions[calls[t].cell], jobs[t].handle, jobs[t].id)
        /\ storeCalls[t].handle = jobs[t].handle
    BY <1>0, <2>1, <2>3, Zenon DEF ThreadInv
  <2>5. CASE storeCalls'[t].pc = "idle"
    BY <1>3, <1>5, <2>2, <2>5, Returned, Zenon DEF SaveLockStore, Quiet, Proceed
  <2>6. CASE storeCalls'[t].pc = "inside"
    <3>1. Continue(t, jobs[t]) /\ calls' = calls
      BY <1>5, <2>6, Zenon DEF SaveLockStore, Proceed, sessionTable, tableVars
    <3>2. jobs'[t] = jobs[t]
      BY <1>0, <3>1, Continued, Zenon
    <3>3. ThreadInv(t)'
      BY <2>1, <2>2, <2>3, <2>4, <2>6, <3>1, <3>2, Zenon DEF ThreadInv, SessionOps, StoreOps
    <3> QED
      BY <1>0, <3>1, <3>3, Continued, Zenon DEF JobStep
  <2> QED
    BY <2>3, <2>5, <2>6, Zenon
<1>6. CASE SaveInStore(t)
  <2>1. jobs[t].op = "save" /\ UNCHANGED candTable /\ Leave(t) /\ Return(t) /\ Stores!Leave(t)
    BY <1>6, Zenon DEF SaveInStore
  <2>2. candCalls[t].pc = "idle" /\ candCalls' = candCalls
    BY <1>1, <2>1, Zenon
  <2>3. storeCalls'[t].pc = "idle"
    BY <2>1, StoreCall, Zenon
  <2> QED
    BY <1>3, <2>1, <2>2, <2>3, Returned, Zenon DEF Quiet
<1>7. CASE DeployResolve(t) \/ DeployLock(t)
  <2>1. jobs[t].op = "deploy" /\ UNCHANGED storeTable
    BY <1>7, Zenon DEF DeployResolve, DeployLock
  <2>2. storeCalls[t].pc = "idle" /\ storeCalls' = storeCalls
    BY <1>2, <2>1, Zenon
  <2>3. CASE Return(t) /\ Leave(t) /\ UNCHANGED candTable /\ candCalls[t].pc = "idle"
    BY <1>3, <2>2, <2>3, Returned, Zenon DEF Quiet, candTable
  <2>4. CASE /\ calls[t].pc = "inside"
             /\ candCalls'[t].pc \in {"idle", "lock", "inside"}
             /\ Proceed(t, candCalls'[t], jobs[t])
             /\ IF candCalls'[t].pc = "idle" THEN Leave(t) ELSE UNCHANGED sessionTable
    <3>1. CASE candCalls'[t].pc = "idle"
      BY <1>3, <2>2, <2>4, <3>1, Returned, Zenon DEF Quiet, Proceed
    <3>2. CASE candCalls'[t].pc # "idle"
      <4>1. Continue(t, jobs[t]) /\ calls' = calls
        BY <2>4, <3>2, Zenon DEF Proceed, sessionTable, tableVars
      <4>2. jobs'[t] = jobs[t]
        BY <1>0, <4>1, Continued, Zenon
      <4>3. ThreadInv(t)'
        BY <2>1, <2>2, <2>4, <4>1, <4>2, Zenon DEF ThreadInv, SessionOps, CandidateOps
      <4> QED
        BY <1>0, <4>1, <4>3, Continued, Zenon DEF JobStep
    <3> QED
      BY <3>1, <3>2, Zenon
  <2>5. CASE DeployResolve(t)
    <3>1. calls[t].pc = "inside" /\ candCalls[t].pc = "idle"
      BY <2>5, Zenon DEF DeployResolve, Inside
    <3>2. \A h : Candidates!Resolve(t, "consume", h) => candCalls'[t].pc \in {"idle", "lock"}
      BY CandidateCall, Zenon
    <3> QED
      BY <2>3, <2>4, <2>5, <3>1, <3>2, Zenon DEF DeployResolve
  <2>6. CASE DeployLock(t)
    <3>1. candCalls[t].pc = "lock" /\ candCalls'[t].pc \in {"idle", "inside"}
      BY <2>6, CandidateCall, Zenon DEF DeployLock
    <3>2. calls[t].pc = "inside"
      BY <1>0, <2>1, <3>1, Zenon DEF ThreadInv
    <3> QED
      BY <2>4, <2>6, <3>1, <3>2, Zenon DEF DeployLock
  <2> QED
    BY <1>7, <2>5, <2>6, Zenon
<1>8. CASE DeployInstall(t)
  <2> DEFINE job == [op |-> "deployed"]
  <2>1. jobs[t].op = "deploy" /\ UNCHANGED storeTable /\ candCalls[t].pc = "inside"
    BY <1>8, Zenon DEF DeployInstall, Candidates!Inside
  <2>2. storeCalls[t].pc = "idle" /\ storeCalls' = storeCalls
    BY <1>2, <2>1, Zenon
  <2>3. calls[t].pc = "inside"
    BY <1>0, <2>1, Zenon DEF ThreadInv
  <2>4. job \in JobStates /\ job.op = "deployed"
    BY Zenon DEF JobStates
  <2>5. \/ Continue(t, job) /\ UNCHANGED <<sessionTable, candTable>>
        \/ Candidates!GiveBack(t) /\ Leave(t) /\ Return(t)
    BY <1>8, Zenon DEF DeployInstall
  <2> HIDE DEF job
  <2>6. CASE Continue(t, job) /\ UNCHANGED <<sessionTable, candTable>>
    <3>1. calls' = calls /\ candCalls' = candCalls
      BY <2>6, Zenon DEF sessionTable, tableVars, candTable
    <3>2. jobs'[t] = job
      BY <2>4, <2>6, Continued, Zenon
    <3>3. ThreadInv(t)'
      BY <2>1, <2>2, <2>3, <2>4, <3>1, <3>2, Zenon DEF ThreadInv, SessionOps, CandidateOps
    <3> QED
      BY <2>4, <2>6, <3>3, Continued, Zenon DEF JobStep
  <2>7. CASE Candidates!GiveBack(t) /\ Leave(t) /\ Return(t)
    <3>1. candCalls'[t].pc = "idle"
      BY <2>7, CandidateCall, Zenon
    <3> QED
      BY <1>3, <2>2, <2>7, <3>1, Returned, Zenon DEF Quiet
  <2> QED
    BY <2>5, <2>6, <2>7, Zenon
<1>9. CASE DeployEnd(t)
  <2>1. jobs[t].op = "deployed" /\ UNCHANGED storeTable /\ Leave(t) /\ Return(t) /\ Candidates!Consumed(t)
    BY <1>9, Zenon DEF DeployEnd
  <2>2. storeCalls[t].pc = "idle" /\ storeCalls' = storeCalls
    BY <1>2, <2>1, Zenon
  <2>3. candCalls'[t].pc = "idle"
    BY <2>1, CandidateCall, Zenon
  <2> QED
    BY <1>3, <2>1, <2>2, <2>3, Returned, Zenon DEF Quiet
<1> QED
  BY <1>4, <1>5, <1>6, <1>7, <1>8, <1>9, Zenon

LEMMA StepJobs ==
    ASSUME BridgeInv, NEW t \in Threads, TableFacts(t), Call(t) \/ Work(t)
    PROVE  JobStep(t)
BY CallJobs, LockJobs, StoreJobs, SessionJobs, NestedJobs, Zenon DEF Work

--------------------------------------------------------------------------------
(* Sessions, checkpoints and candidates *)

\* The computer forgets the compilation it waits for, or keeps it, or asks for the next.
LEMMA AdvanceKeeps ==
    ASSUME NEW c \in Computers, NEW d \in Computers, ComputerAdvances(c, d)
    PROVE  d.asked # c.asked \/ d.pending = c.pending \/ d.pending = 0
<1>0. /\ c \in [pending : 0 .. MaxTokens, asked : 0 .. MaxTokens, covered : BOOLEAN]
      /\ c.asked \in Nat
  BY BridgeAssumption DEF Computers
<1>1. CASE d = c
  BY <1>1, Zenon
<1>2. CASE d = [c EXCEPT !.covered = ~@]
  BY <1>0, <1>2, Zenon
<1>3. CASE d = [c EXCEPT !.pending = 0, !.covered = FALSE]
  BY <1>0, <1>3, Zenon
<1>4. CASE d = [c EXCEPT !.pending = c.asked + 1, !.asked = c.asked + 1]
  <2>1. d.asked = c.asked + 1
    BY <1>0, <1>4, Zenon
  <2> QED
    BY <1>0, <2>1
<1> QED
  BY <1>1, <1>2, <1>3, <1>4, Zenon DEF ComputerAdvances

\* A session keeps its identity; what it knows of its store and its compilation stays
\* right.
LEMMA SessionsThen ==
    ASSUME BridgeInv, NEW t \in Threads, TableFacts(t), Call(t) \/ Work(t)
    PROVE  /\ sessions' \in Seq(SessionRecords)
           /\ Len(sessions') = Len(cells')
           /\ Len(sessions) <= Len(sessions')
           /\ \A i \in 1 .. Len(sessions) :
                 /\ sessions'[i].handle = sessions[i].handle
                 /\ sessions'[i].id = sessions[i].id
                 /\ sessions'[i].home = sessions[i].home
           /\ SessionsInv'
<1>0. /\ sessions \in Seq(SessionRecords) /\ Len(sessions) \in Nat
      /\ Len(sessions) = Len(cells)
      /\ SessionsInv
  BY DEF BridgeInv, BridgeTypes
<1>1. ASSUME NEW s, Placed(s) /\ Retains(s)
      PROVE  s.id # None => s.handle \in DOMAIN storeIssued' /\ storeIssued'[s.handle] = s.home
  BY <1>1, PlacedStays, Zenon
<1>2. CASE Create(t) \/ PublishSession(t)
  <2>1. PICK s \in SessionRecords : sessions' = Append(sessions, s) /\ Placed(s) /\ Retains(s)
    <3>1. CASE Create(t)
      <4> DEFINE s == NewSession(FreshComputer, None, None, 0, FALSE)
      <4>1. FreshComputer \in Computers /\ FreshComputer.pending = 0
        BY BridgeAssumption DEF FreshComputer, Computers
      <4>2. s \in SessionRecords
        BY <4>1 DEF NewSession, SessionRecords
      <4>3. s.id = None /\ s.computer.pending = 0
        BY <4>1, Zenon DEF NewSession
      <4>4. sessions' = Append(sessions, s)
        BY <3>1, Zenon DEF Create, InsertSession
      <4> HIDE DEF s
      <4> QED
        BY <4>2, <4>3, <4>4, Zenon DEF Placed, Retains
    <3>2. CASE PublishSession(t)
      <4>1. jobs[t].op = "insert" /\ sessions' = Append(sessions, jobs[t].session)
        BY <3>2, Zenon DEF PublishSession, InsertSession
      <4>2. jobs[t].session \in SessionRecords
        BY <4>1, WhereThreadsAre, JobShape, Zenon
      <4>3. Placed(jobs[t].session) /\ Retains(jobs[t].session)
        BY <4>1, Zenon DEF BridgeInv, ThreadInv
      <4> QED
        BY <4>1, <4>2, <4>3, Zenon
    <3> QED
      BY <1>2, <3>1, <3>2, Zenon
  <2>2. Len(cells') = Len(cells) + 1
    BY <1>2, Zenon DEF TableFacts, SessionFacts
  <2>3. /\ sessions' \in Seq(SessionRecords) /\ Len(sessions') = Len(sessions) + 1
        /\ \A i \in 1 .. Len(sessions) : sessions'[i] = sessions[i]
        /\ sessions'[Len(sessions) + 1] = s
    BY <1>0, <2>1
  <2>4. ASSUME NEW i \in 1 .. Len(sessions')
        PROVE  /\ sessions'[i].id # None =>
                     /\ sessions'[i].handle \in DOMAIN storeIssued'
                     /\ storeIssued'[sessions'[i].handle] = sessions'[i].home
               /\ Retains(sessions[i])'
    <3>1. CASE i \in 1 .. Len(sessions)
      <4>1. Placed(sessions[i]) /\ Retains(sessions[i]) /\ sessions'[i] = sessions[i]
        BY <1>0, <2>3, <3>1, Zenon DEF SessionsInv
      <4>2. sessions[i].id # None =>
              sessions[i].handle \in DOMAIN storeIssued' /\ storeIssued'[sessions[i].handle] = sessions[i].home
        BY <1>1, <4>1, Zenon
      <4> QED
        BY <4>1, <4>2, Zenon DEF Retains
    <3>2. CASE i = Len(sessions) + 1
      <4>1. s.id # None => s.handle \in DOMAIN storeIssued' /\ storeIssued'[s.handle] = s.home
        BY <1>1, <2>1, Zenon
      <4> QED
        BY <2>1, <2>3, <3>2, <4>1, Zenon DEF Retains
    <3> QED
      BY <1>0, <2>3, <3>1, <3>2
  <2>5. SessionsInv'
    BY <2>4, Zenon DEF SessionsInv, Placed
  <2> QED
    BY <1>0, <2>2, <2>3, <2>5
<1>3. CASE ~(Create(t) \/ PublishSession(t))
  <2>1. Len(cells') = Len(cells)
    BY <1>3, Zenon DEF TableFacts, SessionFacts
  <2>2. \/ sessions' = sessions
        \/ \E s \in SessionRecords :
             LET old == sessions[calls[t].cell] IN
             /\ sessions' = [sessions EXCEPT ![calls[t].cell] = s]
             /\ calls[t].cell \in 1 .. Len(sessions)
             /\ s.handle = old.handle /\ s.id = old.id /\ s.home = old.home
             /\ Retains(s)
    <3>1. CASE AdvanceSession(t) \/ CompleteCompilation(t)
      <4> DEFINE c == calls[t].cell
                 old == sessions[c]
      <4>1. Leave(t)
        BY <3>1, Zenon DEF AdvanceSession, CompleteCompilation
      <4>2. c \in 1 .. Len(sessions)
        BY <1>0, <4>1, SessionCall, Zenon DEF TableFacts, SessionFacts
      <4>3. old \in SessionRecords /\ Retains(old)
        BY <1>0, <4>2 DEF SessionsInv
      <4>4. old.computer \in Computers /\ old.retained \in Nat
        BY <4>3, Zenon DEF SessionRecords
      <4>5. CASE AdvanceSession(t) /\ sessions' # sessions
        <5>1. PICK d \in Computers :
                /\ ComputerAdvances(old.computer, d)
                /\ SetSession(t, [old EXCEPT !.computer = d, !.host = FALSE,
                       !.retained = IF d.asked # old.computer.asked THEN d.pending ELSE @])
          BY <4>5, Zenon DEF AdvanceSession
        <5> DEFINE s == [old EXCEPT !.computer = d, !.host = FALSE,
                       !.retained = IF d.asked # old.computer.asked THEN d.pending ELSE @]
        <5>2. sessions' = [sessions EXCEPT ![c] = s]
          BY <5>1, Zenon DEF SetSession
        <5>3. d.pending \in Nat /\ d.asked \in Nat /\ old.computer.asked \in Nat
          BY <4>4, BridgeAssumption DEF Computers
        <5>4. s \in SessionRecords
          BY <4>3, <4>4, <5>3, Zenon DEF SessionRecords
        <5>5. /\ s.handle = old.handle /\ s.id = old.id /\ s.home = old.home
              /\ s.computer = d
              /\ s.retained = (IF d.asked # old.computer.asked THEN d.pending ELSE old.retained)
          BY <4>3, Zenon DEF SessionRecords
        <5> HIDE DEF s
        <5>6. Retains(s)
          <6>1. d.asked # old.computer.asked \/ d.pending = old.computer.pending \/ d.pending = 0
            BY <4>4, <5>1, AdvanceKeeps, Zenon
          <6> QED
            BY <4>3, <5>5, <6>1, Zenon DEF Retains
        <5> QED
          BY <4>2, <5>2, <5>4, <5>5, <5>6, Zenon
      <4>6. CASE CompleteCompilation(t) /\ sessions' # sessions
        <5> DEFINE s == [old EXCEPT !.retained = 0, !.computer.pending = 0]
        <5>1. sessions' = [sessions EXCEPT ![c] = s]
          BY <4>6, Zenon DEF CompleteCompilation, SetSession
        <5>2. [old.computer EXCEPT !.pending = 0] \in Computers
                /\ [old.computer EXCEPT !.pending = 0].pending = 0
          BY <4>4, BridgeAssumption DEF Computers
        <5>3. s = [old EXCEPT !.retained = 0, !.computer = [old.computer EXCEPT !.pending = 0]]
          BY <4>3, Zenon DEF SessionRecords
        <5>4. /\ s.handle = old.handle /\ s.id = old.id /\ s.home = old.home
              /\ s.computer.pending = 0
              /\ s \in SessionRecords
          BY <4>3, <5>2, <5>3, Zenon DEF SessionRecords
        <5> HIDE DEF s
        <5> QED
          BY <4>2, <5>1, <5>4, Zenon DEF Retains
      <4> QED
        BY <3>1, <4>5, <4>6, Zenon
    <3>2. CASE ~(AdvanceSession(t) \/ CompleteCompilation(t))
      <4>1. CASE Call(t)
        <5>1. CASE EntersStore(t) \/ EntersSession(t)
          BY <5>1, Zenon DEF EntersStore, EnterStore, EntersSession, EnterSession, contents
        <5>2. CASE StoreOpen(t) \/ \E h \in Handles : CloseSession(t, h) \/ CloseCandidate(t, h)
          BY <5>2, Zenon DEF StoreOpen, CloseSession, CloseCandidate, contents
        <5> QED
          BY <1>3, <4>1, <5>1, <5>2, CallForms, Zenon DEF TableFacts
      <4>2. CASE Work(t)
        BY <1>3, <3>2, <4>2, Zenon
           DEF Work, LockSession, LockStore, LockCandidate, QueryStore, CommandStore, CloseStore,
               ForgetStore, OpenInStore, LimitsOfStore, SessionClosed, SaveInSession, SaveLockStore,
               SaveInStore, RestoreInStore, DiscardInStore, CopyCompilationRequest, UseSession,
               VerifyInSession, PublishCandidate, CandidateClosed, DeployResolve, DeployLock,
               DeployInstall, DeployEnd, PanicInSession, PanicInStore, contents
      <4> QED
        BY <4>1, <4>2, Zenon
    <3> QED
      BY <3>1, <3>2, Zenon
  <2>3. /\ sessions' \in Seq(SessionRecords) /\ Len(sessions') = Len(sessions)
        /\ \A i \in 1 .. Len(sessions) :
              /\ sessions'[i].handle = sessions[i].handle
              /\ sessions'[i].id = sessions[i].id
              /\ sessions'[i].home = sessions[i].home
              /\ Retains(sessions[i])'
    <3>1. CASE sessions' = sessions
      BY <1>0, <3>1, Zenon DEF SessionsInv, Retains
    <3>2. CASE \E s \in SessionRecords :
             LET old == sessions[calls[t].cell] IN
             /\ sessions' = [sessions EXCEPT ![calls[t].cell] = s]
             /\ calls[t].cell \in 1 .. Len(sessions)
             /\ s.handle = old.handle /\ s.id = old.id /\ s.home = old.home
             /\ Retains(s)
      BY <1>0, <3>2 DEF SessionsInv, Retains
    <3> QED
      BY <2>2, <3>1, <3>2, Zenon
  <2>4. \A i \in 1 .. Len(sessions) : sessions[i].id # None =>
            sessions[i].handle \in DOMAIN storeIssued' /\ storeIssued'[sessions[i].handle] = sessions[i].home
    BY <1>0, <1>1, Zenon DEF SessionsInv
  <2>5. SessionsInv'
    BY <2>3, <2>4, Zenon DEF SessionsInv, Placed
  <2> QED
    BY <1>0, <2>1, <2>3, <2>5
<1> QED
  BY <1>2, <1>3, Zenon

\* Threads other than the one that steps know what they knew.
LEMMA ThreadsStay ==
    ASSUME BridgeInv, NEW t \in Threads, TableFacts(t), Call(t) \/ Work(t)
    PROVE  \A u \in Threads : ThreadInv(u)'
<1> SUFFICES ASSUME NEW u \in Threads, u # t
             PROVE  ThreadInv(u)'
  BY StepJobs, Zenon DEF JobStep
<1>1. /\ calls'[u] = calls[u] /\ storeCalls'[u] = storeCalls[u] /\ candCalls'[u] = candCalls[u]
      /\ jobs'[u] = jobs[u]
  BY OthersStay, StepJobs, Zenon DEF JobStep
<1>2. ThreadInv(u)
  BY Zenon DEF BridgeInv
<1>3. ASSUME calls[u].pc = "inside", Owns(sessions[calls[u].cell], jobs[u].handle, jobs[u].id)
      PROVE  Owns(sessions'[calls[u].cell], jobs[u].handle, jobs[u].id)
  <2>1. calls[u].cell \in 1 .. Len(sessions)
    BY <1>3, Zenon DEF BridgeInv, BridgeTypes, TableFacts, SessionFacts
  <2> QED
    BY <1>3, <2>1, SessionsThen, Zenon DEF Owns
<1>4. ASSUME jobs[u].op \in {"limits", "insert"}
      PROVE  /\ jobs[u].session.id # None =>
                   /\ jobs[u].session.handle \in DOMAIN storeIssued'
                   /\ storeIssued'[jobs[u].session.handle] = jobs[u].session.home
             /\ Retains(jobs[u].session)
  <2>1. Placed(jobs[u].session) /\ Retains(jobs[u].session)
    BY <1>2, <1>4, Zenon DEF ThreadInv
  <2> QED
    BY <2>1, PlacedStays, Zenon
<1> QED
  BY <1>1, <1>2, <1>3, <1>4 DEF ThreadInv, Placed, Retains

\* A checkpoint is written by a session of the computer, through the store it lives in.
LEMMA DiskThen ==
    ASSUME BridgeInv, NEW t \in Threads, TableFacts(t), Call(t) \/ Work(t)
    PROVE  /\ disk' \in [Ids -> [tombstone : BOOLEAN, checkpoint : Checkpoints \cup {None}]]
           /\ CheckpointsInv'
<1> DEFINE Entry == [tombstone : BOOLEAN, checkpoint : Checkpoints \cup {None}]
<1>0. /\ disk \in [Ids -> Entry] /\ CheckpointsInv
      /\ jobs[t] \in JobStates /\ ThreadInv(t)
  BY Zenon DEF BridgeInv, BridgeTypes
<1>1. ASSUME disk' \in [Ids -> Entry],
             NEW x \in Ids,
             \A y \in Ids : y # x => disk'[y].checkpoint = disk[y].checkpoint,
             \/ disk'[x].checkpoint \in {disk[x].checkpoint, None}
             \/ /\ disk'[x].checkpoint.by \in 1 .. Len(sessions)
                /\ sessions[disk'[x].checkpoint.by].home = disk'[x].checkpoint.into
                /\ sessions[disk'[x].checkpoint.by].id = x
      PROVE  CheckpointsInv'
  <2>1. ASSUME NEW y \in Ids, disk'[y].checkpoint # None
        PROVE  /\ disk'[y].checkpoint.by \in 1 .. Len(sessions)
               /\ sessions[disk'[y].checkpoint.by].home = disk'[y].checkpoint.into
               /\ sessions[disk'[y].checkpoint.by].id = y
    BY <1>0, <1>1, <2>1 DEF CheckpointsInv
  <2>2. Len(sessions) \in Nat /\ Len(sessions') \in Nat /\ Len(sessions) <= Len(sessions')
    BY SessionsThen DEF BridgeInv, BridgeTypes
  <2> QED
    BY <2>1, <2>2, SessionsThen DEF CheckpointsInv
<1>2. CASE CommandStore(t)
  <2>1. jobs[t].id \in Ids /\ jobs[t].tombstone \in BOOLEAN
    BY <1>0, <1>2, JobShape, Zenon DEF CommandStore
  <2>2. \/ disk' = disk
        \/ disk' = [disk EXCEPT ![jobs[t].id] = [disk[jobs[t].id] EXCEPT !.tombstone = jobs[t].tombstone]]
    BY <1>0, <1>2, <2>1, Zenon DEF CommandStore
  <2>3. /\ disk' \in [Ids -> Entry]
        /\ \A y \in Ids : disk'[y].checkpoint = disk[y].checkpoint
    BY <1>0, <2>1, <2>2
  <2> QED
    BY <1>1, <2>1, <2>3, Zenon
<1>3. CASE DiscardInStore(t)
  <2>1. jobs[t].id \in Ids
    BY <1>0, <1>3, JobShape, Zenon DEF DiscardInStore
  <2>2. \/ disk' = disk
        \/ disk' = [disk EXCEPT ![jobs[t].id] = [disk[jobs[t].id] EXCEPT !.checkpoint = None]]
    BY <1>0, <1>3, <2>1, Zenon DEF DiscardInStore
  <2>3. /\ disk' \in [Ids -> Entry]
        /\ \A y \in Ids : y # jobs[t].id => disk'[y].checkpoint = disk[y].checkpoint
        /\ disk'[jobs[t].id].checkpoint \in {disk[jobs[t].id].checkpoint, None}
    BY <1>0, <2>1, <2>2, Zenon
  <2> QED
    BY <1>1, <2>1, <2>3, Zenon
<1>4. CASE SaveInStore(t)
  <2> DEFINE c == calls[t].cell
             s == storeCalls[t].cell
             saved == [by |-> c, into |-> s, computer |-> sessions[c].computer]
  <2>1. jobs[t].op = "save" /\ Leave(t) /\ Stores!Leave(t)
    BY <1>4, Zenon DEF SaveInStore
  <2>2. jobs[t].id \in Ids
    BY <1>0, <2>1, JobShape, Zenon
  <2>3. calls[t].pc = "inside" /\ storeCalls[t].pc = "inside"
    BY <2>1, SessionCall, StoreCall, Zenon
  <2>4. Owns(sessions[c], jobs[t].handle, jobs[t].id) /\ storeCalls[t].handle = jobs[t].handle
    BY <1>0, <2>1, <2>3, Zenon DEF ThreadInv
  <2>5. c \in 1 .. Len(sessions)
    BY <2>3, Zenon DEF BridgeInv, BridgeTypes, TableFacts, SessionFacts
  <2>6. /\ storeCalls[t].handle \in DOMAIN storeIssued
        /\ storeIssued[storeCalls[t].handle] = s
        /\ s \in 1 .. Len(storeCells)
    BY <2>3, Zenon DEF TableFacts, StoreFacts
  <2>7. sessions[c] \in SessionRecords /\ Placed(sessions[c])
    BY <2>5 DEF BridgeInv, BridgeTypes, SessionsInv
  <2>8. sessions[c].id = jobs[t].id /\ sessions[c].home = s
    BY <2>2, <2>4, <2>6, <2>7, BridgeAssumption, Zenon DEF Owns, Placed
  <2>9. saved \in Checkpoints /\ saved.by = c /\ saved.into = s
    <3>1. sessions[c].computer \in Computers
      BY <2>7, Zenon DEF SessionRecords
    <3>2. c \in Nat /\ s \in Nat
      BY <2>5, <2>6
    <3> HIDE DEF c, s
    <3> QED
      BY <3>1, <3>2, Zenon DEF Checkpoints
  <2>10. \/ disk' = disk
         \/ disk' = [disk EXCEPT ![jobs[t].id] = [disk[jobs[t].id] EXCEPT !.checkpoint = saved]]
    BY <1>0, <1>4, <2>2, Zenon DEF SaveInStore
  <2> HIDE DEF saved, c, s
  <2>11. /\ disk' \in [Ids -> Entry]
         /\ \A y \in Ids : y # jobs[t].id => disk'[y].checkpoint = disk[y].checkpoint
         /\ disk'[jobs[t].id].checkpoint \in {disk[jobs[t].id].checkpoint, saved}
    BY <1>0, <2>2, <2>9, <2>10, Zenon
  <2> QED
    BY <1>1, <2>2, <2>5, <2>8, <2>9, <2>11
<1>5. CASE ~(CommandStore(t) \/ DiscardInStore(t) \/ SaveInStore(t))
  <2>1. disk' = disk
    <3>1. CASE Call(t)
      <4>1. CASE EntersStore(t) \/ EntersSession(t)
        BY <4>1, Zenon DEF EntersStore, EnterStore, EntersSession, EnterSession, contents
      <4>2. CASE StoreOpen(t) \/ Create(t) \/ \E h \in Handles : CloseSession(t, h) \/ CloseCandidate(t, h)
        BY <4>2, Zenon DEF StoreOpen, Create, CloseSession, CloseCandidate, contents
      <4> QED
        BY <3>1, <4>1, <4>2, CallForms, Zenon DEF TableFacts
    <3>2. CASE Work(t)
      BY <1>5, <3>2, Zenon
         DEF Work, LockSession, LockStore, LockCandidate, QueryStore, CloseStore, PublishSession,
             ForgetStore, OpenInStore, LimitsOfStore, SessionClosed, SaveInSession, SaveLockStore,
             RestoreInStore, CopyCompilationRequest, UseSession, AdvanceSession,
             CompleteCompilation, VerifyInSession, PublishCandidate, CandidateClosed,
             DeployResolve, DeployLock, DeployInstall, DeployEnd, PanicInSession, PanicInStore,
             contents
    <3> QED
      BY <3>1, <3>2, Zenon
  <2>2. CASE Ids = {}
    BY <1>0, <2>1, <2>2, Zenon DEF CheckpointsInv
  <2>3. CASE Ids # {}
    BY <1>0, <1>1, <2>1, <2>3, Zenon
  <2> QED
    BY <1>0, <2>1, <2>2, <2>3, Zenon
<1> QED
  BY <1>1, <1>2, <1>3, <1>4, <1>5, Zenon

\* A function that has installed its candidate goes on to the end of consume_if.
LEMMA OnlyDeployEnd ==
    ASSUME BridgeInv, NEW t \in Threads, TableFacts(t), Call(t) \/ Work(t), jobs[t].op = "deployed"
    PROVE  DeployEnd(t)
<1>1. /\ calls[t].pc = "inside" /\ storeCalls[t].pc = "idle"
      /\ jobs[t] # NoJob
  <2>1. ThreadInv(t)
    BY Zenon DEF BridgeInv
  <2> QED
    BY <2>1 DEF ThreadInv, StoreOps, NoJob
<1>2. ~Call(t)
  <2>1. ASSUME Call(t) PROVE jobs[t] = NoJob
    BY <2>1, CallForms, Zenon DEF TableFacts, EntersStore, EntersSession, EnterStore, EnterSession, StoreOpen, Create,
                           CloseSession, CloseCandidate
  <2> QED
    BY <1>1, <2>1, Zenon
<1>3. ~LockSession(t) /\ ~LockStore(t) /\ ~PanicInStore(t)
  BY <1>1, SessionCall, StoreCall, Zenon DEF LockSession, LockStore, PanicInStore
<1> QED
  BY <1>2, <1>3, Zenon
     DEF Work, LockCandidate, QueryStore, CommandStore, CloseStore, ForgetStore, OpenInStore,
         LimitsOfStore, PublishSession, SessionClosed, SaveInSession, SaveLockStore, SaveInStore,
         RestoreInStore, DiscardInStore, AdvanceSession, CopyCompilationRequest,
         CompleteCompilation, UseSession, VerifyInSession, PublishCandidate, CandidateClosed,
         DeployResolve, DeployLock, DeployInstall, PanicInSession

\* A step that installs nothing leaves an installed candidate gone.
LEMMA InstallsKept ==
    ASSUME BridgeInv, NEW t \in Threads, TableFacts(t), Call(t) \/ Work(t),
           ~PublishCandidate(t), installs' = installs
    PROVE  InstallsInv'
<1>0. /\ installs \in Seq(Nat) /\ Len(installs) = Len(candCells) /\ InstallsInv
  BY Zenon DEF BridgeInv, BridgeTypes
<1> SUFFICES ASSUME NEW c \in 1 .. Len(installs), installs[c] # 0
             PROVE  /\ ~candCells'[c].full
                    /\ \A u \in Threads : candCalls'[u].pc = "inside" /\ candCalls'[u].cell = c =>
                          jobs'[u].op = "deployed"
  BY <1>0, Zenon DEF InstallsInv
<1>1. /\ ~candCells[c].full
      /\ \A u \in Threads : candCalls[u].pc = "inside" /\ candCalls[u].cell = c =>
            jobs[u].op = "deployed"
  BY <1>0, Zenon DEF InstallsInv
<1>2. ASSUME NEW u \in Threads, u # t
      PROVE  candCalls'[u].pc = "inside" /\ candCalls'[u].cell = c => jobs'[u].op = "deployed"
  BY <1>1, <1>2, OthersStay, StepJobs, Zenon DEF JobStep
<1>3. CASE jobs[t].op = "deployed"
  <2>1. Candidates!Consumed(t)
    BY <1>3, OnlyDeployEnd, Zenon DEF DeployEnd
  <2>2. candCalls'[t].pc = "idle" /\ candCalls[t].pc = "inside"
    BY <2>1, CandidateCall, Zenon
  <2>3. ~candCells'[candCalls[t].cell].full
    BY <2>1, Zenon DEF TableFacts, CandidateFacts
  <2>4. candCells'[c] = candCells[c] \/ candCalls[t].cell = c
    BY <1>0, Zenon DEF TableFacts, CandidateFacts
  <2> QED
    BY <1>1, <1>2, <2>2, <2>3, <2>4, Zenon
<1>4. CASE jobs[t].op # "deployed"
  <2>1. ~(candCalls[t].pc = "inside" /\ candCalls[t].cell = c)
    BY <1>1, <1>4, Zenon
  <2>2. candCells'[c] = candCells[c]
    BY <1>0, <1>1, <2>1, Zenon DEF TableFacts, CandidateFacts
  <2>3. ~(candCalls'[t].pc = "inside" /\ candCalls'[t].cell = c)
    BY <1>1, <2>1, Zenon DEF TableFacts, CandidateFacts
  <2> QED
    BY <1>1, <1>2, <2>2, <2>3, Zenon
<1> QED
  BY <1>3, <1>4, Zenon

\* A candidate is installed by the one deployment that has taken it out of its cell.
LEMMA InstallsThen ==
    ASSUME BridgeInv, NEW t \in Threads, TableFacts(t), Call(t) \/ Work(t)
    PROVE  /\ installs' \in Seq(Nat)
           /\ Len(installs') = Len(candCells')
           /\ InstallsInv'
<1>0. /\ installs \in Seq(Nat) /\ Len(installs) \in Nat
      /\ Len(installs) = Len(candCells) /\ InstallsInv
      /\ Candidates!UserInv
      /\ ThreadInv(t)
  BY DEF BridgeInv, BridgeTypes, TablesInv
<1>1. CASE PublishCandidate(t)
  <2>1. /\ jobs[t].op = "candidate" /\ installs' = Append(installs, 0)
    BY <1>1, Zenon DEF PublishCandidate
  <2>3. /\ candCalls' = candCalls /\ Len(candCells') = Len(candCells) + 1
        /\ \A c \in 1 .. Len(candCells) : candCells'[c] = candCells[c]
    BY <1>1, Zenon DEF TableFacts, CandidateFacts
  <2>4. /\ installs' \in Seq(Nat) /\ Len(installs') = Len(installs) + 1
        /\ installs'[Len(installs) + 1] = 0
        /\ \A c \in 1 .. Len(installs) : installs'[c] = installs[c]
    BY <1>0, <2>1
  <2>5. candCalls[t].pc = "idle"
    BY <2>1, WhereThreadsAre, Zenon DEF CandidateOps
  <2>6. \A u \in Threads : u # t => jobs'[u] = jobs[u]
    BY StepJobs, Zenon DEF JobStep
  <2>7. ASSUME NEW c \in 1 .. Len(installs')
        PROVE  /\ installs'[c] <= 1
               /\ installs'[c] # 0 =>
                     /\ ~candCells'[c].full
                     /\ \A u \in Threads : candCalls'[u].pc = "inside" /\ candCalls'[u].cell = c =>
                           jobs'[u].op = "deployed"
    <3>1. CASE c = Len(installs) + 1
      BY <2>4, <3>1
    <3>2. CASE c # Len(installs) + 1
      <4>1. c \in 1 .. Len(installs)
        BY <1>0, <2>4, <3>2
      <4> QED
        BY <1>0, <2>3, <2>4, <2>5, <2>6, <4>1, Zenon DEF InstallsInv
    <3> QED
      BY <3>1, <3>2, Zenon
  <2> QED
    BY <1>0, <2>3, <2>4, <2>7, Zenon DEF InstallsInv
<1>2. CASE installs' # installs /\ ~PublishCandidate(t)
  <2> DEFINE k == candCalls[t].cell
  <2>1. DeployInstall(t)
    <3>1. ASSUME Call(t) PROVE installs' = installs
      BY <3>1, CallForms, Zenon DEF TableFacts, EntersStore, EntersSession, EnterStore, EnterSession, StoreOpen, Create,
                             CloseSession, CloseCandidate, contents
    <3> QED
      BY <1>2, <3>1, Zenon
         DEF Work, LockSession, LockStore, LockCandidate, QueryStore, CommandStore, CloseStore,
             ForgetStore, OpenInStore, LimitsOfStore, PublishSession, SessionClosed,
             SaveInSession, SaveLockStore, SaveInStore, RestoreInStore, DiscardInStore,
             AdvanceSession, CopyCompilationRequest, CompleteCompilation, UseSession,
             VerifyInSession, CandidateClosed, DeployResolve, DeployLock, DeployEnd,
             PanicInSession, PanicInStore, contents
  <2>2. /\ jobs[t].op = "deploy" /\ Candidates!Inside(t, "consume")
        /\ installs' = [installs EXCEPT ![k] = @ + 1]
        /\ Continue(t, [op |-> "deployed"])
        /\ UNCHANGED candTable
    BY <1>2, <2>1, Zenon DEF DeployInstall
  <2>3. candCalls[t].pc = "inside"
    BY <2>2, Zenon DEF Candidates!Inside
  <2>4. /\ k \in 1 .. Len(candCells)
        /\ \A u \in Threads : u # t /\ candCalls[u].pc = "inside" => candCalls[u].cell # k
    BY <2>3, Zenon DEF TableFacts, CandidateFacts
  <2>5. ~candCells[k].full
    BY <1>0, <2>2, Zenon DEF Candidates!UserInv
  <2>6. installs[k] = 0
    BY <1>0, <2>2, <2>3, <2>4, Zenon DEF InstallsInv
  <2>7. /\ installs' \in Seq(Nat) /\ Len(installs') = Len(installs)
        /\ installs'[k] = 1
        /\ \A c \in 1 .. Len(installs) : c # k => installs'[c] = installs[c]
    <3> HIDE DEF k
    <3> QED
      BY <1>0, <2>2, <2>4, <2>6
  <2>8. /\ jobs'[t].op = "deployed"
        /\ \A u \in Threads : u # t => jobs'[u] = jobs[u]
    BY <2>2, StepJobs, Zenon DEF Continue, JobStep, BridgeInv, BridgeTypes
  <2>9. candCells' = candCells /\ candCalls' = candCalls
    BY <2>2, Zenon DEF candTable
  <2>10. ASSUME NEW c \in 1 .. Len(installs')
         PROVE  /\ installs'[c] <= 1
                /\ installs'[c] # 0 =>
                      /\ ~candCells'[c].full
                      /\ \A u \in Threads : candCalls'[u].pc = "inside" /\ candCalls'[u].cell = c =>
                            jobs'[u].op = "deployed"
    <3>1. CASE c = k
      BY <2>4, <2>5, <2>7, <2>8, <2>9, <3>1
    <3>2. CASE c # k
      BY <1>0, <2>7, <2>8, <2>9, <3>2, Zenon DEF InstallsInv
    <3> QED
      BY <3>1, <3>2, Zenon
  <2> QED
    BY <1>0, <2>7, <2>9, <2>10, Zenon DEF InstallsInv
<1>3. CASE installs' = installs /\ ~PublishCandidate(t)
  <2>1. Len(candCells') = Len(candCells)
    BY <1>3, Zenon DEF TableFacts, CandidateFacts
  <2> QED
    BY <1>0, <1>3, <2>1, InstallsKept, Zenon
<1> QED
  BY <1>1, <1>2, <1>3, Zenon

--------------------------------------------------------------------------------
(* Every object has its entry *)

\* The stores and the candidates beside their cells.
PartsInv ==
    /\ stores \in Seq({"active", "draining", "closed"}) /\ Len(stores) = Len(storeCells)
    /\ candidates \in Seq(Nat) /\ Len(candidates) = Len(candCells)

\* Only opening or closing a store changes the stores, and only the publication of a
\* candidate the candidates.
LEMMA PartsKept ==
    ASSUME NEW t \in Threads, TableFacts(t), Call(t) \/ Work(t)
    PROVE  /\ stores' = stores \/ StoreOpen(t) \/ CloseStore(t)
           /\ candidates' = candidates \/ PublishCandidate(t)
<1>1. ASSUME Call(t)
      PROVE  /\ stores' = stores \/ StoreOpen(t)
             /\ candidates' = candidates
  BY <1>1, CallForms, Zenon
     DEF TableFacts, EntersStore, EnterStore, EntersSession, EnterSession, StoreOpen, Create,
         CloseSession, CloseCandidate, contents
<1>2. ASSUME LockSession(t) \/ LockStore(t) \/ LockCandidate(t) \/ QueryStore(t) \/
             CommandStore(t)
      PROVE  UNCHANGED <<stores, candidates>>
  BY <1>2, Zenon DEF LockSession, LockStore, LockCandidate, QueryStore, CommandStore, contents
<1>3. ASSUME ForgetStore(t) \/ OpenInStore(t) \/ LimitsOfStore(t) \/ PublishSession(t) \/
             SessionClosed(t)
      PROVE  UNCHANGED <<stores, candidates>>
  BY <1>3, Zenon DEF ForgetStore, OpenInStore, LimitsOfStore, PublishSession, SessionClosed,
              contents
<1>4. ASSUME SaveInSession(t) \/ SaveLockStore(t) \/ SaveInStore(t) \/ RestoreInStore(t) \/
             DiscardInStore(t)
      PROVE  UNCHANGED <<stores, candidates>>
  BY <1>4, Zenon DEF SaveInSession, SaveLockStore, SaveInStore, RestoreInStore, DiscardInStore,
              contents
<1>5. ASSUME AdvanceSession(t) \/ CopyCompilationRequest(t) \/ CompleteCompilation(t) \/
             UseSession(t) \/ VerifyInSession(t)
      PROVE  UNCHANGED <<stores, candidates>>
  BY <1>5, Zenon DEF AdvanceSession, CopyCompilationRequest, CompleteCompilation, UseSession,
              VerifyInSession, contents
<1>6. ASSUME CandidateClosed(t) \/ DeployResolve(t) \/ DeployLock(t) \/ DeployInstall(t) \/
             DeployEnd(t)
      PROVE  UNCHANGED <<stores, candidates>>
  BY <1>6, Zenon DEF CandidateClosed, DeployResolve, DeployLock, DeployInstall, DeployEnd, contents
<1>7. ASSUME PanicInSession(t) \/ PanicInStore(t)
      PROVE  UNCHANGED <<stores, candidates>>
  BY <1>7, Zenon DEF PanicInSession, PanicInStore, contents
<1>8. ASSUME CloseStore(t) PROVE candidates' = candidates
  BY <1>8, Zenon DEF CloseStore, contents
<1>9. ASSUME PublishCandidate(t) PROVE stores' = stores
  BY <1>9, Zenon DEF PublishCandidate, contents
<1> QED
  BY <1>1, <1>2, <1>3, <1>4, <1>5, <1>6, <1>7, <1>8, <1>9, Zenon DEF Work

\* Every store has its entry.
LEMMA StoresThen ==
    ASSUME BridgeInv, PartsInv, NEW t \in Threads, TableFacts(t), Call(t) \/ Work(t)
    PROVE  stores' \in Seq({"active", "draining", "closed"}) /\ Len(stores') = Len(storeCells')
<1>0. /\ stores \in Seq({"active", "draining", "closed"}) /\ Len(stores) = Len(storeCells)
  BY Zenon DEF PartsInv
<1>1. CASE StoreOpen(t)
  <2>1. stores' = Append(stores, "active")
    BY <1>1, Zenon DEF StoreOpen
  <2>2. Len(storeCells') = Len(storeCells) + 1
    BY <1>1, Zenon DEF TableFacts, StoreFacts
  <2> QED
    BY <1>0, <2>1, <2>2
<1>2. CASE ~StoreOpen(t)
  <2>1. Len(storeCells') = Len(storeCells)
    BY <1>2, Zenon DEF TableFacts, StoreFacts
  <2>2. CASE CloseStore(t)
    <3>1. \E health \in {"draining", "closed"} :
             stores' = [stores EXCEPT ![storeCalls[t].cell] = health]
      BY <2>2, Zenon DEF CloseStore
    <3> QED
      BY <1>0, <2>1, <3>1, EntryReplaced
  <2>3. CASE ~CloseStore(t)
    <3>1. stores' = stores
      BY <1>2, <2>3, PartsKept, Zenon
    <3> QED
      BY <1>0, <2>1, <3>1, Zenon
  <2> QED
    BY <2>2, <2>3, Zenon
<1> QED
  BY <1>1, <1>2, Zenon

\* Every candidate has its entry.
LEMMA CandidatesThen ==
    ASSUME BridgeInv, PartsInv, NEW t \in Threads, TableFacts(t), Call(t) \/ Work(t)
    PROVE  candidates' \in Seq(Nat) /\ Len(candidates') = Len(candCells')
<1>0. /\ jobs[t] \in JobStates
      /\ candidates \in Seq(Nat) /\ Len(candidates) = Len(candCells)
  BY Zenon DEF BridgeInv, BridgeTypes, PartsInv
<1>1. CASE PublishCandidate(t)
  <2>1. candidates' = Append(candidates, jobs[t].machine)
    BY <1>1, Zenon DEF PublishCandidate
  <2>2. Len(candCells') = Len(candCells) + 1
    BY <1>1, Zenon DEF TableFacts, CandidateFacts
  <2>3. jobs[t].machine \in Nat
    BY <1>0, <1>1, Zenon DEF PublishCandidate, JobStates
  <2> QED
    BY <1>0, <2>1, <2>2, <2>3
<1>2. CASE ~PublishCandidate(t)
  <2>1. Len(candCells') = Len(candCells)
    BY <1>2, Zenon DEF TableFacts, CandidateFacts
  <2>2. candidates' = candidates
    BY <1>2, PartsKept, Zenon
  <2> QED
    BY <1>0, <2>1, <2>2, Zenon
<1> QED
  BY <1>1, <1>2, Zenon

--------------------------------------------------------------------------------
(* The tables are three of HandleTable *)

StoreTable == INSTANCE HandleTableProofs WITH
    slots <- storeSlots, cells <- storeCells, calls <- storeCalls, issued <- storeIssued,
    MaxCells <- MaxStores

CandTable == INSTANCE HandleTableProofs WITH
    slots <- candSlots, cells <- candCells, calls <- candCalls, issued <- candIssued,
    MaxCells <- MaxCandidates

\* What the theorems assume of a table.
LEMMA StoresAssumed == StoreTable!TableAssumption
BY TableAssumption, BridgeAssumption, Zenon DEF StoreTable!TableAssumption, StoreTable!AllHandles, AllHandles

LEMMA CandidatesAssumed == CandTable!TableAssumption
BY TableAssumption, BridgeAssumption, Zenon DEF CandTable!TableAssumption, CandTable!AllHandles, AllHandles

\* The table of stores is the one the theorems are about.
LEMMA StoresSame ==
    ASSUME NEW t, NEW kind, NEW h, NEW i
    PROVE  /\ Stores!Resolve(t, kind, h) <=> StoreTable!Resolve(t, kind, h)
           /\ Stores!TryLock(t) <=> StoreTable!TryLock(t)
           /\ Stores!Leave(t) <=> StoreTable!Leave(t)
           /\ Stores!GiveBack(t) <=> StoreTable!GiveBack(t)
           /\ Stores!Close(t) <=> StoreTable!Close(t)
           /\ Stores!Consumed(t) <=> StoreTable!Consumed(t)
           /\ Stores!Panic(t) <=> StoreTable!Panic(t)
           /\ Stores!Insert(i) <=> StoreTable!Insert(i)
           /\ Stores!Kinds = Kinds /\ StoreTable!Kinds = Kinds
<1>1. Stores!Resolve(t, kind, h) <=> StoreTable!Resolve(t, kind, h)
  BY Zenon DEF Stores!Resolve, StoreTable!Resolve, Stores!Resolution, StoreTable!Resolution, Stores!Idle,
         StoreTable!Idle
<1>2. Stores!TryLock(t) <=> StoreTable!TryLock(t)
  BY Zenon DEF Stores!TryLock, StoreTable!TryLock, Stores!LockResult, StoreTable!LockResult, Stores!Idle,
         StoreTable!Idle
<1>3. /\ Stores!Leave(t) <=> StoreTable!Leave(t)
      /\ Stores!GiveBack(t) <=> StoreTable!GiveBack(t)
  BY Zenon DEF Stores!Leave, StoreTable!Leave, Stores!GiveBack, StoreTable!GiveBack, Stores!Inside,
         StoreTable!Inside, Stores!Unlock, StoreTable!Unlock, Stores!Idle, StoreTable!Idle
<1>4. Stores!Clear(t) <=> StoreTable!Clear(t)
  BY Zenon DEF Stores!Clear, StoreTable!Clear, Stores!StillThere, StoreTable!StillThere, Stores!Unlock,
         StoreTable!Unlock, Stores!Idle, StoreTable!Idle, Stores!NextGeneration,
         StoreTable!NextGeneration
<1>5. /\ Stores!Close(t) <=> StoreTable!Close(t)
      /\ Stores!Consumed(t) <=> StoreTable!Consumed(t)
  BY <1>4, Zenon DEF Stores!Close, StoreTable!Close, Stores!Consumed, StoreTable!Consumed, Stores!Inside,
              StoreTable!Inside
<1>6. Stores!Panic(t) <=> StoreTable!Panic(t)
  BY Zenon DEF Stores!Panic, StoreTable!Panic, Stores!Inside, StoreTable!Inside, Stores!Unlock,
         StoreTable!Unlock, Stores!Idle, StoreTable!Idle
<1>7. Stores!Insert(i) <=> StoreTable!Insert(i)
  BY Zenon DEF Stores!Insert, StoreTable!Insert, Stores!FirstFree, StoreTable!FirstFree,
         Stores!HandleFor, StoreTable!HandleFor, Stores!Issue, StoreTable!Issue
<1>8. Stores!Kinds = Kinds /\ StoreTable!Kinds = Kinds
  BY Zenon DEF Stores!Kinds, StoreTable!Kinds, Kinds
<1> QED
  BY <1>1, <1>2, <1>3, <1>5, <1>6, <1>7, <1>8, Zenon

\* So are its steps and its invariant.
LEMMA StoresAgree ==
    /\ Stores!TableInv <=> StoreTable!TableInv
    /\ Stores!TableInv' <=> StoreTable!TableInv'
    /\ Stores!UserInv <=> StoreTable!UserInv
    /\ Stores!UserInv' <=> StoreTable!UserInv'
    /\ Stores!InsertStep <=> StoreTable!InsertStep
    /\ \A t : Stores!StepOf(t) <=> StoreTable!StepOf(t)
<1>1. Stores!TableTypeOK <=> StoreTable!TableTypeOK
  BY Zenon DEF Stores!TableTypeOK, StoreTable!TableTypeOK, Stores!Slot, StoreTable!Slot,
         Stores!Cell, StoreTable!Cell, Stores!CallState, StoreTable!CallState,
         Stores!Kinds, StoreTable!Kinds, Stores!AllHandles, StoreTable!AllHandles
<1>2. Stores!TableTypeOK' <=> StoreTable!TableTypeOK'
  BY Zenon DEF Stores!TableTypeOK, StoreTable!TableTypeOK, Stores!Slot, StoreTable!Slot,
         Stores!Cell, StoreTable!Cell, Stores!CallState, StoreTable!CallState,
         Stores!Kinds, StoreTable!Kinds, Stores!AllHandles, StoreTable!AllHandles
<1>3. (Stores!SlotsInv <=> StoreTable!SlotsInv) /\ (Stores!SlotsInv' <=> StoreTable!SlotsInv')
  BY Zenon DEF Stores!SlotsInv, StoreTable!SlotsInv
<1>4. (Stores!IssuedInv <=> StoreTable!IssuedInv) /\ (Stores!IssuedInv' <=> StoreTable!IssuedInv')
  BY Zenon DEF Stores!IssuedInv, StoreTable!IssuedInv
<1>5. (Stores!FullInv <=> StoreTable!FullInv) /\ (Stores!FullInv' <=> StoreTable!FullInv')
  BY Zenon DEF Stores!FullInv, StoreTable!FullInv, Stores!InUse, StoreTable!InUse,
         Stores!Holds, StoreTable!Holds
<1>6. (Stores!CallsInv <=> StoreTable!CallsInv) /\ (Stores!CallsInv' <=> StoreTable!CallsInv')
  BY Zenon DEF Stores!CallsInv, StoreTable!CallsInv, Stores!Holds, StoreTable!Holds
<1>7. (Stores!TableInv <=> StoreTable!TableInv) /\ (Stores!TableInv' <=> StoreTable!TableInv')
  BY <1>1, <1>2, <1>3, <1>4, <1>5, <1>6, Zenon DEF Stores!TableInv, StoreTable!TableInv
<1>8. (Stores!UserInv <=> StoreTable!UserInv) /\ (Stores!UserInv' <=> StoreTable!UserInv')
  BY Zenon DEF Stores!UserInv, StoreTable!UserInv, Stores!Inside, StoreTable!Inside
<1>9. Stores!InsertStep <=> StoreTable!InsertStep
  BY StoresSame, Zenon DEF Stores!InsertStep, StoreTable!InsertStep
<1>10. ASSUME NEW t PROVE Stores!StepOf(t) <=> StoreTable!StepOf(t)
  BY StoresSame, Zenon DEF Stores!StepOf, StoreTable!StepOf
<1> QED
  BY <1>7, <1>8, <1>9, <1>10, Zenon

\* The table of candidates is the one the theorems are about.
LEMMA CandidatesSame ==
    ASSUME NEW t, NEW kind, NEW h, NEW i
    PROVE  /\ Candidates!Resolve(t, kind, h) <=> CandTable!Resolve(t, kind, h)
           /\ Candidates!TryLock(t) <=> CandTable!TryLock(t)
           /\ Candidates!Leave(t) <=> CandTable!Leave(t)
           /\ Candidates!GiveBack(t) <=> CandTable!GiveBack(t)
           /\ Candidates!Close(t) <=> CandTable!Close(t)
           /\ Candidates!Consumed(t) <=> CandTable!Consumed(t)
           /\ Candidates!Panic(t) <=> CandTable!Panic(t)
           /\ Candidates!Insert(i) <=> CandTable!Insert(i)
           /\ Candidates!Kinds = Kinds /\ CandTable!Kinds = Kinds
<1>1. Candidates!Resolve(t, kind, h) <=> CandTable!Resolve(t, kind, h)
  BY Zenon DEF Candidates!Resolve, CandTable!Resolve, Candidates!Resolution, CandTable!Resolution, Candidates!Idle,
         CandTable!Idle
<1>2. Candidates!TryLock(t) <=> CandTable!TryLock(t)
  BY Zenon DEF Candidates!TryLock, CandTable!TryLock, Candidates!LockResult, CandTable!LockResult, Candidates!Idle,
         CandTable!Idle
<1>3. /\ Candidates!Leave(t) <=> CandTable!Leave(t)
      /\ Candidates!GiveBack(t) <=> CandTable!GiveBack(t)
  BY Zenon DEF Candidates!Leave, CandTable!Leave, Candidates!GiveBack, CandTable!GiveBack, Candidates!Inside,
         CandTable!Inside, Candidates!Unlock, CandTable!Unlock, Candidates!Idle, CandTable!Idle
<1>4. Candidates!Clear(t) <=> CandTable!Clear(t)
  BY Zenon DEF Candidates!Clear, CandTable!Clear, Candidates!StillThere, CandTable!StillThere, Candidates!Unlock,
         CandTable!Unlock, Candidates!Idle, CandTable!Idle, Candidates!NextGeneration,
         CandTable!NextGeneration
<1>5. /\ Candidates!Close(t) <=> CandTable!Close(t)
      /\ Candidates!Consumed(t) <=> CandTable!Consumed(t)
  BY <1>4, Zenon DEF Candidates!Close, CandTable!Close, Candidates!Consumed, CandTable!Consumed, Candidates!Inside,
              CandTable!Inside
<1>6. Candidates!Panic(t) <=> CandTable!Panic(t)
  BY Zenon DEF Candidates!Panic, CandTable!Panic, Candidates!Inside, CandTable!Inside, Candidates!Unlock,
         CandTable!Unlock, Candidates!Idle, CandTable!Idle
<1>7. Candidates!Insert(i) <=> CandTable!Insert(i)
  BY Zenon DEF Candidates!Insert, CandTable!Insert, Candidates!FirstFree, CandTable!FirstFree,
         Candidates!HandleFor, CandTable!HandleFor, Candidates!Issue, CandTable!Issue
<1>8. Candidates!Kinds = Kinds /\ CandTable!Kinds = Kinds
  BY Zenon DEF Candidates!Kinds, CandTable!Kinds, Kinds
<1> QED
  BY <1>1, <1>2, <1>3, <1>5, <1>6, <1>7, <1>8, Zenon

\* So are its steps and its invariant.
LEMMA CandidatesAgree ==
    /\ Candidates!TableInv <=> CandTable!TableInv
    /\ Candidates!TableInv' <=> CandTable!TableInv'
    /\ Candidates!UserInv <=> CandTable!UserInv
    /\ Candidates!UserInv' <=> CandTable!UserInv'
    /\ Candidates!InsertStep <=> CandTable!InsertStep
    /\ \A t : Candidates!StepOf(t) <=> CandTable!StepOf(t)
<1>1. Candidates!TableTypeOK <=> CandTable!TableTypeOK
  BY Zenon DEF Candidates!TableTypeOK, CandTable!TableTypeOK, Candidates!Slot, CandTable!Slot,
         Candidates!Cell, CandTable!Cell, Candidates!CallState, CandTable!CallState,
         Candidates!Kinds, CandTable!Kinds, Candidates!AllHandles, CandTable!AllHandles
<1>2. Candidates!TableTypeOK' <=> CandTable!TableTypeOK'
  BY Zenon DEF Candidates!TableTypeOK, CandTable!TableTypeOK, Candidates!Slot, CandTable!Slot,
         Candidates!Cell, CandTable!Cell, Candidates!CallState, CandTable!CallState,
         Candidates!Kinds, CandTable!Kinds, Candidates!AllHandles, CandTable!AllHandles
<1>3. (Candidates!SlotsInv <=> CandTable!SlotsInv) /\ (Candidates!SlotsInv' <=> CandTable!SlotsInv')
  BY Zenon DEF Candidates!SlotsInv, CandTable!SlotsInv
<1>4. (Candidates!IssuedInv <=> CandTable!IssuedInv) /\ (Candidates!IssuedInv' <=> CandTable!IssuedInv')
  BY Zenon DEF Candidates!IssuedInv, CandTable!IssuedInv
<1>5. (Candidates!FullInv <=> CandTable!FullInv) /\ (Candidates!FullInv' <=> CandTable!FullInv')
  BY Zenon DEF Candidates!FullInv, CandTable!FullInv, Candidates!InUse, CandTable!InUse,
         Candidates!Holds, CandTable!Holds
<1>6. (Candidates!CallsInv <=> CandTable!CallsInv) /\ (Candidates!CallsInv' <=> CandTable!CallsInv')
  BY Zenon DEF Candidates!CallsInv, CandTable!CallsInv, Candidates!Holds, CandTable!Holds
<1>7. (Candidates!TableInv <=> CandTable!TableInv) /\ (Candidates!TableInv' <=> CandTable!TableInv')
  BY <1>1, <1>2, <1>3, <1>4, <1>5, <1>6, Zenon DEF Candidates!TableInv, CandTable!TableInv
<1>8. (Candidates!UserInv <=> CandTable!UserInv) /\ (Candidates!UserInv' <=> CandTable!UserInv')
  BY Zenon DEF Candidates!UserInv, CandTable!UserInv, Candidates!Inside, CandTable!Inside
<1>9. Candidates!InsertStep <=> CandTable!InsertStep
  BY CandidatesSame, Zenon DEF Candidates!InsertStep, CandTable!InsertStep
<1>10. ASSUME NEW t PROVE Candidates!StepOf(t) <=> CandTable!StepOf(t)
  BY CandidatesSame, Zenon DEF Candidates!StepOf, CandTable!StepOf
<1> QED
  BY <1>7, <1>8, <1>9, <1>10, Zenon

\* The host only passes handles the tables know the space of.
LEMMA HostHandles ==
    ASSUME BridgeInv
    PROVE  HandlesKnown
<1>1. NullHandle \in Handles
  BY BridgeAssumption, TableAssumption DEF NullHandle
<1>2. DOMAIN issued \subseteq Handles
  BY HandleBounds, BridgeAssumption, Zenon DEF BridgeInv, TablesInv
<1>3. DOMAIN storeIssued \subseteq Handles
  BY StoreTable!HandleBounds, StoresAssumed, StoresAgree, BridgeAssumption, Zenon DEF BridgeInv, TablesInv
<1>4. DOMAIN candIssued \subseteq Handles
  BY CandTable!HandleBounds, CandidatesAssumed, CandidatesAgree, BridgeAssumption, Zenon DEF BridgeInv, TablesInv
<1> QED
  BY <1>1, <1>2, <1>3, <1>4, Zenon DEF HandlesKnown, SessionHandles, StoreHandles, CandidateHandles

\* Every step is a step of each table, and keeps what holds of it.
LEMMA StepTables ==
    ASSUME BridgeInv, [BridgeNext]_bridgeVars
    PROVE  /\ [TableNext]_tableVars
           /\ [Stores!TableNext]_(Stores!tableVars)
           /\ [Candidates!TableNext]_(Candidates!tableVars)
           /\ TablesInv'
<1>1. /\ [InsertStep \/ \E t \in Threads : StepOf(t)]_tableVars
      /\ [Stores!InsertStep \/ \E t \in Threads : Stores!StepOf(t)]_storeTable
      /\ [Candidates!InsertStep \/ \E t \in Threads : Candidates!StepOf(t)]_candTable
  <2>1. CASE UNCHANGED bridgeVars \/ Finished
    BY <2>1, Zenon DEF bridgeVars, Finished, sessionTable
  <2>2. ASSUME NEW t \in Threads, Call(t) \/ Work(t)
        PROVE  /\ [InsertStep \/ \E u \in Threads : StepOf(u)]_tableVars
               /\ [Stores!InsertStep \/ \E u \in Threads : Stores!StepOf(u)]_storeTable
               /\ [Candidates!InsertStep \/ \E u \in Threads : Candidates!StepOf(u)]_candTable
    BY <2>2, HostHandles, SessionSteps, StoreSteps, CandidateSteps, Zenon
  <2> QED
    BY <2>1, <2>2, Zenon DEF BridgeNext
<1>3. [TableNext]_tableVars
  BY <1>1, Zenon DEF StepOf, InsertStep, TableNext
<1>4. [Stores!TableNext]_(Stores!tableVars)
  BY <1>1, Zenon DEF Stores!StepOf, Stores!InsertStep, Stores!TableNext, Stores!tableVars, storeTable
<1>5. [Candidates!TableNext]_(Candidates!tableVars)
  BY <1>1, Zenon DEF Candidates!StepOf, Candidates!InsertStep, Candidates!TableNext, Candidates!tableVars,
              candTable
<1>6. TableInv' /\ UserInv'
  BY <1>1, <1>3, StepInv, StepUser, Zenon DEF BridgeInv, TablesInv
<1>7. Stores!TableInv' /\ Stores!UserInv'
  <2>1. [StoreTable!InsertStep \/ \E t \in Threads : StoreTable!StepOf(t)]_(StoreTable!tableVars)
    BY <1>1, StoresAgree, Zenon DEF StoreTable!tableVars, storeTable
  <2>2. [StoreTable!TableNext]_(StoreTable!tableVars)
    BY <2>1, Zenon DEF StoreTable!StepOf, StoreTable!InsertStep, StoreTable!TableNext
  <2>3. StoreTable!TableInv /\ StoreTable!UserInv
    BY StoresAgree, Zenon DEF BridgeInv, TablesInv
  <2>4. StoreTable!TableInv'
    BY <2>2, <2>3, StoreTable!StepInv, StoresAssumed, Zenon
  <2>5. StoreTable!UserInv'
    BY <2>1, <2>3, StoreTable!StepUser, StoresAssumed, Zenon
  <2> QED
    BY <2>4, <2>5, StoresAgree, Zenon
<1>8. Candidates!TableInv' /\ Candidates!UserInv'
  <2>1. [CandTable!InsertStep \/ \E t \in Threads : CandTable!StepOf(t)]_(CandTable!tableVars)
    BY <1>1, CandidatesAgree, Zenon DEF CandTable!tableVars, candTable
  <2>2. [CandTable!TableNext]_(CandTable!tableVars)
    BY <2>1, Zenon DEF CandTable!StepOf, CandTable!InsertStep, CandTable!TableNext
  <2>3. CandTable!TableInv /\ CandTable!UserInv
    BY CandidatesAgree, Zenon DEF BridgeInv, TablesInv
  <2>4. CandTable!TableInv'
    BY <2>2, <2>3, CandTable!StepInv, CandidatesAssumed, Zenon
  <2>5. CandTable!UserInv'
    BY <2>1, <2>3, CandTable!StepUser, CandidatesAssumed, Zenon
  <2> QED
    BY <2>4, <2>5, CandidatesAgree, Zenon
<1> QED
  BY <1>3, <1>4, <1>5, <1>6, <1>7, <1>8, Zenon DEF TablesInv

\* What a step does to the table of sessions.
LEMMA SessionsShow ==
    ASSUME BridgeInv, NEW t \in Threads, Call(t) \/ Work(t)
    PROVE  SessionFacts(t)
<1>0. TableInv /\ HandlesKnown
  BY HostHandles, Zenon DEF BridgeInv, TablesInv
<1>1. \A u \in Threads : calls[u].pc = "inside" => calls[u].cell \in 1 .. Len(cells)
  BY <1>0, InsideFacts, Zenon
<1>2. CASE Create(t) \/ PublishSession(t)
  <2>1. InsertStep
    BY <1>2, Zenon DEF Create, PublishSession, InsertSession, InsertStep
  <2>2. calls' = calls /\ Len(cells') = Len(cells) + 1
    BY <1>0, <2>1, InsertedThen, Zenon
  <2> QED
    BY <1>0, <1>1, <1>2, <2>2, CallThen, Zenon DEF SessionFacts
<1>3. CASE ~(Create(t) \/ PublishSession(t))
  <2>1. [StepOf(t)]_tableVars
    BY <1>0, <1>3, SessionSteps, Zenon
  <2>2. Len(cells') = Len(cells) /\ \A u \in Threads : u # t => calls'[u] = calls[u]
    BY <1>0, <2>1, SteppedThen, Zenon DEF tableVars
  <2> QED
    BY <1>0, <1>1, <1>3, <2>2, CallThen, Zenon DEF SessionFacts
<1> QED
  BY <1>2, <1>3, Zenon

\* What a step does to the table of stores.
LEMMA StoresShow ==
    ASSUME BridgeInv, NEW t \in Threads, Call(t) \/ Work(t)
    PROVE  StoreFacts(t)
<1>0. StoreTable!TableInv /\ HandlesKnown
  BY HostHandles, StoresAgree, Zenon DEF BridgeInv, TablesInv
<1>1. \A u \in Threads : storeCalls[u].pc = "inside" =>
        /\ storeCalls[u].cell \in 1 .. Len(storeCells)
        /\ storeCalls[u].handle \in DOMAIN storeIssued
        /\ storeIssued[storeCalls[u].handle] = storeCalls[u].cell
  BY <1>0, StoreTable!InsideFacts, StoresAssumed, Zenon
<1>2. /\ Stores!Leave(t) \/ Stores!Close(t) \/ Stores!Panic(t) =>
            storeCalls[t].pc = "inside" /\ storeCalls'[t].pc = "idle"
      /\ Stores!TryLock(t) =>
            /\ storeCalls[t].pc = "lock"
            /\ storeCalls'[t].pc \in {"idle", "inside"}
            /\ storeCalls'[t].pc = "inside" => storeCalls'[t].handle = storeCalls[t].handle
      /\ \A kind, h : Stores!Resolve(t, kind, h) =>
            /\ storeCalls[t].pc = "idle"
            /\ storeCalls'[t].pc \in {"idle", "lock"}
            /\ storeCalls'[t].pc = "lock" => storeCalls'[t].handle = h
  BY <1>0, StoreTable!CallThen, StoresAssumed, StoresSame, Zenon
<1>3. CASE StoreOpen(t)
  <2>1. StoreTable!InsertStep
    BY <1>3, StoresAgree, Zenon DEF StoreOpen, Stores!InsertStep
  <2>2. /\ storeCalls' = storeCalls /\ Len(storeCells') = Len(storeCells) + 1
        /\ \A h \in DOMAIN storeIssued : h \in DOMAIN storeIssued' /\ storeIssued'[h] = storeIssued[h]
    BY <1>0, <2>1, StoreTable!InsertedThen, StoresAssumed, Zenon
  <2> QED
    BY <1>1, <1>2, <1>3, <2>2, Zenon DEF StoreFacts
<1>4. CASE ~StoreOpen(t)
  <2>1. UNCHANGED storeTable \/ StoreTable!StepOf(t)
    BY <1>0, <1>4, StoreSteps, StoresAgree, Zenon
  <2>2. /\ Len(storeCells') = Len(storeCells) /\ storeIssued' = storeIssued
        /\ \A u \in Threads : u # t => storeCalls'[u] = storeCalls[u]
    BY <1>0, <2>1, StoreTable!SteppedThen, StoresAssumed, Zenon DEF storeTable
  <2> QED
    BY <1>1, <1>2, <1>4, <2>2, Zenon DEF StoreFacts
<1> QED
  BY <1>3, <1>4, Zenon

\* What a step does to the table of candidates.
LEMMA CandidatesShow ==
    ASSUME BridgeInv, NEW t \in Threads, Call(t) \/ Work(t)
    PROVE  CandidateFacts(t)
<1>0. CandTable!TableInv /\ HandlesKnown
  BY HostHandles, CandidatesAgree, Zenon DEF BridgeInv, TablesInv
<1>1. \A u \in Threads : candCalls[u].pc = "inside" =>
        /\ candCalls[u].cell \in 1 .. Len(candCells)
        /\ \A v \in Threads : v # u /\ candCalls[v].pc = "inside" => candCalls[v].cell # candCalls[u].cell
  BY <1>0, CandTable!InsideFacts, CandidatesAssumed, Zenon
<1>2. /\ Candidates!GiveBack(t) \/ Candidates!Close(t) \/ Candidates!Consumed(t) \/ Candidates!Panic(t) =>
            candCalls[t].pc = "inside" /\ candCalls'[t].pc = "idle"
      /\ Candidates!TryLock(t) => candCalls[t].pc = "lock" /\ candCalls'[t].pc \in {"idle", "inside"}
      /\ \A kind, h : Candidates!Resolve(t, kind, h) =>
            candCalls[t].pc = "idle" /\ candCalls'[t].pc \in {"idle", "lock"}
  BY <1>0, CandTable!CallThen, CandidatesAssumed, CandidatesSame, Zenon
<1>3. Candidates!Consumed(t) => ~candCells'[candCalls[t].cell].full
  BY <1>0, CandTable!ConsumedThen, CandidatesAssumed, CandidatesSame, Zenon
<1>4. CASE PublishCandidate(t)
  <2>1. CandTable!InsertStep
    BY <1>4, CandidatesAgree, Zenon DEF PublishCandidate, Candidates!InsertStep
  <2>2. /\ candCalls' = candCalls /\ Len(candCells') = Len(candCells) + 1
        /\ \A c \in 1 .. Len(candCells) : candCells'[c] = candCells[c]
    BY <1>0, <2>1, CandTable!InsertedThen, CandidatesAssumed, Zenon
  <2> QED
    BY <1>1, <1>2, <1>3, <1>4, <2>2, Zenon DEF CandidateFacts
<1>5. CASE ~PublishCandidate(t)
  <2>1. UNCHANGED candTable \/ CandTable!StepOf(t)
    BY <1>0, <1>5, CandidateSteps, CandidatesAgree, Zenon
  <2>2. /\ Len(candCells') = Len(candCells)
        /\ \A u \in Threads : u # t => candCalls'[u] = candCalls[u]
        /\ \A c \in 1 .. Len(candCells) :
              \/ candCells'[c] = candCells[c]
              \/ /\ candCalls[t].pc = "inside" \/ candCells[c].full
                 /\ candCalls[t].pc # "idle" /\ candCalls[t].cell = c
    BY <1>0, <2>1, CandTable!SteppedThen, CandidatesAssumed, Zenon DEF candTable
  <2>3. candCalls'[t].pc = "inside" =>
          \/ candCalls'[t] = candCalls[t]
          \/ candCells[candCalls[t].cell].full /\ candCalls'[t].cell = candCalls[t].cell
    BY <1>0, <2>1, CandTable!TakenThen, CandidatesAssumed, Zenon DEF candTable
  <2> QED
    BY <1>1, <1>2, <1>3, <1>5, <2>2, <2>3, Zenon DEF CandidateFacts
<1> QED
  BY <1>4, <1>5, Zenon

\* What the steps were proved from.
LEMMA TablesShow ==
    ASSUME BridgeInv, NEW t \in Threads, Call(t) \/ Work(t)
    PROVE  TableFacts(t)
BY HostHandles, SessionsShow, StoresShow, CandidatesShow, Zenon DEF TableFacts

--------------------------------------------------------------------------------
(* The invariant *)

\* The invariant holds before the first call.
LEMMA InitBridge == BridgeInit => BridgeInv
<1> SUFFICES ASSUME BridgeInit PROVE BridgeInv
  BY Zenon
<1>1. TableInv /\ UserInv
  BY InitInv, InitUser, Zenon DEF BridgeInit
<1>2. StoreTable!TableInit /\ CandTable!TableInit
  BY Zenon DEF BridgeInit, Stores!TableInit, StoreTable!TableInit, Candidates!TableInit,
         CandTable!TableInit, Stores!Idle, StoreTable!Idle, Candidates!Idle, CandTable!Idle
<1>3. Stores!TableInv /\ Stores!UserInv
  BY <1>2, StoreTable!InitInv, StoreTable!InitUser, StoresAssumed, StoresAgree, Zenon
<1>4. Candidates!TableInv /\ Candidates!UserInv
  BY <1>2, CandTable!InitInv, CandTable!InitUser, CandidatesAssumed, CandidatesAgree, Zenon
<1>5. BridgeTypes
  BY DEF BridgeInit, BridgeTypes, TableInit, Candidates!TableInit, NoJob, JobStates
<1>6. SessionsInv /\ InstallsInv
  BY DEF BridgeInit, SessionsInv, InstallsInv
<1>7. \A t \in Threads : ThreadInv(t)
  <2>1. \A t \in Threads : /\ jobs[t].op = "none" /\ calls[t].pc = "idle"
                           /\ storeCalls[t].pc = "idle" /\ candCalls[t].pc = "idle"
    BY <1>2, Zenon DEF BridgeInit, TableInit, StoreTable!TableInit, CandTable!TableInit, Idle,
                StoreTable!Idle, CandTable!Idle, NoJob
  <2> QED
    BY <2>1, Zenon DEF ThreadInv
<1>8. CheckpointsInv
  BY Zenon DEF BridgeInit, CheckpointsInv
<1> QED
  BY <1>1, <1>3, <1>4, <1>5, <1>6, <1>7, <1>8, Zenon DEF BridgeInv, TablesInv

\* Every step keeps it.
LEMMA StepBridge == BridgeInv /\ [BridgeNext]_bridgeVars => BridgeInv'
<1> SUFFICES ASSUME BridgeInv, [BridgeNext]_bridgeVars PROVE BridgeInv'
  BY Zenon
<1>1. TablesInv'
  BY StepTables, Zenon
<1>2. CASE UNCHANGED bridgeVars \/ Finished
  <2>1. /\ UNCHANGED <<calls, storeCalls, storeIssued, candCalls, candCells, cells>>
        /\ UNCHANGED <<sessions, disk, installs, jobs>>
    BY <1>2, Zenon DEF Finished, bridgeVars, sessionTable, tableVars, storeTable, candTable, contents
  <2>2. BridgeTypes' /\ SessionsInv'
    BY <2>1, Zenon DEF BridgeInv, BridgeTypes, SessionsInv, Placed, Retains
  <2>3. CheckpointsInv' /\ InstallsInv'
    BY <2>1, Zenon DEF BridgeInv, CheckpointsInv, InstallsInv
  <2>4. \A t \in Threads : ThreadInv(t)'
    BY <2>1, Zenon DEF BridgeInv, ThreadInv, Placed, Retains
  <2> QED
    BY <1>1, <2>2, <2>3, <2>4, Zenon DEF BridgeInv
<1>3. ASSUME NEW t \in Threads, Call(t) \/ Work(t)
      PROVE  BridgeInv'
  <2>0. TableFacts(t)
    BY <1>3, TablesShow, Zenon
  <2>1. BridgeTypes'
    BY <1>3, <2>0, SessionsThen, DiskThen, InstallsThen, StepJobs, Zenon DEF BridgeTypes, JobStep
  <2>2. SessionsInv' /\ CheckpointsInv' /\ InstallsInv'
    BY <1>3, <2>0, SessionsThen, DiskThen, InstallsThen, Zenon
  <2>3. \A u \in Threads : ThreadInv(u)'
    BY <1>3, <2>0, ThreadsStay, Zenon
  <2> QED
    BY <1>1, <2>1, <2>2, <2>3, Zenon DEF BridgeInv
<1> QED
  BY <1>2, <1>3, Zenon DEF BridgeNext

\* The invariant holds in every behaviour.
LEMMA BridgeCorrect == BridgeSpec => []BridgeInv
BY InitBridge, StepBridge, PTL DEF BridgeSpec

\* Every step keeps the entries.
LEMMA StepParts == BridgeInv /\ PartsInv /\ [BridgeNext]_bridgeVars => PartsInv'
<1>1. CASE UNCHANGED bridgeVars \/ Finished
  BY <1>1, Zenon DEF PartsInv, Finished, bridgeVars, storeTable, candTable, contents
<1>2. ASSUME BridgeInv, PartsInv, NEW t \in Threads, Call(t) \/ Work(t)
      PROVE  PartsInv'
  BY <1>2, TablesShow, StoresThen, CandidatesThen, Zenon DEF PartsInv
<1> QED
  BY <1>1, <1>2, Zenon DEF BridgeNext

\* Every session, store and candidate has its cell, and a thread that is in no exported
\* function is in no table.
THEOREM BridgeTypesCorrect == BridgeSpec => []BridgeTypeOK
<1>1. BridgeInit => PartsInv
  BY DEF BridgeInit, PartsInv, Stores!TableInit, Candidates!TableInit
<1>2. BridgeInv /\ PartsInv => BridgeTypeOK
  BY WhereThreadsAre, Zenon DEF BridgeInv, BridgeTypes, PartsInv, BridgeTypeOK, Quiet
<1> QED
  BY <1>1, <1>2, StepParts, BridgeCorrect, PTL DEF BridgeSpec

--------------------------------------------------------------------------------
(* What the foreign interface promises *)

\* However the threads of the host interleave, a verified candidate is installed at most
\* once, and the deployment that installed it is never told that it went stale (deploy,
\* consume_if).
THEOREM CandidatesDeployOnce == BridgeSpec => []DeployedOnce
<1>1. BridgeInv => DeployedOnce
  <2> SUFFICES ASSUME BridgeInv PROVE DeployedOnce
    BY Zenon
  <2>1. ASSUME NEW t \in Threads, candCalls[t].pc = "inside" PROVE Candidates!StillThere(t)
    <3>1. CandTable!StillThere(t)
      BY <2>1, CandTable!InsideFacts, CandidatesAssumed, CandidatesAgree, Zenon DEF BridgeInv, TablesInv
    <3> QED
      BY <3>1, Zenon DEF CandTable!StillThere, Candidates!StillThere
  <2> QED
    BY <2>1, Zenon DEF DeployedOnce, BridgeInv, InstallsInv, Candidates!ClearIsCertain
<1> QED
  BY <1>1, BridgeCorrect, PTL

\* However stores are closed and opened and their slots reused, a computer's checkpoint
\* was written by a session of that computer through the store it was created in
\* (checkpoint_save).
THEOREM CheckpointsComeFromOwners == BridgeSpec => []CheckpointFromOwner
<1>1. BridgeInv => CheckpointFromOwner
  BY Zenon DEF BridgeInv, CheckpointsInv, CheckpointFromOwner
<1> QED
  BY <1>1, BridgeCorrect, PTL

\* The host can always read and answer the compilation a computer waits for (advance,
\* complete_compilation_artifact, BridgeSession::new).
THEOREM CompilationsStayAnswerable == BridgeSpec => []CompilationAnswerable
<1>1. BridgeInv => CompilationAnswerable
  BY Zenon DEF BridgeInv, SessionsInv, Retains, CompilationAnswerable
<1> QED
  BY <1>1, BridgeCorrect, PTL

\* The exported functions take only steps of the three tables, so each table keeps what
\* HandleTable promises: the bridge implements three of them (sessions, stores,
\* DEPLOYMENT_CANDIDATES).
THEOREM BridgeImplementsTables == BridgeSpec => TablesBehave
<1>1. BridgeInit => TableInit /\ Stores!TableInit /\ Candidates!TableInit
  BY Zenon DEF BridgeInit
<1>2. BridgeInv /\ [BridgeNext]_bridgeVars =>
        /\ [TableNext]_tableVars
        /\ [Stores!TableNext]_(Stores!tableVars)
        /\ [Candidates!TableNext]_(Candidates!tableVars)
  BY StepTables, Zenon
<1> QED
  BY <1>1, <1>2, BridgeCorrect, PTL
     DEF BridgeSpec, TablesBehave, TableSpec, Stores!TableSpec, Candidates!TableSpec
================================================================================
