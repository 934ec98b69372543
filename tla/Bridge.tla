--------------------------------- MODULE Bridge ---------------------------------
(***************************************************************************)
(* The foreign interface: the exported C functions (ffi/src/ffi_api.rs)    *)
(* over the bridge (ffi/src/bridge.rs), called by several threads of the   *)
(* host.  Three handle tables hold the sessions, the world stores and the  *)
(* deployment candidates.  This module extends HandleTable, whose          *)
(* variables are the table of sessions, and instantiates it twice more.    *)
(*                                                                         *)
(* An exported function checks its arguments, enters a table, and works on *)
(* the object while it holds the object's mutex.  Some enter a second      *)
(* table from inside the first (deploy, checkpoint_save), some enter one   *)
(* table twice (store_close, create_in_store, the copy of a compilation    *)
(* request): each entry is a step of its own, and other threads run        *)
(* between the steps.                                                      *)
(*                                                                         *)
(* What a computer, a store or a verified program does inside is abstract: *)
(* a session is the fields of BridgeSession and the part of the computer   *)
(* they are compared with.  Which status an error is answered with is left *)
(* out; an error is the alternative in which the function returns early.   *)
(* A call whose arguments are refused has touched nothing, and is a        *)
(* stuttering step.                                                        *)
(***************************************************************************)
EXTENDS HandleTable, FiniteSets

CONSTANTS
    Ids,            \* identities of computers
    None,           \* no handle, no identity, no checkpoint
    MaxStores,      \* bound: stores ever opened
    MaxCandidates,  \* bound: candidates ever verified
    MaxTokens,      \* bound: compilations a computer asks for
    MaxCalls,       \* bound: calls the host makes
    FairThread      \* the thread the liveness property is about

ASSUME BridgeAssumption ==
    /\ None \notin Ids
    /\ MaxStores \in Nat /\ MaxStores + 1 < Width
    /\ MaxCandidates \in Nat /\ MaxCandidates + 1 < Width
    /\ MaxTokens \in Nat
    /\ \A n \in {MaxCells, MaxStores, MaxCandidates} :
          [slot : 0 .. n, generation : 0 .. n] \subseteq Handles

VARIABLES
    storeSlots, storeCells, storeCalls, storeIssued,   \* STORES
    candSlots, candCells, candCalls, candIssued,       \* DEPLOYMENT_CANDIDATES
    sessions,    \* per session object: BridgeSession
    stores,      \* per store object: its health
    candidates,  \* per candidate object: the session object it was verified for
    disk,        \* per identity: tombstone, and the saved checkpoint or None
    root,        \* the store object that holds the root's lock, 0 for none
    jobs,        \* the exported function each thread is in
    installs,    \* per candidate object: how often it was installed (history)
    made         \* calls made so far

sessionTable == tableVars
storeTable == <<storeSlots, storeCells, storeCalls, storeIssued>>
candTable == <<candSlots, candCells, candCalls, candIssued>>
contents == <<sessions, stores, candidates, disk, root, installs>>
bridgeVars == <<sessionTable, storeTable, candTable, contents, jobs, made>>

Stores == INSTANCE HandleTable WITH
    slots <- storeSlots, cells <- storeCells, calls <- storeCalls, issued <- storeIssued,
    MaxCells <- MaxStores

Candidates == INSTANCE HandleTable WITH
    slots <- candSlots, cells <- candCells, calls <- candCalls, issued <- candIssued,
    MaxCells <- MaxCandidates

NoJob == [op |-> "none"]

BridgeInit ==
    /\ TableInit
    /\ Stores!TableInit
    /\ Candidates!TableInit
    /\ sessions = <<>>
    /\ stores = <<>>
    /\ candidates = <<>>
    /\ disk = [i \in Ids |-> [tombstone |-> FALSE, checkpoint |-> None]]
    /\ root = 0
    /\ jobs = [t \in Threads |-> NoJob]
    /\ installs = <<>>
    /\ made = 0

--------------------------------------------------------------------------------
(* Returning and entering *)

Continue(t, job) == jobs' = [jobs EXCEPT ![t] = job]
Return(t) == Continue(t, NoJob)

\* A job that has just tried a table goes on, or returns if the table refused it
\* (handle_status).
Proceed(t, call, job) == IF call.pc = "idle" THEN Return(t) ELSE Continue(t, job)

\* sessions().with and stores().with, as far as the handle's cell.
EnterSession(t, h, job) ==
    /\ jobs[t] = NoJob
    /\ Resolve(t, "with", h)
    /\ Proceed(t, calls'[t], job)
    /\ UNCHANGED <<storeTable, candTable, contents>>

EnterStore(t, h, job) ==
    /\ jobs[t] = NoJob
    /\ Stores!Resolve(t, "with", h)
    /\ Proceed(t, storeCalls'[t], job)
    /\ UNCHANGED <<sessionTable, candTable, contents>>

\* The mutex of the outermost object a job works on.
LockSession(t) ==
    /\ TryLock(t)
    /\ Proceed(t, calls'[t], jobs[t])
    /\ UNCHANGED <<storeTable, candTable, contents>>

LockStore(t) ==
    /\ jobs[t].op # "save"
    /\ Stores!TryLock(t)
    /\ Proceed(t, storeCalls'[t], jobs[t])
    /\ UNCHANGED <<sessionTable, candTable, contents>>

LockCandidate(t) ==
    /\ jobs[t].op = "closeCandidate"
    /\ Candidates!TryLock(t)
    /\ Proceed(t, candCalls'[t], jobs[t])
    /\ UNCHANGED <<sessionTable, storeTable, contents>>

\* A panic inside the object a job works on; the handle of an outer object unwinds too.
PanicInSession(t) ==
    /\ jobs[t].op # "deployed"
    /\ storeCalls[t].pc # "lock" /\ candCalls[t].pc # "lock"
    /\ Panic(t)
    /\ IF storeCalls[t].pc = "inside" THEN Stores!Panic(t) ELSE UNCHANGED storeTable
    /\ IF candCalls[t].pc = "inside" THEN Candidates!Panic(t) ELSE UNCHANGED candTable
    /\ Return(t)
    /\ UNCHANGED contents

PanicInStore(t) ==
    /\ jobs[t].op # "save"
    /\ Stores!Panic(t)
    /\ Return(t)
    /\ UNCHANGED <<sessionTable, candTable, contents>>

--------------------------------------------------------------------------------
(* World stores *)

\* The store is active and the computer is not tombstoned.
Serves(s, id) == stores[s] = "active" /\ ~disk[id].tombstone

\* compukter_store_open and store_open: the root's lock admits one store at a time.
StoreOpen(t) ==
    /\ jobs[t] = NoJob
    /\ Len(storeCells) < MaxStores
    /\ root = 0
    /\ \E i \in 1 .. Len(storeSlots) + 1 : Stores!Insert(i)
    /\ stores' = Append(stores, "active")
    /\ root' = Len(stores) + 1
    /\ UNCHANGED <<sessionTable, candTable, sessions, candidates, disk, installs, jobs>>

\* compukter_store_health and compukter_store_durable_generation
StoreQuery(t, h) == EnterStore(t, h, [op |-> "query"])

\* compukter_store_flush, compukter_store_tombstone and compukter_store_recover
StoreCommand(t, h, id, tombstone) ==
    EnterStore(t, h, [op |-> "command", id |-> id, tombstone |-> tombstone])

\* store_health and store_durable_generation; store_flush changes as little here.
QueryStore(t) ==
    /\ jobs[t].op = "query"
    /\ Stores!Leave(t)
    /\ Return(t)
    /\ UNCHANGED <<sessionTable, candTable, contents>>

\* store_tombstone and store_recover, which may also fail in the worker.
CommandStore(t) ==
    /\ jobs[t].op = "command"
    /\ Stores!Leave(t)
    /\ \/ /\ stores[storeCalls[t].cell] = "active"
          /\ disk' = [disk EXCEPT ![jobs[t].id].tombstone = jobs[t].tombstone]
       \/ UNCHANGED disk
    /\ Return(t)
    /\ UNCHANGED <<sessionTable, candTable, sessions, stores, candidates, root, installs>>

\* compukter_store_close
StoreClose(t, h) == EnterStore(t, h, [op |-> "closeStore", handle |-> h])

\* store_close, first entry: the store drains, stops its worker and frees the lock, or
\* fails while it drains.
CloseStore(t) ==
    /\ jobs[t].op = "closeStore"
    /\ Stores!Leave(t)
    /\ \/ /\ stores' = [stores EXCEPT ![storeCalls[t].cell] = "closed"]
          /\ root' = IF root = storeCalls[t].cell THEN 0 ELSE root
          /\ Continue(t, [op |-> "forgetStore", handle |-> jobs[t].handle])
       \/ /\ stores[storeCalls[t].cell] # "closed"
          /\ stores' = [stores EXCEPT ![storeCalls[t].cell] = "draining"]
          /\ Return(t)
          /\ UNCHANGED root
    /\ UNCHANGED <<sessionTable, candTable, sessions, candidates, disk, installs>>

\* store_close, second entry: the handle.
ForgetStore(t) ==
    /\ jobs[t].op = "forgetStore"
    /\ \/ /\ Stores!Resolve(t, "close", jobs[t].handle)
          /\ Proceed(t, storeCalls'[t], jobs[t])
       \/ /\ Stores!Close(t)
          /\ Return(t)
    /\ UNCHANGED <<sessionTable, candTable, contents>>

--------------------------------------------------------------------------------
(* Sessions come into being *)

\* BridgeSession::new and in_store around a computer.
NewSession(computer, handle, id, home, host) ==
    [handle |-> handle, id |-> id, home |-> home, host |-> host,
     retained |-> computer.pending, computer |-> computer]

FreshComputer == [pending |-> 0, asked |-> 0, covered |-> FALSE]

Creating == {u \in Threads : jobs[u].op \in {"open", "limits", "insert", "restore"}}
RoomForSession == Len(cells) + Cardinality(Creating) < MaxCells

InsertSession(session) ==
    /\ \E i \in 1 .. Len(slots) + 1 : Insert(i)
    /\ sessions' = Append(sessions, session)

\* compukter_create and create, for a program that verifies, is admitted and starts.
Create(t) ==
    /\ jobs[t] = NoJob
    /\ RoomForSession
    /\ InsertSession(NewSession(FreshComputer, None, None, 0, FALSE))
    /\ UNCHANGED <<storeTable, candTable, stores, candidates, disk, root, installs, jobs>>

\* compukter_create_in_store, once the artifact has been verified.
CreateInStore(t, h, id) ==
    /\ RoomForSession
    /\ EnterStore(t, h, [op |-> "open", handle |-> h, id |-> id])

\* compukter_create_boot_in_store
CreateBootInStore(t, h, id) ==
    /\ RoomForSession
    /\ EnterStore(t, h, [op |-> "open", handle |-> h, id |-> id])

\* create_in_store and create_boot_in_store, first entry: the ROM is admitted, the
\* store opens the computer, and the computer starts; each of them may fail.
OpenInStore(t) ==
    /\ jobs[t].op = "open"
    /\ Stores!Leave(t)
    /\ \/ Return(t)
       \/ /\ Serves(storeCalls[t].cell, jobs[t].id)
          /\ Continue(t, [op |-> "limits", handle |-> jobs[t].handle,
                          session |-> NewSession(FreshComputer, jobs[t].handle, jobs[t].id,
                                                 storeCalls[t].cell, FALSE)])
    /\ UNCHANGED <<sessionTable, candTable, contents>>

\* create_in_store, second entry: the limits are read again, from whatever the handle
\* names by now; without them the computer is dropped.
LimitsOfStore(t) ==
    /\ jobs[t].op = "limits"
    /\ \/ /\ Stores!Resolve(t, "with", jobs[t].handle)
          /\ Proceed(t, storeCalls'[t], jobs[t])
       \/ /\ Stores!Leave(t)
          /\ Continue(t, [op |-> "insert", session |-> jobs[t].session])
    /\ UNCHANGED <<sessionTable, candTable, contents>>

\* The new session is given its handle.
PublishSession(t) ==
    /\ jobs[t].op = "insert"
    /\ InsertSession(jobs[t].session)
    /\ Return(t)
    /\ UNCHANGED <<storeTable, candTable, stores, candidates, disk, root, installs>>

\* compukter_close and close
CloseSession(t, h) ==
    /\ jobs[t] = NoJob
    /\ Resolve(t, "close", h)
    /\ Proceed(t, calls'[t], [op |-> "closeSession"])
    /\ UNCHANGED <<storeTable, candTable, contents>>

SessionClosed(t) ==
    /\ jobs[t].op = "closeSession"
    /\ Close(t)
    /\ Return(t)
    /\ UNCHANGED <<storeTable, candTable, contents>>

--------------------------------------------------------------------------------
(* Checkpoints *)

\* compukter_checkpoint_save
CheckpointSave(t, h, storeHandle, id) ==
    EnterSession(t, h, [op |-> "save", handle |-> storeHandle, id |-> id])

\* Mutant: only the computer's identity is compared.
OwnsIdentity(session, handle, id) == session.id = id

\* checkpoint_save: the session was created in this store, as this computer.
Owns(session, handle, id) == session.handle = handle /\ session.id = id

\* checkpoint_save inside the session: compare identities, encode the computer, and
\* enter the store; every failure leaves the session as it was.
SaveInSession(t) ==
    /\ jobs[t].op = "save"
    /\ Inside(t, "with")
    /\ storeCalls[t].pc = "idle"
    /\ \/ /\ Leave(t)
          /\ Return(t)
          /\ UNCHANGED storeTable
       \/ /\ Owns(sessions[calls[t].cell], jobs[t].handle, jobs[t].id)
          /\ Stores!Resolve(t, "with", jobs[t].handle)
          /\ Proceed(t, storeCalls'[t], jobs[t])
          /\ IF storeCalls'[t].pc = "idle" THEN Leave(t) ELSE UNCHANGED sessionTable
    /\ UNCHANGED <<candTable, contents>>

\* Mutant: the store is used without its mutex, since the session's is held.
SaveUnlocked(t) ==
    /\ jobs[t].op = "save"
    /\ storeCalls[t].pc = "lock"
    /\ storeCalls' = [storeCalls EXCEPT ![t].pc = "inside"]
    /\ UNCHANGED <<storeSlots, storeCells, storeIssued, sessionTable, candTable, contents, jobs>>

\* The store's mutex, tried while the session's is held.
SaveLockStore(t) ==
    /\ jobs[t].op = "save"
    /\ Stores!TryLock(t)
    /\ Proceed(t, storeCalls'[t], jobs[t])
    /\ IF storeCalls'[t].pc = "idle" THEN Leave(t) ELSE UNCHANGED sessionTable
    /\ UNCHANGED <<candTable, contents>>

\* save_execution_checkpoint inside the store: it flushes, compares generations and
\* replaces the file, or fails and keeps the old one.
SaveInStore(t) ==
    /\ jobs[t].op = "save"
    /\ Stores!Leave(t)
    /\ \/ /\ Serves(storeCalls[t].cell, jobs[t].id)
          /\ disk' = [disk EXCEPT ![jobs[t].id].checkpoint =
                 [by |-> calls[t].cell, into |-> storeCalls[t].cell,
                  computer |-> sessions[calls[t].cell].computer]]
       \/ UNCHANGED disk
    /\ Leave(t)
    /\ Return(t)
    /\ UNCHANGED <<candTable, sessions, stores, candidates, root, installs>>

\* compukter_checkpoint_restore
CheckpointRestore(t, h, id) ==
    /\ RoomForSession
    /\ EnterStore(t, h, [op |-> "restore", handle |-> h, id |-> id])

\* checkpoint_restore inside the store.  The saved file is read, not consumed; it may be
\* refused as incompatible or corrupt.
RestoreInStore(t) ==
    /\ jobs[t].op = "restore"
    /\ Stores!Leave(t)
    /\ \/ Return(t)
       \/ LET saved == disk[jobs[t].id].checkpoint
          IN  /\ Serves(storeCalls[t].cell, jobs[t].id)
              /\ saved # None
              /\ Continue(t, [op |-> "insert",
                     session |-> NewSession(saved.computer, jobs[t].handle, jobs[t].id,
                                            storeCalls[t].cell, TRUE)])
    /\ UNCHANGED <<sessionTable, candTable, contents>>

\* compukter_checkpoint_discard
CheckpointDiscard(t, h, id) == EnterStore(t, h, [op |-> "discard", id |-> id])

\* checkpoint_discard
DiscardInStore(t) ==
    /\ jobs[t].op = "discard"
    /\ Stores!Leave(t)
    /\ \/ /\ Serves(storeCalls[t].cell, jobs[t].id)
          /\ disk' = [disk EXCEPT ![jobs[t].id].checkpoint = None]
       \/ UNCHANGED disk
    /\ Return(t)
    /\ UNCHANGED <<sessionTable, candTable, sessions, stores, candidates, root, installs>>

--------------------------------------------------------------------------------
(* A session is used *)

SetSession(t, session) == sessions' = [sessions EXCEPT ![calls[t].cell] = session]

\* compukter_advance, whose output has been checked against the largest outcome.
Advance(t, h) == EnterSession(t, h, [op |-> "advance"])

\* compukter_advance_with_retirement_limit, likewise.
AdvanceWithRetirementLimit(t, h) == EnterSession(t, h, [op |-> "advance"])

\* ComputerMachine::advance, as far as the bridge tells its outcomes apart: a child
\* enters or leaves, the asking process ends, or a compilation is asked for.
ComputerAdvances(c, d) ==
    \/ d = c
    \/ c.pending # 0 /\ d = [c EXCEPT !.covered = ~@]
    \/ c.pending # 0 /\ d = [c EXCEPT !.pending = 0, !.covered = FALSE]
    \/ /\ c.pending = 0 /\ c.asked < MaxTokens
       /\ d = [c EXCEPT !.pending = c.asked + 1, !.asked = c.asked + 1]

Computers == [pending : 0 .. MaxTokens, asked : 0 .. MaxTokens, covered : BOOLEAN]

\* advance and advance_with_retirement_limit: the outcome is copied for the host, and
\* the request of a compilation is kept for it; an error changes nothing.
AdvanceSession(t) ==
    /\ jobs[t].op = "advance"
    /\ Leave(t)
    /\ LET s == sessions[calls[t].cell]
       IN  \/ UNCHANGED sessions
           \/ \E d \in Computers :
                /\ ComputerAdvances(s.computer, d)
                /\ SetSession(t, [s EXCEPT !.computer = d, !.host = FALSE,
                       !.retained = IF d.asked # s.computer.asked THEN d.pending ELSE @])
    /\ Return(t)
    /\ UNCHANGED <<storeTable, candTable, stores, candidates, disk, root, installs>>

\* compukter_compilation_request_size and compukter_compilation_request_copy
CompilationRequest(t, h, token) ==
    EnterSession(t, h, [op |-> "size", handle |-> h, token |-> token])

\* compilation_request_size and copy_compilation_request: the size is asked first, the
\* session is left and entered again for the copy.
CopyCompilationRequest(t) ==
    /\ \/ /\ jobs[t].op = "size"
          /\ Leave(t)
          /\ \/ Return(t)
             \/ /\ sessions[calls[t].cell].retained = jobs[t].token
                /\ Continue(t, [op |-> "copy", handle |-> jobs[t].handle])
       \/ /\ jobs[t].op = "copy"
          /\ Resolve(t, "with", jobs[t].handle)
          /\ Proceed(t, calls'[t], jobs[t])
       \/ /\ jobs[t].op = "copy"
          /\ Leave(t)
          /\ Return(t)
    /\ UNCHANGED <<storeTable, candTable, contents>>

\* compukter_compilation_complete
CompilationComplete(t, h, token) == EnterSession(t, h, [op |-> "complete", token |-> token])

\* take_compilation: the process that asked must be the one that runs.
TakesCompilation(c, token) == c.pending = token /\ ~c.covered

\* Mutant: the request is forgotten before the computer has taken the answer.
CompleteForgetting(t) ==
    /\ jobs[t].op = "complete"
    /\ Leave(t)
    /\ LET s == sessions[calls[t].cell]
           token == jobs[t].token
           taken == s.retained = token /\ TakesCompilation(s.computer, token)
       IN  SetSession(t, [s EXCEPT
               !.retained = IF @ = token THEN 0 ELSE @,
               !.computer.pending = IF taken THEN 0 ELSE @])
    /\ Return(t)
    /\ UNCHANGED <<storeTable, candTable, stores, candidates, disk, root, installs>>

\* complete_compilation_artifact and complete_compilation_failure: the request is
\* forgotten only once the computer has taken the answer.
CompleteCompilation(t) ==
    /\ jobs[t].op = "complete"
    /\ Leave(t)
    /\ LET s == sessions[calls[t].cell]
           token == jobs[t].token
       IN  IF s.retained = token /\ TakesCompilation(s.computer, token)
           THEN SetSession(t, [s EXCEPT !.retained = 0, !.computer.pending = 0])
           ELSE UNCHANGED sessions
    /\ Return(t)
    /\ UNCHANGED <<storeTable, candTable, stores, candidates, disk, root, installs>>

\* compukter_redstone_submit_input and compukter_redstone_confirm_output
Redstone(t, h) == EnterSession(t, h, [op |-> "use"])

\* compukter_resume_unit, _i32, _f32_bits and _bool: the host answers a call.
ResumeScalar(t, h) == EnterSession(t, h, [op |-> "use"])

\* compukter_resume_string, _value and _failure, whose payload has been copied or decoded.
ResumePayload(t, h) == EnterSession(t, h, [op |-> "use"])

\* compukter_submit_canonical_line
SubmitCanonicalLine(t, h) == EnterSession(t, h, [op |-> "use"])

\* compukter_terminal_key and compukter_terminal_text
TerminalInput(t, h) == EnterSession(t, h, [op |-> "use"])

\* compukter_terminal_commit, compukter_terminal_full_state and _changes_since
TerminalState(t, h) == EnterSession(t, h, [op |-> "use"])

\* compukter_filesystem_generation and compukter_resource_snapshot
SessionQuery(t, h) == EnterSession(t, h, [op |-> "use"])

\* compukter_checkpoint_host_size and compukter_checkpoint_host_copy
HostDescriptors(t, h) == EnterSession(t, h, [op |-> "use"])

\* compukter_filesystem_stat, compukter_filesystem_list and compukter_filesystem_read
FilesystemInspect(t, h) == EnterSession(t, h, [op |-> "use"])

\* compukter_executable_revision
ExecutableRevision(t, h) == EnterSession(t, h, [op |-> "use"])

\* The functions of the bridge that change nothing but what is abstract in the computer:
\* resume, submit_canonical_line, the terminal's and the inspection of files.
UseSession(t) ==
    /\ jobs[t].op = "use"
    /\ Leave(t)
    /\ Return(t)
    /\ UNCHANGED <<storeTable, candTable, contents>>

--------------------------------------------------------------------------------
(* Deployment *)

Verifying == {u \in Threads : jobs[u].op \in {"verify", "candidate"}}

\* compukter_verify_for_deploy
VerifyForDeploy(t, h) ==
    /\ Len(candCells) + Cardinality(Verifying) < MaxCandidates
    /\ EnterSession(t, h, [op |-> "verify"])

\* verify_for_deploy inside the session: the artifact is verified and admitted, or not.
VerifyInSession(t) ==
    /\ jobs[t].op = "verify"
    /\ Leave(t)
    /\ \/ Return(t)
       \/ Continue(t, [op |-> "candidate", machine |-> calls[t].cell])
    /\ UNCHANGED <<storeTable, candTable, contents>>

\* The candidate is given its handle after the session was left.
PublishCandidate(t) ==
    /\ jobs[t].op = "candidate"
    /\ \E i \in 1 .. Len(candSlots) + 1 : Candidates!Insert(i)
    /\ candidates' = Append(candidates, jobs[t].machine)
    /\ installs' = Append(installs, 0)
    /\ Return(t)
    /\ UNCHANGED <<sessionTable, storeTable, sessions, stores, disk, root>>

\* compukter_deployment_candidate_close and close_deployment_candidate
CloseCandidate(t, h) ==
    /\ jobs[t] = NoJob
    /\ Candidates!Resolve(t, "close", h)
    /\ Proceed(t, candCalls'[t], [op |-> "closeCandidate"])
    /\ UNCHANGED <<sessionTable, storeTable, contents>>

CandidateClosed(t) ==
    /\ jobs[t].op = "closeCandidate"
    /\ Candidates!Close(t)
    /\ Return(t)
    /\ UNCHANGED <<sessionTable, storeTable, contents>>

\* compukter_deploy
Deploy(t, h, candidate) == EnterSession(t, h, [op |-> "deploy", candidate |-> candidate])

\* deploy inside the session: the path is parsed and the candidate's handle resolved.
DeployResolve(t) ==
    /\ jobs[t].op = "deploy"
    /\ Inside(t, "with")
    /\ candCalls[t].pc = "idle"
    /\ \/ /\ Return(t)
          /\ Leave(t)
          /\ UNCHANGED candTable
       \/ /\ Candidates!Resolve(t, "consume", jobs[t].candidate)
          /\ Proceed(t, candCalls'[t], jobs[t])
          /\ IF candCalls'[t].pc = "idle" THEN Leave(t) ELSE UNCHANGED sessionTable
    /\ UNCHANGED <<storeTable, contents>>

\* The candidate's mutex, tried while the session's is held; consume_if takes it out.
DeployLock(t) ==
    /\ jobs[t].op = "deploy"
    /\ Candidates!TryLock(t)
    /\ Proceed(t, candCalls'[t], jobs[t])
    /\ IF candCalls'[t].pc = "idle" THEN Leave(t) ELSE UNCHANGED sessionTable
    /\ UNCHANGED <<storeTable, contents>>

\* ComputerMachine::deploy: the candidate is for this machine, whose profile never
\* changes, and the file is at the expected revision; otherwise it is given back.
DeployInstall(t) ==
    /\ jobs[t].op = "deploy"
    /\ Candidates!Inside(t, "consume")
    /\ \/ /\ candidates[candCalls[t].cell] = calls[t].cell
          /\ installs' = [installs EXCEPT ![candCalls[t].cell] = @ + 1]
          /\ Continue(t, [op |-> "deployed"])
          /\ UNCHANGED <<sessionTable, candTable>>
       \/ /\ Candidates!GiveBack(t)
          /\ Leave(t)
          /\ Return(t)
          /\ UNCHANGED installs
    /\ UNCHANGED <<storeTable, sessions, stores, candidates, disk, root>>

\* The end of consume_if: the slot of the candidate is emptied.
DeployEnd(t) ==
    /\ jobs[t].op = "deployed"
    /\ Candidates!Consumed(t)
    /\ Leave(t)
    /\ Return(t)
    /\ UNCHANGED <<storeTable, contents>>

--------------------------------------------------------------------------------
(* The host *)

NullHandle == [slot |-> 0, generation |-> 0]
SessionHandles == DOMAIN issued \cup {NullHandle}
StoreHandles == DOMAIN storeIssued \cup {NullHandle}
CandidateHandles == DOMAIN candIssued \cup {NullHandle}

\* A thread of the host calls an exported function.
CallStore(t) ==
    \/ StoreOpen(t)
    \/ \E h \in StoreHandles :
         \/ StoreQuery(t, h)
         \/ StoreClose(t, h)
         \/ \E id \in Ids :
              \/ \E tombstone \in BOOLEAN : StoreCommand(t, h, id, tombstone)
              \/ CreateInStore(t, h, id)
              \/ CreateBootInStore(t, h, id)
              \/ CheckpointRestore(t, h, id)
              \/ CheckpointDiscard(t, h, id)

CallSession(t) ==
    \/ Create(t)
    \/ \E h \in SessionHandles :
         \/ CloseSession(t, h)
         \/ \E s \in StoreHandles, id \in Ids : CheckpointSave(t, h, s, id)
         \/ Advance(t, h)
         \/ AdvanceWithRetirementLimit(t, h)
         \/ \E token \in 1 .. MaxTokens :
              \/ CompilationRequest(t, h, token)
              \/ CompilationComplete(t, h, token)
         \/ Redstone(t, h)
         \/ ResumeScalar(t, h)
         \/ ResumePayload(t, h)
         \/ SubmitCanonicalLine(t, h)
         \/ TerminalInput(t, h)
         \/ TerminalState(t, h)
         \/ SessionQuery(t, h)
         \/ HostDescriptors(t, h)
         \/ FilesystemInspect(t, h)
         \/ ExecutableRevision(t, h)
         \/ VerifyForDeploy(t, h)
         \/ \E c \in CandidateHandles : Deploy(t, h, c)

CallCandidate(t) == \E h \in CandidateHandles : CloseCandidate(t, h)

\* A thread goes on with the function it is in.
Work(t) ==
    \/ LockSession(t) \/ LockStore(t) \/ LockCandidate(t)
    \/ QueryStore(t) \/ CommandStore(t) \/ CloseStore(t) \/ ForgetStore(t)
    \/ OpenInStore(t) \/ LimitsOfStore(t) \/ PublishSession(t) \/ SessionClosed(t)
    \/ SaveInSession(t) \/ SaveLockStore(t) \/ SaveInStore(t)
    \/ RestoreInStore(t) \/ DiscardInStore(t)
    \/ AdvanceSession(t) \/ CopyCompilationRequest(t) \/ CompleteCompilation(t)
    \/ UseSession(t)
    \/ VerifyInSession(t) \/ PublishCandidate(t) \/ CandidateClosed(t)
    \/ DeployResolve(t) \/ DeployLock(t) \/ DeployInstall(t) \/ DeployEnd(t)
    \/ PanicInSession(t) \/ PanicInStore(t)

Call(t) ==
    /\ made < MaxCalls
    /\ made' = made + 1
    /\ CallStore(t) \/ CallSession(t) \/ CallCandidate(t)

\* The host makes no more calls and has every answer.
Finished ==
    /\ made = MaxCalls
    /\ \A t \in Threads : jobs[t] = NoJob
    /\ UNCHANGED bridgeVars

BridgeNext ==
    \/ \E t \in Threads : Call(t) \/ (Work(t) /\ UNCHANGED made)
    \/ Finished

\* Only one thread is known to keep running: the others may be stopped anywhere.
BridgeSpec == BridgeInit /\ [][BridgeNext]_bridgeVars /\ WF_bridgeVars(Work(FairThread) /\ UNCHANGED made)

--------------------------------------------------------------------------------
(* What the foreign interface promises *)

\* The bridge's own entries in the state: a type invariant.
BridgeTypeOK ==
    /\ Len(sessions) = Len(cells) /\ Len(stores) = Len(storeCells)
    /\ Len(candidates) = Len(candCells) /\ Len(installs) = Len(candCells)
    /\ \A t \in Threads : jobs[t] = NoJob =>
           calls[t].pc = "idle" /\ storeCalls[t].pc = "idle" /\ candCalls[t].pc = "idle"

\* A verified candidate is installed at most once, however many threads deploy or close
\* it, and the deployment that installed it empties its slot (deploy, consume_if).
DeployedOnce ==
    /\ \A c \in 1 .. Len(installs) : installs[c] <= 1
    /\ Candidates!ClearIsCertain

\* The checkpoint of a computer was written by a session of that computer, through the
\* very store the session was created in, whatever stores were closed and opened and
\* their slots reused meanwhile (checkpoint_save).
CheckpointFromOwner ==
    \A id \in Ids : disk[id].checkpoint # None =>
        LET saved == disk[id].checkpoint
        IN  sessions[saved.by].home = saved.into /\ sessions[saved.by].id = id

\* A compilation the computer waits for can be read and answered by the host: the
\* bridge keeps its request until the computer has taken the answer, also across a
\* checkpoint (advance, complete_compilation_*, BridgeSession::new).
CompilationAnswerable ==
    \A i \in 1 .. Len(sessions) :
        sessions[i].computer.pending # 0 => sessions[i].retained = sessions[i].computer.pending

\* Whatever the exported functions do, nested and repeated entries and panics included,
\* each of the three tables sees nothing but steps of a table; so what is proved of
\* HandleTable holds for the sessions, the stores and the candidates.
TablesBehave == TableSpec /\ Stores!TableSpec /\ Candidates!TableSpec

\* A call returns although every other thread may have stopped inside an object: no
\* function waits for a mutex another call holds (try_lock in with, close, consume_if).
CallsReturn == jobs[FairThread] # NoJob ~> jobs[FairThread] = NoJob
================================================================================
