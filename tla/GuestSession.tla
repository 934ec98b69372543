---------------------------- MODULE GuestSession ----------------------------
(***************************************************************************)
(* A session: the tasks of GuestTasks composed with the host boundary      *)
(* (execution/session.rs, execution/requests.rs) and with the parts of the *)
(* machine that move frames between tasks and materialise host responses   *)
(* (execution/machine.rs).                                                 *)
(*                                                                         *)
(* advance() is cut into steps: its prologue takes one queued reply at a   *)
(* time, then one bounded slice of one kind runs. Budgets are arbitrary,   *)
(* so a slice of the Guest may end after any instruction. The host answers *)
(* a published request between two calls of advance().                     *)
(*                                                                         *)
(* Frames are values: frames is the task whose frames are loaded, saved[t] *)
(* the task whose frames lie in the save area of slot t, and at[f] the     *)
(* capability call the frames of task f stand at.                          *)
(***************************************************************************)
EXTENDS GuestTasks

CONSTANTS
  Calls,        \* the capability operations the Guest calls
  Answers,      \* the kinds of response the host gives
  GuestDoes,    \* what else the Guest does: "throw", "trap", "uncaught"
  Collects,     \* the work that may find the heap full and start a collection
  RecordParts,  \* allocations a record response needs
  MaxRequests,  \* maximum_host_requests
  MaxCalls      \* bound: requests the Guest publishes

\* text: an argument is a String, a Char range or a ByteArray that is not empty;
\* result: the type of the response.
Results == {"scalar", "string", "bytes", "record"}
NoCall == [text |-> FALSE, result |-> "none"]

ASSUME CallsAssumption == Calls \subseteq [text : BOOLEAN, result : Results]
ASSUME LimitsAssumption ==
  MaxRequests \in Nat /\ MaxCalls \in Nat /\ RecordParts \in Nat \ {0}

VARIABLES
  phase,      \* "idle" between calls of advance(), "advance", "run"
  frames,     \* Machine.frames
  saved,      \* Machine.task_frames
  at,         \* the capability call instruction a task's frames stand at
  request,    \* the request a slot in state "host" waits for
  pending,    \* PendingRequestTable.requests
  replies,    \* Session.replies
  preparing,  \* Session.preparing_request
  reading,    \* Machine.task_host_response, with what is materialised
  failing,    \* slots with an entry in Machine.task_host_failures
  failed,     \* slots with an entry in Machine.task_failures
  raise,      \* Machine.pending_raise: the task whose failure it carries
  exc,        \* Machine.pending_exception: the task that threw it
  gc,         \* what the active collection was started for
  ended,      \* Session.terminal
  nextId,     \* Session.next_request_id
  passing,    \* this pass of the run loop is past its pending_raise test
  issued      \* requests published for the call a task's frames stand at

hostVars == <<pending, replies, preparing, reading, nextId, request>>
frameVars == <<frames, saved, at, issued>>
failVars == <<failing, failed, raise, exc>>
sessionVars == <<phase, frames, saved, at, request, pending, replies, preparing,
                 reading, failing, failed, raise, exc, gc, ended, nextId,
                 passing, issued>>
vars == <<taskVars, sessionVars>>

SessionInit ==
  /\ TasksInit
  /\ phase = "idle"
  /\ frames = None
  /\ saved = [t \in Tasks |-> None]
  /\ at = [t \in Tasks |-> NoCall]
  /\ request = [t \in Tasks |-> 0]
  /\ pending = {}
  /\ replies = <<>>
  /\ preparing = {}
  /\ reading = {}
  /\ failing = {}
  /\ failed = {}
  /\ raise = None
  /\ exc = None
  /\ gc = "none"
  /\ ended = "no"
  /\ nextId = 1
  /\ passing = FALSE
  /\ issued = [t \in Tasks |-> 0]

Live == life = "runnable" /\ ended = "no"

\* At most one entry: Some(x) is {x}.
Only(s) == CHOOSE x \in s : TRUE

Start ==
  /\ StartRoot
  /\ frames' = ROOT
  /\ UNCHANGED <<phase, saved, at, hostVars, failVars, gc, ended, passing, issued>>

(***************************************************************************)
(* Moving frames.                                                          *)
(***************************************************************************)

\* activate_next_task after the scheduler has chosen: sv are the save areas,
\* fl the slots with a host failure, rs and ex the pending raise and exception
\* as the step leaves them. A task with a host failure starts to raise it.
Activated(sv, fl, rs, ex) ==
  LET raising == active' # None /\ active' \in fl
      clash == raising /\ (rs # None \/ ex # None)
  IN /\ frames' = IF active' = None THEN None ELSE sv[active']
     /\ saved' = IF active' = None THEN sv ELSE [sv EXCEPT ![active'] = None]
     /\ failing' = IF raising THEN fl \ {active'} ELSE fl
     /\ raise' = IF raising /\ ~clash THEN active' ELSE rs
     /\ exc' = ex
     /\ ended' = IF clash THEN "faulted" ELSE ended

SavedSelf == [saved EXCEPT ![active] = frames]

\* complete_capability on the frames of f: they move past their call.
PastCall(f) ==
  /\ at' = [at EXCEPT ![f] = NoCall]
  /\ issued' = [issued EXCEPT ![f] = 0]

WaitsFor(t, id) == state[t] = "host" /\ request[t] = id

\* complete_capability writes a response of this type into frames f.
Takes(f, result) == f # None /\ at[f].result = result

\* complete_task_capability succeeds: the frames saved for task t take the response
\* and the task waits for it.
Delivers(t, id, result) == Takes(saved[t], result) /\ WaitsFor(t, id)

\* complete_task_capability: the response is written into the frames saved for task
\* t; the active task's frames are put aside meanwhile.
Deliver(t) ==
  /\ PastCall(saved[t])
  /\ CompleteHost(t)
  /\ IF active = None
       THEN Activated(saved, failing, raise, exc)
       ELSE UNCHANGED <<frames, saved, failing, raise, exc, ended>>

\* The caller makes an error of complete_task_capability the end of the session.
DeliverOrFault(t, id, result) ==
  IF Delivers(t, id, result)
    THEN Deliver(t)
    ELSE /\ ended' = "faulted"
         /\ UNCHANGED <<taskVars, frameVars, failing, raise, exc>>

\* begin_task_host_response, begin_task_byte_array_response and
\* begin_task_record_response: the waiting task's frames are loaded while its
\* response is materialised slice by slice. Only one response at a time, and a
\* reference also refuses to start while a collection for string work is pending.
StringWork == gc \in {"concat", "raise", "reference", "record"}

\* The response being materialised: its type, the task that was active when it
\* began, and the allocations it still needs.
Response(t, id, result) ==
  [task |-> t, id |-> id, back |-> active, result |-> result,
   left |-> IF result = "record" THEN RecordParts ELSE 1, tried |-> FALSE]

\* Mutant: the active task's frames are not put aside.
BeginReadingOver(t, id, result) ==
  /\ frames' = saved[t]
  /\ saved' = [saved EXCEPT ![t] = None]
  /\ reading' = {Response(t, id, result)}
  /\ UNCHANGED ended

BeginReading(t, id, result) ==
  IF \/ reading # {}
     \/ result # "record" /\ StringWork
     \/ saved[t] = None
     \/ at[saved[t]] = NoCall
     \/ result = "record" /\ at[saved[t]].result # "record"
    THEN /\ ended' = "faulted"
         /\ UNCHANGED <<frames, saved, reading>>
    ELSE /\ frames' = saved[t]
         /\ saved' = [u \in Tasks |-> IF u = t THEN None
                                      ELSE IF u = active THEN frames ELSE saved[u]]
         /\ reading' = {Response(t, id, result)}
         /\ UNCHANGED ended

\* complete_host alone: the task becomes ready, and nothing is activated.
HostDone(t) ==
  /\ life = "runnable"
  /\ state[t] = "host"
  /\ Checked(Len(ready) < Capacity)
  /\ state' = [state EXCEPT ![t] = "ready"]
  /\ ready' = Append(ready, t)
  /\ UNCHANGED <<on, active, chanVars>>

\* The slice that publishes the value writes it into the loaded frames, whosever
\* they are, or the machine faults. finish_task_host_response then gives them to
\* the task that waited. Whose frames come back, and whether a task is activated,
\* depends on the task that was active when the response began.
FinishReading ==
  LET r == Only(reading)
      sv == [u \in Tasks |-> IF u = r.task THEN frames
                             ELSE IF u = r.back THEN None ELSE saved[u]]
  IN \/ /\ ~Takes(frames, r.result)
        /\ Fault
        /\ UNCHANGED <<frameVars, failing, raise, exc, ended, reading>>
     \/ /\ Takes(frames, r.result)
        /\ reading' = {}
        /\ PastCall(frames)
        /\ IF WaitsFor(r.task, r.id)
             THEN \/ /\ r.back = None
                     /\ CompleteHost(r.task)
                     /\ Activated(sv, failing, raise, exc)
                  \/ /\ r.back # None
                     /\ HostDone(r.task)
                     /\ frames' = saved[r.back]
                     /\ saved' = sv
                     /\ UNCHANGED <<failing, raise, exc, ended>>
             ELSE /\ ended' = "faulted"
                  /\ UNCHANGED <<taskVars, frames, saved, failing, raise, exc>>

(***************************************************************************)
(* The host's answers: resume_for.                                         *)
(***************************************************************************)

\* The type of a response.
Carries(v) == IF v \in {"text", "empty"} THEN "string" ELSE v

\* The responses the operation's schema accepts.
Accepted(call) ==
  {v \in Answers : Carries(v) = call.result \/ v \in {"failure", "cancelled"}}

\* Nothing is queued before this response and none is being materialised.
Direct == replies = <<>> /\ reading = {}

ResumeCancelled(p) ==
  /\ ended' = "failed"
  /\ UNCHANGED <<taskVars, frameVars, failVars, replies, reading>>

\* A scalar the frames do not take is refused with WrongResponseType and the
\* request stays pending: no step. An empty String ends the session instead.
ResumeDirect(p, v) ==
  /\ Direct
  /\ UNCHANGED <<replies, failed>>
  /\ \/ /\ v = "scalar"
        /\ Delivers(p.task, p.id, "scalar")
        /\ Deliver(p.task)
        /\ UNCHANGED reading
     \/ /\ v = "empty"
        /\ DeliverOrFault(p.task, p.id, "string")
        /\ UNCHANGED reading
     \/ /\ v = "text"
        /\ BeginReading(p.task, p.id, "string")
        /\ UNCHANGED <<taskVars, at, issued, failing, raise, exc>>

ResumeQueued(p, v) ==
  /\ ~(Direct /\ v \in {"scalar", "empty", "text"})
  /\ Len(replies) < MaxRequests
  /\ replies' = Append(replies, [task |-> p.task, id |-> p.id, value |-> v])
  /\ UNCHANGED <<taskVars, frameVars, failVars, reading, ended>>

\* Mutant: the accepted request stays in the table.
ResumeKeepingRequest(p, v) ==
  /\ phase = "idle"
  /\ Live
  /\ v \in Accepted(p.call)
  /\ ResumeQueued(p, v)
  /\ UNCHANGED <<pending, phase, preparing, nextId, request, gc, passing>>

Resume(p, v) ==
  /\ phase = "idle"
  /\ Live
  /\ v \in Accepted(p.call)
  /\ \/ v = "cancelled" /\ ResumeCancelled(p)
     \/ v # "cancelled" /\ (ResumeDirect(p, v) \/ ResumeQueued(p, v))
  /\ pending' = pending \ {p}
  /\ UNCHANGED <<phase, preparing, nextId, request, gc, passing>>

(***************************************************************************)
(* advance(): queued replies first, then one slice.                        *)
(***************************************************************************)

Advance ==
  /\ phase = "idle"
  /\ Live
  /\ phase' = "advance"
  /\ UNCHANGED <<taskVars, frameVars, hostVars, failVars, gc, ended, passing>>

\* A slice, and with it the call of advance(), may end at any point.
EndSlice ==
  /\ phase # "idle"
  /\ phase = "advance" => replies = <<>> \/ reading # {}
  /\ phase' = "idle"
  /\ passing' = FALSE
  /\ UNCHANGED <<taskVars, frameVars, hostVars, failVars, gc, ended>>

\* The call of advance() returns once its step has met an end.
Going(where) == IF life' = "runnable" /\ ended' = "no" THEN where ELSE "idle"

\* Mutant: the failure is raised as soon as it arrives.
FailAtOnce(t, id) ==
  /\ CompleteHost(t)
  /\ raise' = t
  /\ IF active = None
       THEN frames' = t /\ saved' = [saved EXCEPT ![t] = None]
       ELSE UNCHANGED <<frames, saved>>
  /\ UNCHANGED <<at, issued, failing, exc, ended>>

\* complete_task_host_failure: the failure is kept for the task, which raises
\* it when its frames are loaded again.
Fail(t, id) ==
  /\ UNCHANGED <<at, issued>>
  /\ IF WaitsFor(t, id) /\ t \notin failing
       THEN /\ CompleteHost(t)
            /\ IF active = None
                 THEN Activated(saved, failing \cup {t}, raise, exc)
                 ELSE /\ failing' = failing \cup {t}
                      /\ UNCHANGED <<frames, saved, raise, exc, ended>>
       ELSE /\ ended' = "faulted"
            /\ UNCHANGED <<taskVars, frames, saved, failing, raise, exc>>

TakeReply ==
  /\ phase = "advance"
  /\ reading = {}
  /\ replies # <<>>
  /\ replies' = Tail(replies)
  /\ LET r == Head(replies) IN
       \/ /\ r.value \in {"scalar", "empty"}
          /\ DeliverOrFault(r.task, r.id, Carries(r.value))
          /\ UNCHANGED reading
       \/ /\ r.value = "failure"
          /\ Fail(r.task, r.id)
          /\ UNCHANGED reading
       \/ /\ r.value \in {"text", "bytes", "record"}
          /\ BeginReading(r.task, r.id, Carries(r.value))
          /\ UNCHANGED <<taskVars, at, issued, failing, raise, exc>>
  /\ phase' = Going("advance")
  /\ UNCHANGED <<pending, preparing, nextId, request, failed, gc, passing>>

\* Mutant: arguments are copied before a record is materialised.
SlicePreparesFirst(which) ==
  /\ phase = "advance"
  /\ replies = <<>> \/ reading # {}
  /\ which = IF preparing # {} THEN "prepare" ELSE IF reading # {} THEN "read" ELSE "run"

\* Mutant: an active task runs before an accepted response is materialised.
SliceRunsFirst(which) ==
  /\ phase = "advance"
  /\ replies = <<>> \/ reading # {}
  /\ which = IF active # None THEN "run" ELSE IF reading # {} THEN "read" ELSE "prepare"

\* The slice advance() chooses.
Slice(which) ==
  /\ phase = "advance"
  /\ replies = <<>> \/ reading # {}
  /\ which = IF \E r \in reading : r.result = "record" THEN "read"
             ELSE IF preparing # {} THEN "prepare"
             ELSE IF reading # {} THEN "read"
             ELSE "run"

\* What a collection is started for by a response.
Work(r) == IF r.result = "record" THEN "record" ELSE "reference"

\* run_maintenance. The collection's work is told that it was tried; a pending
\* allocation retries at once and may still find no room.
CollectorDone ==
  /\ gc # "none"
  /\ gc' = "none"
  /\ phase' = "idle"
  /\ reading' = IF gc \in {"reference", "record"}
                  THEN {[r EXCEPT !.tried = TRUE] : r \in reading} ELSE reading
  /\ \/ UNCHANGED taskVars
     \/ gc = "alloc" /\ Fault
  /\ UNCHANGED <<frameVars, failVars, pending, replies, preparing, nextId, request,
                 ended, passing>>

\* run_record_slice and run_capability_reference_slice.
ReadSlice ==
  /\ Slice("read")
  /\ \/ CollectorDone
     \/ /\ gc = "none"
        /\ \E r \in reading :
             \/ /\ r.left > 1
                /\ reading' = {[r EXCEPT !.left = @ - 1, !.tried = FALSE]}
                /\ UNCHANGED <<taskVars, frameVars, failing, raise, exc, ended, gc>>
             \/ /\ r.left = 1
                /\ FinishReading
                /\ UNCHANGED gc
             \/ /\ Work(r) \in Collects
                /\ ~r.tried
                /\ gc' = Work(r)
                /\ UNCHANGED <<taskVars, frameVars, failing, raise, exc, ended, reading>>
             \/ /\ r.tried
                /\ Fault
                /\ UNCHANGED <<frameVars, failing, raise, exc, ended, reading, gc>>
        /\ phase' = "idle"
        /\ UNCHANGED <<failed, pending, replies, preparing, nextId, request, passing>>

\* Mutant: the next task's frames replace the suspended task's.
PublishWithoutSaving(id, t, call) ==
  /\ nextId' = id + 1
  /\ Cardinality(pending) < MaxRequests
  /\ pending' = pending \cup {[task |-> t, id |-> id, call |-> call]}
  /\ request' = [request EXCEPT ![active] = id]
  /\ issued' = [issued EXCEPT ![active] = @ + 1]
  /\ HostCall
  /\ Activated(saved, failing, raise, exc)

\* publish_prepared_request, then suspend_capability_task: whatever frames are
\* loaded are saved for the active task.
Publish(id, t, call) ==
  /\ nextId' = id + 1
  /\ IF Cardinality(pending) >= MaxRequests
       THEN /\ ended' = "quota"
            /\ UNCHANGED <<taskVars, frames, saved, issued, failing, raise, exc,
                           pending, request>>
       ELSE /\ pending' = pending \cup {[task |-> t, id |-> id, call |-> call]}
            /\ request' = [request EXCEPT ![active] = id]
            /\ issued' = [issued EXCEPT ![active] = @ + 1]
            /\ HostCall
            /\ Activated(SavedSelf, failing, raise, exc)

\* The slice that copies the last argument. The arguments are read through the
\* call at which the loaded frames stand, whosever they are.
PrepareLast ==
  /\ frames # None
  /\ at[frames].text
  /\ \E p \in preparing : Publish(p.id, p.task, p.call)
  /\ preparing' = {}
  /\ UNCHANGED <<at, replies, reading, failed, gc, passing>>

\* Other frames than those that made the call have no argument in its place, or a
\* shorter one: advance() returns NotRunnable and the request stays half copied.
PrepareRefused ==
  /\ \A p \in preparing : frames # p.task
  /\ UNCHANGED <<taskVars, frameVars, hostVars, failVars, gc, ended, passing>>

\* advance_request_preparation.
PrepareSlice ==
  /\ Slice("prepare")
  /\ PrepareLast \/ PrepareRefused
  /\ phase' = "idle"

(***************************************************************************)
(* run_slice: the Guest runs.                                              *)
(***************************************************************************)

\* With no active task, advance() hands out the pending requests instead.
StartRun ==
  /\ Slice("run")
  /\ active # None
  /\ phase' = "run"
  /\ UNCHANGED <<taskVars, frameVars, hostVars, failVars, gc, ended, passing>>

RunCollector ==
  /\ phase = "run"
  /\ CollectorDone

\* resume_runtime_exception: the exception object is built, then thrown.
RunRaise ==
  /\ phase = "run"
  /\ gc = "none"
  /\ raise # None
  /\ ~passing
  /\ \/ /\ raise' = None
        /\ exc' = raise
        /\ UNCHANGED <<phase, gc>>
     \/ /\ "raise" \in Collects
        /\ gc' = "raise"
        /\ phase' = "idle"
        /\ UNCHANGED <<raise, exc>>
  /\ UNCHANGED <<taskVars, frameVars, hostVars, failing, failed, ended, passing>>

\* resume_exception: a handler takes the exception.
Catch ==
  /\ exc' = None
  /\ PastCall(frames)
  /\ UNCHANGED <<taskVars, phase, frames, saved, failing, failed, raise, ended,
                 pending, passing>>

\* resume_exception: it leaves the root's last frame.
UncaughtRoot ==
  /\ RootEnds
  /\ pending' = {}
  /\ phase' = "idle"
  /\ UNCHANGED <<frameVars, failVars, ended, passing>>

\* resume_exception: it leaves a child's last frame. The pass goes on with the
\* next task without testing pending_raise again.
UncaughtChild ==
  /\ "uncaught" \in GuestDoes
  /\ CompleteCurrent
  /\ failed' = failed \cup {active}
  /\ PastCall(frames)
  /\ Activated(saved, failing, raise, None)
  /\ passing' = (raise' # None)
  /\ phase' = IF active' = None THEN "idle" ELSE Going("run")
  /\ UNCHANGED pending

RunException ==
  /\ phase = "run"
  /\ gc = "none"
  /\ exc # None
  /\ Catch \/ UncaughtRoot \/ UncaughtChild
  /\ UNCHANGED <<replies, preparing, reading, nextId, request, gc>>

\* The run loop reaches the next instruction of the loaded frames.
Executes ==
  /\ phase = "run"
  /\ gc = "none"
  /\ exc = None
  /\ raise # None => passing
  /\ frames # None

\* The instruction is not a capability call.
Plain == Executes /\ at[frames] = NoCall

\* What a step that ends in another task, or in the end of the program, does.
Switched(sv) ==
  /\ Activated(sv, failing, raise, exc)
  /\ phase' = IF active' = None THEN "idle" ELSE Going("run")
  /\ passing' = FALSE
  /\ UNCHANGED <<at, issued, failed, gc, replies, preparing, reading, nextId, request>>

Loops ==
  /\ passing' = FALSE
  /\ UNCHANGED <<at, issued, failed, gc, hostVars>>

RunSpawn ==
  /\ Plain
  /\ Spawn
  /\ saved' = [t \in Tasks |-> IF state[t] = "vacant" /\ state'[t] = "ready" THEN t
                               ELSE saved[t]]
  /\ UNCHANGED <<frames, failing, raise, exc, ended>>
  /\ phase' = Going("run")
  /\ Loops

RunJoin(target) ==
  /\ Plain
  /\ Join(target)
  /\ IF life' = "runnable"
       THEN Switched(SavedSelf)
       ELSE /\ phase' = "idle"
            /\ Loops
            /\ UNCHANGED <<frames, saved, failing, raise, exc, ended>>
  /\ UNCHANGED pending

\* Joining a task that failed throws its failure again.
RunJoinFailed(target) ==
  /\ Plain
  /\ state[target] = "completed"
  /\ target \in failed
  /\ exc' = active
  /\ Loops
  /\ UNCHANGED <<taskVars, phase, frames, saved, failing, raise, ended>>

RunReturn ==
  /\ Plain
  /\ \/ CompleteCurrent /\ Switched(saved) /\ UNCHANGED pending
     \/ /\ RootEnds
        /\ pending' = {}
        /\ phase' = "idle"
        /\ UNCHANGED <<frameVars, failVars, gc, ended, passing, replies, preparing,
                       reading, nextId, request>>

RunThrow ==
  /\ Plain
  /\ \/ /\ "throw" \in GuestDoes
        /\ exc' = active
        /\ UNCHANGED <<phase, raise>>
     \/ /\ "trap" \in GuestDoes
        /\ raise' = active
        /\ phase' = "idle"
        /\ UNCHANGED exc
  /\ Loops
  /\ UNCHANGED <<taskVars, frames, saved, failing, ended>>

\* An allocation or a concatenation finds the heap full.
RunCollects ==
  /\ Plain
  /\ \E work \in {"alloc", "concat"} \cap Collects : gc' = work
  /\ phase' = "idle"
  /\ passing' = FALSE
  /\ UNCHANGED <<taskVars, frameVars, hostVars, failVars, ended>>

\* Any other fault, or an allocation that finds no room even after a collection.
RunFault ==
  /\ phase = "run"
  /\ gc = "none"
  /\ Fault
  /\ phase' = "idle"
  /\ UNCHANGED <<frameVars, hostVars, failVars, gc, ended, passing>>

\* A capability call: begin_request. Text arguments are copied in slices of
\* their own; other calls are published at once and the slice goes on. Frames
\* that already stand at a call execute it again.
RunCall(call) ==
  /\ Executes
  /\ nextId <= MaxCalls
  /\ at[frames] \in {NoCall, call}
  /\ at' = [at EXCEPT ![frames] = call]
  /\ IF call.text
       THEN /\ preparing' = {[task |-> active, id |-> nextId, call |-> call]}
            /\ phase' = "idle"
            /\ UNCHANGED <<taskVars, frames, saved, issued, failing, raise, exc,
                           pending, request, nextId, ended>>
       ELSE /\ Publish(nextId, active, call)
            /\ phase' = IF active' = None THEN "idle" ELSE "run"
            /\ UNCHANGED preparing
  /\ passing' = FALSE
  /\ UNCHANGED <<replies, reading, failed, gc>>

GuestRuns ==
  \/ RunCollector \/ RunRaise \/ RunException \/ RunSpawn \/ RunReturn
  \/ RunThrow \/ RunCollects \/ RunFault
  \/ \E t \in Tasks : RunJoin(t) \/ RunJoinFailed(t)
  \/ \E call \in Calls : RunCall(call)

SessionNext ==
  \/ Start \/ Advance \/ EndSlice \/ TakeReply \/ ReadSlice \/ PrepareSlice
  \/ StartRun \/ GuestRuns
  \/ \E p \in pending, v \in Answers : Resume(p, v)

SessionSpec == SessionInit /\ [][SessionNext]_vars

\* The host keeps calling advance() and now and then grants a budget that lets
\* the slice at hand finish its work; the Guest's budget is finite.
FairSession ==
  /\ SessionSpec
  /\ WF_vars(Advance) /\ WF_vars(TakeReply) /\ WF_vars(EndSlice) /\ WF_vars(StartRun)
  /\ SF_vars(ReadSlice) /\ SF_vars(PrepareSlice) /\ SF_vars(RunCollector)

(***************************************************************************)
(* Properties.                                                             *)
(***************************************************************************)

Ids == 1 .. MaxCalls

\* The state of the session has the shape its types promise.
SessionTypeOK ==
  /\ phase \in {"idle", "advance", "run"}
  /\ frames \in Tasks \cup {None}
  /\ saved \in [Tasks -> Tasks \cup {None}]
  /\ at \in [Tasks -> Calls \cup {NoCall}]
  /\ request \in [Tasks -> Ids \cup {0}]
  /\ pending \subseteq [task : Tasks, id : Ids, call : Calls]
  /\ Cardinality(pending) <= MaxRequests
  /\ replies \in Seq([task : Tasks, id : Ids, value : Answers])
  /\ Len(replies) <= MaxRequests
  /\ preparing \subseteq [task : Tasks, id : Ids, call : Calls]
  /\ Cardinality(preparing) <= 1
  /\ reading \subseteq [task : Tasks, id : Ids, back : Tasks \cup {None},
                        result : {"string", "bytes", "record"}, left : 1 .. RecordParts,
                        tried : BOOLEAN]
  /\ Cardinality(reading) <= 1
  /\ failing \subseteq Tasks
  /\ failed \subseteq Tasks
  /\ raise \in Tasks \cup {None}
  /\ exc \in Tasks \cup {None}
  /\ gc \in {"none", "alloc", "concat", "raise", "reference", "record"}
  /\ ended \in {"no", "failed", "faulted", "quota"}
  /\ nextId \in 1 .. MaxCalls + 1
  /\ passing \in BOOLEAN
  /\ issued \in [Tasks -> 0 .. MaxCalls]

\* The task whose frames must be loaded, and those whose frames must be saved.
Loaded == IF reading = {} THEN active ELSE Only(reading).task
Unloaded == {t \in Tasks : t # Loaded /\ state[t] \notin {"vacant", "completed"}}

\* save_task and restore_task never lose or exchange frames: the loaded frames
\* are those of the active task, or of the task whose response is being
\* materialised, and every other task's frames lie in its own save area.
FramesInPlace ==
  Live => /\ frames = Loaded
          /\ saved = [t \in Tasks |-> IF t \in Unloaded THEN t ELSE None]

\* An exception is raised in the frames of the task it happened to: a host
\* failure at the call that failed, a trap or throw in the task that made it.  So
\* one execution of a capability call publishes one request, even if it fails.
RaisedWhereItHappened ==
  /\ Live => /\ raise \in {None, active}
             /\ exc \in {None, active}
  /\ \A t \in Tasks : issued[t] <= 1

\* The places that hold the answer, or the promise of one, to task t.
Owed(t) ==
  {p \in pending : p.task = t}
    \cup {replies[i] : i \in {j \in DOMAIN replies : replies[j].task = t}}
    \cup {r \in reading : r.task = t}

\* The session never faults on its own account.
NoSpuriousFault == ended # "faulted" /\ life # "corrupt"

\* The session never faults on its own account (finish_pending, materialize_failure),
\* and a task that waits for the host is owed exactly one response, for the request
\* it waits for, and a task that does not wait is owed none: a response is accepted
\* exactly once and never lost between resume_for and the task.
RequestsAccounted ==
  /\ NoSpuriousFault
  /\ Live => \A t \in Tasks :
               /\ Cardinality(Owed(t)) = IF state[t] = "host" THEN 1 ELSE 0
               /\ \A o \in Owed(t) : o.id = request[t]

(***************************************************************************)
(* What restore() demands of a checkpoint's host boundary.                  *)
(***************************************************************************)

\* checkpoint_host_operation: the call at which the frames saved for a waiting
\* task stand.
HostOperation(t) == IF saved[t] = None THEN NoCall ELSE at[saved[t]]

\* PendingRequestTable::validate_checkpoint, and the loop of
\* Session::read_checkpoint_state over the pending requests.
PendingAccepted ==
  /\ Cardinality(pending) <= MaxRequests
  /\ \A p, q \in pending : p.task = q.task /\ p.id = q.id => p = q
  /\ \A p \in pending :
       /\ p.id < nextId
       /\ WaitsFor(p.task, p.id)
       /\ HostOperation(p.task) = p.call

\* The loop over the replies that were accepted and not yet delivered.
RepliesAccepted ==
  /\ Len(replies) <= MaxRequests
  /\ \A i \in DOMAIN replies :
       LET r == replies[i] IN
       /\ r.id < nextId
       /\ WaitsFor(r.task, r.id)
       /\ HostOperation(r.task) # NoCall
       /\ r.value \in Accepted(HostOperation(r.task))
       /\ \A j \in DOMAIN replies :
            replies[j].task = r.task /\ replies[j].id = r.id => i = j
       /\ ~\E p \in pending : p.task = r.task /\ p.id = r.id

\* The request whose arguments are being copied is that of the loaded frames.
PreparingAccepted ==
  \A p \in preparing :
    /\ p.id = nextId
    /\ p.task = active
    /\ frames # None
    /\ at[frames] = p.call

\* Machine::validate_checkpoint_storage: who owns the loaded frames, and whose
\* save area may hold frames.
FramesAccepted ==
  /\ \A r \in reading : r.back = active /\ WaitsFor(r.task, r.id)
  /\ frames # None <=> (reading # {} \/ active # None)
  /\ \A t \in Tasks :
       CASE state[t] = "running" -> saved[t] # None <=> reading # {}
         [] state[t] \in {"vacant", "completed"} -> saved[t] = None
         [] OTHER -> saved[t] = None <=> \E r \in reading : r.task = t

\* A session can be checkpointed between any two calls of advance(): what it
\* then holds, requests, accepted replies, half-copied arguments or a response
\* half materialised, is accepted by Session::read_checkpoint_state.
SessionRestorable ==
  /\ SessionTypeOK
  /\ (Live /\ phase = "idle") =>
       /\ PendingAccepted /\ RepliesAccepted /\ FramesAccepted
       /\ reading = {} => PreparingAccepted

\* The arguments of a request are copied from the frames that made the call, over
\* as many slices as it takes and whatever responses are materialised in between:
\* advance() never turns to the copy while another task's frames are loaded
\* (session.rs: advance, advance_request_preparation).
ArgumentsOfOwnCall ==
  (Live /\ Slice("prepare")) =>
    \A p \in preparing : frames = p.task /\ active = p.task /\ at[frames] = p.call

\* A response that was accepted reaches the task that waits for it.
HasReply(t) ==
  \/ \E i \in DOMAIN replies : replies[i].task = t
  \/ \E r \in reading : r.task = t
AcceptedIsDelivered ==
  \A t \in Tasks : HasReply(t) ~> (state[t] # "host" \/ ~Live)

=============================================================================
