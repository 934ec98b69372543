------------------------------ MODULE Computer ------------------------------
(***************************************************************************)
(* ComputerMachine (computer.rs): a stack of process frames, each a guest  *)
(* session whose tasks suspend in host requests; the machine serves the    *)
(* requests of the top frame one per advance, parks the ones that wait     *)
(* for the keyboard, a redstone level or the compiler, and publishes the   *)
(* others to the host under ids of its own.  The host types, changes       *)
(* redstone levels, answers calls, completes compilations and presses      *)
(* Ctrl+C between any two advances.                                        *)
(*                                                                         *)
(* A session is seen through its pending requests: what its tasks ask for  *)
(* next, and whether it ends, is its own choice within its program.  File  *)
(* operations are in FileTransfers, the screen is not modelled; here both  *)
(* are calls answered at once.  An advance that returns an error leaves    *)
(* the request where it is.  A request id, an external id or a compilation *)
(* token, never used twice by the code, is the least one nobody holds.     *)
(***************************************************************************)
EXTENDS Devices

CONSTANTS
    Tasks,         \* task ids of a session
    Programs,      \* what each executable's tasks may ask for, and what it may run
    Roots,         \* programs a computer may boot with
    Shell,         \* the executable /rom/shell
    Addons,        \* addon_bindings
    Texts,         \* texts the host may type
    MaxQueue,      \* TerminalInputLimits.maximum_events
    MaxDepth,      \* ProcessLimits.maximum_depth
    MaxStarts,     \* ProcessLimits.maximum_starts
    HeapBytes,     \* profile.heap_bytes
    MaxHeap,       \* ProcessLimits.maximum_aggregate_heap_bytes
    MaxCounter,    \* u64::MAX of the execution counters
    HostBudget,    \* host_request_budget of an advance
    MaxRequests,   \* profile.maximum_host_requests
    MaxTasks,      \* profile.maximum_coroutines
    MaxJobs        \* bound: compilations the host has at hand

ASSUME ComputerBounds ==
    /\ MaxDepth \in Nat \ {0} /\ MaxStarts \in Nat \ {0} /\ HeapBytes <= MaxHeap
    /\ HostBudget \in Nat /\ \A root \in Roots : root \in DOMAIN Programs

VARIABLES
    sessions,    \* the process frames, root first
    streams,     \* StandardStreams
    queue,       \* TerminalDevice's input queue
    active,      \* active_terminal_event with its owner, at most one
    redstone,    \* RedstoneDevice
    compilation, \* pending_compilation, at most one
    termination, \* pending_termination, at most one scope
    routes,      \* external_requests
    counters,    \* process_starts, reservations, retired execution
    halted,      \* the root process has ended
    ghost        \* units ever executed; compilations the host has at hand; whether an
                 \* answer missed its request

vars == <<sessions, streams, queue, active, redstone, compilation, termination, routes,
          counters, halted, ghost>>

Frame(scope, exe) ==
    [scope |-> scope, exe |-> exe, reqs |-> << >>, event |-> {}, read |-> {},
     process |-> {}, diagnostics |-> {}, units |-> 0]

Unused(ids) == Min(1..(Cardinality(ids) + 1) \ ids)
AddCounter(c, n) == Min({c + n, MaxCounter})

Key(r) == <<r.task, r.id>>
Top(fs) == Last(fs)
WithTop(fs, f) == Append(Front(fs), f)
Has(f, key) == \E i \in DOMAIN f.reqs : Key(f.reqs[i]) = key
RequestOf(f, key) == CHOOSE r \in Range(f.reqs) : Key(r) = key

\* Session::resume_for: the answer is accepted and the request taken.
Answered(f, key) == [f EXCEPT !.reqs = SelectSeq(@, LAMBDA r : Key(r) # key)]
Reply(fs, r) == WithTop(fs, Answered(Top(fs), Key(r)))

Idle(f) == {t \in Tasks : \A i \in DOMAIN f.reqs : f.reqs[i].task # t}
Waits == {"waitChange", "waitLevel"}
Raw == {"await", "awaitLine", "event", "finish"}
Internal(r) == r.op \notin {"external", "addon"}

\* admit_session: the capabilities a computer binds, and the programs it takes.  A file
\* operation and the other calls answered at once stand under the standard streams.
CapabilityOf(op) ==
    CASE op \in Raw -> "terminal"
      [] op \in Waits -> "redstone"
      [] op \in {"readLine", "call"} -> "stdio"
      [] op \in {"run", "takeDiagnostic", "exit"} -> "process"
      [] op = "compile" -> "compiler"
      [] op = "external" -> "timer"
      [] op = "addon" -> "addon"
Bound == {"terminal", "redstone", "stdio", "process", "compiler", "timer"} \cup Addons
Admitted(exe) ==
    \A t \in Tasks : \A op \in Programs[exe].ops[t] : CapabilityOf(op) \in Bound

---------------------------------------------------------------------------
(* The guest. *)

\* Programs hold the terminal protocol: the event accessors and finish only while an event
\* is theirs, no second wait before finish.
Disciplined(fs, t, op) ==
    LET mine == \E e \in active : e.frame = Len(fs) /\ e.task = t
    IN  IF op \in {"event", "finish"} THEN mine
        ELSE op \in {"await", "awaitLine"} => ~mine

Held(f) == {r.id : r \in Range(f.reqs)} \cup {x.key[2] : x \in {y \in routes : y.scope = f.scope}}
Requests(fs) ==
    UNION {{[task |-> t, id |-> Unused(Held(Top(fs))), op |-> op] :
                op \in {o \in Programs[Top(fs).exe].ops[t] : Disciplined(fs, t, o)}} :
           t \in IF Len(Top(fs).reqs) < MaxTasks THEN Idle(Top(fs)) ELSE {}}

\* A slice of the guest: its tasks compute, and any of them may suspend in a request.
Runs(slices) ==
    slices \cup UNION {
        {WithTop(fs, [Top(fs) EXCEPT !.reqs = Append(@, r)]) : r \in Requests(fs)} : fs \in slices}
GuestRuns == Runs(Runs({sessions}))
\* Units the guest may execute in a slice; the bound is two past the counters' own limit.
Work(f) == IF Programs[f.exe].works /\ Idle(f) # {} /\ ghost.executed < MaxCounter + 2
           THEN {0, 1} ELSE {0}
Worked(fs, n) == WithTop(fs, [Top(fs) EXCEPT !.units = @ + n])

---------------------------------------------------------------------------
(* Ending a process.  `in` is the keyboard as this advance finds it, after it has fed a     *)
(* pending line read: the streams and the queue.                                          *)

Keep(in) == streams' = in.streams /\ queue' = in.queue

ParentResumed(fs, failed) ==
    LET below == Top(Front(fs))
        key == CHOOSE k \in below.process : TRUE
    IN  WithTop(Front(fs), [Answered(below, key) EXCEPT
            !.process = {},
            !.diagnostics = IF failed THEN @ \cup {key[1]} ELSE @])
Retired(c, units) ==
    [c EXCEPT !.heap = @ - HeapBytes,
              !.retired = AddCounter(@, units),
              !.saturated = @ \/ c.retired + units > MaxCounter]

\* Mutant: the keyboard stays with the frame that ended.
FinishChildKeepingInput(fs, in, failed) ==
    /\ sessions' = ParentResumed(fs, failed)
    /\ routes' = {r \in routes : r.scope # Top(fs).scope}
    /\ counters' = Retired(counters, Top(fs).units)
    /\ Keep(in)
    /\ UNCHANGED <<active, redstone, halted>>
\* Mutant: what the child executed is forgotten with it.
FinishChildUncounted(fs, in, failed) ==
    /\ sessions' = ParentResumed(fs, failed)
    /\ routes' = {r \in routes : r.scope # Top(fs).scope}
    /\ counters' = Retired(counters, 0)
    /\ active' = {e \in active : e.frame # Len(fs)}
    /\ Keep([in EXCEPT !.streams = Cancel(@, Len(fs))])
    /\ UNCHANGED <<redstone, halted>>

\* finish_child: the frame goes with its routes, reservations and claim on the keyboard;
\* its parent's run request is answered.
FinishChild(fs, in, failed) ==
    /\ sessions' = ParentResumed(fs, failed)
    /\ routes' = {r \in routes : r.scope # Top(fs).scope}
    /\ counters' = Retired(counters, Top(fs).units)
    /\ active' = {e \in active : e.frame # Len(fs)}
    /\ Keep([in EXCEPT !.streams = Cancel(@, Len(fs))])
    /\ UNCHANGED <<redstone, halted>>

\* The session of the top frame ends: main returns, traps, faults, exhausts a quota.
End(fs, in, failed) ==
    IF Len(fs) > 1 THEN FinishChild(fs, in, failed) /\ UNCHANGED compilation
    ELSE /\ halted' = TRUE
         /\ sessions' = fs
         /\ Keep(in)
         /\ UNCHANGED <<active, redstone, compilation, routes, counters>>

---------------------------------------------------------------------------
(* Serving one request of the top frame. *)

Parked(f, r) ==
    \/ r.op \in Raw /\ Key(r) \in f.event
    \/ r.op = "readLine" /\ Key(r) \in f.read
    \/ r.op = "compile" /\ compilation # {}
    \/ r.op \in Waits /\ IsWaiting(redstone, r.task, r.id)

\* Terminal output, file operations, redstone levels, diagnostics: answered at once.
AnswerNow(fs, in, r) ==
    /\ sessions' = IF r.op = "takeDiagnostic"
                   THEN WithTop(fs, [Answered(Top(fs), Key(r)) EXCEPT !.diagnostics = @ \ {r.task}])
                   ELSE Reply(fs, r)
    /\ Keep(in)
    /\ UNCHANGED <<active, redstone, compilation, routes, counters>>

ReadLine(fs, in, r) ==
    LET o == InputOwner("canonical", Len(fs), r.task)
        p == Polled(Acquire(in.streams, o), in.queue)
    IN  /\ IF CanAcquire(in.streams, o)
           THEN /\ Keep(p)
                /\ sessions' = IF p.done THEN Reply(fs, r)
                               ELSE WithTop(fs, [Top(fs) EXCEPT !.read = {Key(r)}])
           ELSE Keep(in) /\ sessions' = Reply(fs, r)
        /\ UNCHANGED <<active, redstone, compilation, routes, counters>>

\* terminal_await_event_for: an event is taken, or the task is parked as the raw reader.
AwaitPossible(in, depth, task) ==
    active = {} /\ CanAcquire(in.streams, InputOwner("raw", depth, task))
RawReader(in, depth, task) ==
    [in EXCEPT !.streams = Acquire(@, InputOwner("raw", depth, task))]
Delivered(in, depth, task) ==
    /\ Keep([RawReader(in, depth, task) EXCEPT !.queue = Tail(@)])
    /\ active' = {[frame |-> depth, task |-> task]}

AwaitEvent(fs, in, r) ==
    /\ IF ~AwaitPossible(in, Len(fs), r.task)
       THEN sessions' = fs /\ Keep(in) /\ UNCHANGED active
       ELSE IF in.queue = << >>
       THEN /\ sessions' = WithTop(fs, [Top(fs) EXCEPT !.event = {Key(r)}])
            /\ Keep(RawReader(in, Len(fs), r.task))
            /\ UNCHANGED active
       ELSE Delivered(in, Len(fs), r.task) /\ sessions' = Reply(fs, r)
    /\ UNCHANGED <<redstone, compilation, routes, counters>>

FinishEvent(fs, in, r) ==
    /\ IF active = {[frame |-> Len(fs), task |-> r.task]}
       THEN /\ active' = {}
            /\ Keep([in EXCEPT !.streams = Release(@)])
            /\ sessions' = Reply(fs, r)
       ELSE sessions' = fs /\ Keep(in) /\ UNCHANGED active
    /\ UNCHANGED <<redstone, compilation, routes, counters>>

\* resume_process_failure: a status, and a diagnostic kept for the task that asked.
RunFails(fs, r) ==
    WithTop(fs, [Answered(Top(fs), Key(r)) EXCEPT !.diagnostics = @ \cup {r.task}])

\* handle_process_request: bad arguments, a bad path, an unreadable or invalid executable are
\* a choice; the limits on depth, starts and reservations and the admission are checked.
CanRun(fs) ==
    Len(fs) < MaxDepth /\ counters.starts < MaxStarts /\ counters.heap + HeapBytes <= MaxHeap
Run(fs, in, r) ==
    /\ \/ sessions' = RunFails(fs, r) /\ UNCHANGED counters
       \/ \E exe \in Programs[Top(fs).exe].runs :
            /\ CanRun(fs) /\ Admitted(exe)
            /\ sessions' = Append(WithTop(fs, [Top(fs) EXCEPT !.process = {Key(r)}]),
                                  Frame(counters.starts, exe))
            /\ counters' = [counters EXCEPT !.starts = @ + 1, !.heap = @ + HeapBytes]
    /\ Keep(in)
    /\ UNCHANGED <<active, redstone, compilation, routes>>

\* handle_compiler_request: rejected at once, or handed to the host.
Compile(fs, in, r) ==
    /\ \/ sessions' = Reply(fs, r) /\ UNCHANGED compilation
       \/ /\ compilation' = {[token |-> Unused(ghost.jobs), key |-> Key(r), depth |-> Len(fs)]}
          /\ ghost.jobs = {} \/ Unused(ghost.jobs) <= MaxJobs
          /\ sessions' = fs
    /\ Keep(in)
    /\ UNCHANGED <<active, redstone, routes, counters>>

\* handle_redstone_request, for the waits.
Wait(fs, in, r) ==
    \E side \in Sides, signal \in Levels, kind \in {"exact", "atLeast", "atMost"} :
        LET p == [kind |-> IF r.op = "waitChange" THEN "changed" ELSE kind, signal |-> signal]
            w == Waiter(r.task, r.id, side, p)
        IN  /\ IF ReadyAtOnce(redstone, w) THEN sessions' = Reply(fs, r) /\ UNCHANGED redstone
               ELSE /\ sessions' = fs
                    /\ redstone' = IF CanRegister(redstone, w) THEN Registered(redstone, w)
                                   ELSE redstone
            /\ Keep(in)
            /\ UNCHANGED <<active, compilation, routes, counters>>

Handle(fs, in, r) ==
    \/ r.op = "exit" /\ \E failed \in BOOLEAN : End(fs, in, failed)
    \/ /\ \/ r.op \in {"call", "event", "takeDiagnostic"} /\ AnswerNow(fs, in, r)
          \/ r.op = "readLine" /\ ReadLine(fs, in, r)
          \/ r.op \in {"await", "awaitLine"} /\ AwaitEvent(fs, in, r)
          \/ r.op = "finish" /\ FinishEvent(fs, in, r)
          \/ r.op = "run" /\ Run(fs, in, r)
          \/ r.op = "compile" /\ Compile(fs, in, r)
          \/ r.op \in Waits /\ Wait(fs, in, r)
       /\ UNCHANGED halted

---------------------------------------------------------------------------
(* One advance. *)

Unparked(f) == SelectSeq(f.reqs, LAMBDA r : ~Parked(f, r))
Armable(f) == SelectSeq(Unparked(f), LAMBDA r : r.op = "waitChange")
Calls(f) == SelectSeq(Unparked(f), Internal)

Exposed(f, r) == \E x \in routes : x.scope = f.scope /\ x.key = Key(r)
\* The external calls the host's allowance covers, exposed ones included.
Allowed(f) ==
    LET all == SelectSeq(f.reqs, LAMBDA r : ~Internal(r))
    IN  SubSeq(all, 1, Min({HostBudget, Len(all)}))
Fresh(f) == SelectSeq(Allowed(f), LAMBDA r : ~Exposed(f, r))

\* route_external_request, for each fresh call in turn while there is room.
Room == MaxRequests * MaxDepth - Cardinality(routes)
Routed(known, f, r) ==
    known \cup {[scope |-> f.scope, key |-> Key(r), external |-> Unused({x.external : x \in known})]}
Publish(fs, in) ==
    /\ routes' = FoldLeft(LAMBDA known, r : Routed(known, Top(fs), r), routes,
                         SubSeq(Fresh(Top(fs)), 1, Min({Len(Fresh(Top(fs))), Room})))
    /\ sessions' = fs
    /\ Keep(in)
    /\ UNCHANGED <<active, redstone, compilation, counters, halted>>

\* The batch of advance_with_retirement_limit: a wait for a change is armed before anything
\* else, fresh external calls are published before an internal one is served.
Serve(fs, in) ==
    LET f == Top(fs) IN
    IF Armable(f) # << >> THEN Handle(fs, in, Head(Armable(f)))
    ELSE IF Fresh(f) # << >> \/ Calls(f) = << >> THEN Publish(fs, in)
    ELSE Handle(fs, in, Head(Calls(f)))

Terminating == \E f \in Range(sessions) : f.scope \in termination
Input == [streams |-> streams, queue |-> queue]
Fed == IF Top(sessions).read = {} THEN Input
       ELSE [streams |-> Polled(streams, queue).streams, queue |-> Polled(streams, queue).queue]
LineDone == Top(sessions).read # {} /\ Polled(streams, queue).done
EventDue == Top(sessions).event # {} /\ queue # << >>

\* Mutant: a frame that waits for input is not terminated.
TerminateUnlessReading ==
    /\ Terminating
    /\ Top(sessions).event = {} /\ Top(sessions).read = {}
    /\ FinishChild(sessions, Input, FALSE)
    /\ compilation' = {}
    /\ termination' = {}
    /\ UNCHANGED ghost

\* Ctrl+C is served before anything else, one frame per advance.
Terminate ==
    /\ Terminating
    /\ LET p == CHOOSE i \in DOMAIN sessions : sessions[i].scope \in termination
       IN  /\ compilation' = {c \in compilation : c.depth < p}
           /\ termination' = IF Len(sessions) = p THEN {} ELSE termination
    /\ FinishChild(sessions, Input, FALSE)
    /\ UNCHANGED ghost

\* A line the pending read has been waiting for is complete.
CompleteLine ==
    /\ ~Terminating /\ LineDone
    /\ Keep(Fed)
    /\ \E key \in Top(sessions).read :
          sessions' = WithTop(sessions, [Answered(Top(sessions), key) EXCEPT !.read = {}])
    /\ termination' = {}
    /\ UNCHANGED <<active, redstone, compilation, routes, counters, halted, ghost>>

\* An event has come for the task that waits for one.
DeliverEvent ==
    /\ ~Terminating /\ ~LineDone /\ EventDue
    /\ \E key \in Top(sessions).event :
          /\ AwaitPossible(Fed, Len(sessions), key[1])
          /\ Delivered(Fed, Len(sessions), key[1])
          /\ sessions' = WithTop(sessions, [Answered(Top(sessions), key) EXCEPT !.event = {}])
    /\ termination' = {}
    /\ UNCHANGED <<redstone, compilation, routes, counters, halted, ghost>>

\* Otherwise the top session runs, and one thing it asks for is done.
RunSession ==
    /\ ~Terminating /\ ~LineDone /\ ~EventDue
    /\ \E n \in Work(Top(sessions)) :
          /\ \/ \E fs \in GuestRuns : Serve(Worked(fs, n), Fed)
             \/ /\ Programs[Top(sessions).exe].ends /\ Idle(Top(sessions)) # {}
                /\ \E failed \in BOOLEAN : End(Worked(sessions, n), Fed, failed)
          /\ ghost' = [ghost EXCEPT !.executed = @ + n,
                                   !.jobs = @ \cup {c.token : c \in compilation'}]
    /\ termination' = {}

Advance == ~halted /\ (Terminate \/ CompleteLine \/ DeliverEvent \/ RunSession)

---------------------------------------------------------------------------
(* The host. *)

Events == {[kind |-> "text", text |-> t] : t \in Texts}
              \cup {[kind |-> k] : k \in {"enter", "backspace", "other"}}

\* push_text, push_key: the queue is bounded.
Type(e) ==
    /\ ~halted /\ Programs[sessions[1].exe].typed
    /\ Len(queue) < MaxQueue
    /\ queue' = Append(queue, e)
    /\ UNCHANGED <<sessions, streams, active, redstone, compilation, termination, routes,
                   counters, halted, ghost>>

\* submit_terminal_key with Ctrl+C: the frame above the last shell is to end, and what was
\* typed for it is dropped.  With no such frame the key is the guest's.
Killed == LET shells == {i \in DOMAIN sessions : i > 1 /\ sessions[i].exe = Shell}
          IN  IF shells = {} THEN 2 ELSE Max(shells) + 1
CtrlC ==
    /\ ~halted /\ termination = {}
    /\ Killed \in DOMAIN sessions
    /\ termination' = {sessions[Killed].scope}
    /\ queue' = << >>
    /\ UNCHANGED <<sessions, streams, active, redstone, compilation, routes, counters, halted, ghost>>

\* submit_canonical_line: a whole line for the pending read, or as the raw reader's event.
SubmitLine(text) ==
    LET f == Top(sessions) IN
    /\ ~halted /\ Programs[sessions[1].exe].typed
    /\ queue = << >> /\ active = {} /\ Units(text) <= MaxLine
    /\ \/ \E key \in f.event :
             /\ RequestOf(f, key).op = "awaitLine"
             /\ streams.owner = {InputOwner("raw", Len(sessions), key[1])}
             /\ active' = {[frame |-> Len(sessions), task |-> key[1]]}
             /\ sessions' = WithTop(sessions, [Answered(f, key) EXCEPT !.event = {}])
             /\ UNCHANGED streams
       \/ /\ f.event = {}
          /\ \E key \in f.read :
                /\ streams.owner = {InputOwner("canonical", Len(sessions), key[1])}
                /\ streams.editing = << >>
                /\ streams' = Release(streams)
                /\ sessions' = WithTop(sessions, [Answered(f, key) EXCEPT !.read = {}])
                /\ UNCHANGED active
    /\ UNCHANGED <<queue, redstone, compilation, termination, routes, counters, halted, ghost>>

\* submit_redstone_input answers the woken waits in the active session.
RedstoneInput(levels) ==
    LET changed == {s \in Sides : levels[s] # redstone.levels[s]}
        woken == Woken(redstone, changed, levels)
        f == Top(sessions)
        hit == {w \in woken : Has(f, Key(w)) /\ RequestOf(f, Key(w)).op \in Waits}
    IN  /\ ~halted /\ Programs[sessions[1].exe].wired
        /\ changed # {}
        /\ redstone' = Submitted(redstone, changed, levels)
        /\ sessions' = WithTop(sessions, [f EXCEPT !.reqs =
               SelectSeq(@, LAMBDA r : \A w \in hit : Key(w) # Key(r))])
        /\ ghost' = [ghost EXCEPT !.missed = @ \/ hit # woken]
        /\ UNCHANGED <<streams, queue, active, compilation, termination, routes, counters, halted>>

\* resume_host_request_for: the answer goes to the frame the route names.
HostAnswer(x) ==
    /\ ~halted
    /\ routes' = routes \ {x}
    /\ sessions' = [i \in DOMAIN sessions |->
          IF sessions[i].scope = x.scope THEN Answered(sessions[i], x.key) ELSE sessions[i]]
    /\ ghost' = [ghost EXCEPT !.missed =
          @ \/ ~\E i \in DOMAIN sessions : sessions[i].scope = x.scope /\ Has(sessions[i], x.key)]
    /\ UNCHANGED <<streams, queue, active, redstone, compilation, termination, counters, halted>>

\* Mutant: a completion is accepted whatever process is running.
TakeAnyCompilation(token) == {c \in compilation : c.token = token}

\* take_compilation: the job asked for last, and only while the frame that asked is active.
TakeCompilation(token) == {c \in compilation : c.token = token /\ c.depth = Len(sessions)}

\* complete_compilation_success and _failure; the host may be late, the frame long gone.
CompleteCompilation(token) ==
    /\ ~halted
    /\ IF TakeCompilation(token) = {}
       THEN ghost' = [ghost EXCEPT !.jobs = @ \ ({token} \ {c.token : c \in compilation})]
            /\ UNCHANGED <<compilation, sessions>>
       ELSE \E c \in TakeCompilation(token) :
            /\ compilation' = {}
            /\ sessions' = WithTop(sessions, Answered(Top(sessions), c.key))
            /\ ghost' = [ghost EXCEPT
                  !.jobs = @ \ {token},
                  !.missed = @ \/ ~(/\ Has(Top(sessions), c.key)
                                   /\ RequestOf(Top(sessions), c.key).op = "compile")]
    /\ UNCHANGED <<streams, queue, active, redstone, termination, routes, counters, halted>>

---------------------------------------------------------------------------
Init ==
    /\ \E root \in Roots : Admitted(root) /\ sessions = <<Frame(0, root)>>
    /\ streams = NoStreams /\ queue = << >> /\ active = {} /\ redstone = NoRedstone
    /\ compilation = {} /\ termination = {} /\ routes = {}
    /\ counters = [starts |-> 1, heap |-> HeapBytes, retired |-> 0, saturated |-> FALSE]
    /\ halted = FALSE
    /\ ghost = [executed |-> 0, jobs |-> {}, missed |-> FALSE]

Answer == \E x \in routes : HostAnswer(x)

Host ==
    \/ \E e \in Events : Type(e)
    \/ CtrlC
    \/ \E text \in Texts : SubmitLine(text)
    \/ \E levels \in [Sides -> Levels] : RedstoneInput(levels)
    \/ Answer
    \/ \E token \in ghost.jobs : CompleteCompilation(token)

Next == Advance \/ Host

\* The host's actor advances a computer that is not halted again and again.
Spec == Init /\ [][Next]_vars /\ WF_vars(Advance)

\* A host that also answers the calls it is shown.
AnsweringSpec == Spec /\ WF_vars(Answer)

---------------------------------------------------------------------------
(* What restore demands of a machine (checkpoint/computer.rs). *)

OwnerAccepted ==
    /\ \A e \in active : streams.owner = {InputOwner("raw", e.frame, e.task)}
    /\ \A o \in streams.owner :
        /\ o.frame \in DOMAIN sessions
        /\ IF o.mode = "canonical" THEN \E key \in sessions[o.frame].read : key[1] = o.task
           ELSE \/ \E key \in sessions[o.frame].event : key[1] = o.task
                \/ active = {[frame |-> o.frame, task |-> o.task]}

WaitersAccepted ==
    \A w \in Range(redstone.waiters) : \E f \in Range(sessions) :
        Has(f, Key(w)) /\ RequestOf(f, Key(w)).op \in Waits

FrameAccepted(i) ==
    LET f == sessions[i] IN
    /\ f.scope < counters.starts
    /\ Cardinality(f.diagnostics) <= MaxTasks
    /\ \A key \in f.read : /\ streams.owner = {InputOwner("canonical", i, key[1])}
                           /\ Has(f, key) /\ RequestOf(f, key).op = "readLine"
    /\ \A key \in f.event : /\ streams.owner = {InputOwner("raw", i, key[1])}
                            /\ Has(f, key) /\ RequestOf(f, key).op \in {"await", "awaitLine"}
    /\ \A key \in f.process : Has(f, key)

RoutesAccepted ==
    /\ Cardinality(routes) <= MaxRequests * MaxDepth
    /\ \A x \in routes : \E f \in Range(sessions) : f.scope = x.scope /\ Has(f, x.key)
    /\ \A x, y \in routes :
        (x.external = y.external \/ (x.scope = y.scope /\ x.key = y.key)) => x = y

CompilationAccepted ==
    \A c \in compilation :
        /\ c.depth \in DOMAIN sessions
        /\ Has(sessions[c.depth], c.key) /\ RequestOf(sessions[c.depth], c.key).op = "compile"

\* validate_checkpoint_state, with the streams' and the redstone device's own checks.
Accepted ==
    /\ Len(sessions) \in 1..MaxDepth
    /\ counters.starts <= MaxStarts
    /\ counters.heap = Len(sessions) * HeapBytes /\ counters.heap <= MaxHeap
    /\ \A i, j \in DOMAIN sessions : sessions[i].scope = sessions[j].scope => i = j
    /\ \A s \in termination : \E f \in Range(sessions) : f.scope = s
    /\ StreamsAccepted(streams) /\ RedstoneAccepted(redstone)
    /\ OwnerAccepted /\ WaitersAccepted /\ RoutesAccepted /\ CompilationAccepted
    /\ \A i \in DOMAIN sessions : FrameAccepted(i)

---------------------------------------------------------------------------
(* Properties. *)

\* Between any two host calls the machine is in a state that restore accepts: the keyboard,
\* the waits, the routes and the compilation all belong to requests that are still pending.
CheckpointAccepted == ~halted => Accepted

\* No wake-up, answer or compilation result is handed to a task that did not ask for it, or
\* to nobody (submit_redstone_input, resume_host_request_for, take_compilation).
AnswersReachTheirRequest == ~ghost.missed

\* resource_snapshot: the live sessions and the retired ones together.
SnapshotUnits == counters.retired + FoldSeq(LAMBDA f, sum : f.units + sum, 0, sessions)

\* What resource_snapshot reports is what the processes ever executed, up to the counters'
\* limit, and it says so once the limit is passed: nothing is lost when a process ends.
UnitsAccounted ==
    /\ Min({SnapshotUnits, MaxCounter}) = Min({ghost.executed, MaxCounter})
    /\ (counters.saturated \/ SnapshotUnits > MaxCounter) <=> ghost.executed > MaxCounter

\* Ctrl+C ends the command however its tasks wait, if the host keeps advancing.
TerminationCompletes == (termination # {}) ~> (termination = {} \/ halted)

Unpublished(t) ==
    \E r \in Range(Top(sessions).reqs) : r.task = t /\ ~Internal(r) /\ ~Exposed(Top(sessions), r)

\* An external call of the top frame is published to the host however busy another task
\* keeps the machine with calls of its own (the order of the batch in advance).
ExternalCallsArePublished == \A t \in Tasks : []<>(~Unpublished(t) \/ halted)

\* If the host keeps advancing, neither Ctrl+C nor a call to the host starves behind the
\* other tasks of the machine (advance: termination first, then one internal call).
NothingStarves == TerminationCompletes /\ ExternalCallsArePublished

\* An internal call of the top frame is served, or parked, on a following slice.
Unserved(t) ==
    \E r \in Range(Unparked(Top(sessions))) : r.task = t /\ Internal(r)
InternalCallsAreServed == \A t \in Tasks : []<>(~Unserved(t) \/ halted)
=============================================================================
