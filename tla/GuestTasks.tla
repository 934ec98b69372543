----------------------------- MODULE GuestTasks -----------------------------
(***************************************************************************)
(* The tasks of one Guest program: the cooperative scheduler               *)
(* (execution/task.rs), the channels between tasks (execution/channel.rs)  *)
(* and the instructions of the machine that drive both                     *)
(* (execution/machine.rs).                                                 *)
(*                                                                         *)
(* Identifiers are handed out in order and the first vacant slot is taken, *)
(* and a slot never becomes vacant again while the program runs: a task's  *)
(* identifier is its slot plus one, and a task is modelled by that number. *)
(* The ready ring and the linked lists of channel waiters are sequences.   *)
(* A value sent on a channel is its number among the values sent on that   *)
(* channel: the arena never looks at a value.                              *)
(***************************************************************************)
EXTENDS Integers, Sequences, FiniteSets

CONSTANTS
  Capacity,       \* slots of the scheduler (maximum_coroutines)
  ChannelCount,   \* slots of the channel arena (maximum_channels)
  ValueCount,     \* values the arena can hold (maximum_channel_values)
  Requested,      \* the channel capacities the Guest asks for
  MaxSends        \* bound: sends, and receives, the Guest issues per channel

ASSUME CapacityAssumption == Capacity \in Nat \ {0}
ASSUME ChannelAssumption ==
  /\ ChannelCount \in Nat /\ ValueCount \in Nat /\ MaxSends \in Nat
  /\ Requested \subseteq Nat

Tasks == 1 .. Capacity
Channels == 1 .. ChannelCount
ROOT == 1
None == 0

States == {"vacant", "ready", "running", "host", "join", "channel", "completed"}

VARIABLES
  life,       \* Machine.lifecycle; "corrupt" is Faulted(CorruptLifecycle)
  state,      \* TaskRecord.state of each slot
  on,         \* the task or channel a waiting slot waits for
  ready,      \* the ready ring, oldest first
  active,     \* TaskScheduler.active
  opened,     \* channel_count: the channels created so far
  used,       \* value_count: the value storage given to them
  start,      \* Channel.values_start: where a channel's value storage begins
  room,       \* Channel.capacity
  buf,        \* the values a channel holds, oldest first
  senders,    \* a channel's list of waiting senders
  receivers,  \* a channel's list of waiting receivers
  kind,       \* Waiter.kind of each slot
  held,       \* the value a waiting sender holds; the number of a waiting receive
  sent,       \* sends begun on a channel
  taken,      \* receives satisfied on a channel
  inbox       \* the number and the value of a task's last satisfied receive

schedVars == <<state, on, ready, active>>
chanVars == <<opened, used, start, room, buf, senders, receivers, kind, held, sent,
              taken, inbox>>
taskVars == <<life, state, on, ready, active, opened, used, start, room, buf, senders,
              receivers, kind, held, sent, taken, inbox>>

TasksInit ==
  /\ life = "pristine"
  /\ state = [t \in Tasks |-> "vacant"]
  /\ on = [t \in Tasks |-> None]
  /\ ready = <<>>
  /\ active = None
  /\ opened = 0
  /\ used = 0
  /\ start = [c \in Channels |-> 0]
  /\ room = [c \in Channels |-> 0]
  /\ buf = [c \in Channels |-> <<>>]
  /\ senders = [c \in Channels |-> <<>>]
  /\ receivers = [c \in Channels |-> <<>>]
  /\ kind = [t \in Tasks |-> "none"]
  /\ held = [t \in Tasks |-> 0]
  /\ sent = [c \in Channels |-> 0]
  /\ taken = [c \in Channels |-> 0]
  /\ inbox = [t \in Tasks |-> <<0, 0>>]

Running == life = "runnable" /\ active # None

(***************************************************************************)
(* The scheduler.                                                          *)
(***************************************************************************)

\* An error the code reports as a fault of the Guest's request.
Faulted == life' = "faulted" /\ UNCHANGED <<schedVars, chanVars>>

\* ok is the consistency check the code makes on the way; when it fails the
\* step ends in CorruptLifecycle, and nothing reads the other variables again.
Checked(ok) == life' = IF ok THEN life ELSE "corrupt"

StartRoot ==
  /\ life = "pristine"
  /\ life' = "runnable"
  /\ state' = [state EXCEPT ![ROOT] = "running"]
  /\ active' = ROOT
  /\ UNCHANGED <<on, ready, chanVars>>

\* activate_next_task, once no task is active: st and q are the states and the
\* ready ring as the instruction leaves them, ok the checks it has made.
ActivateNext(st, q, ok) ==
  /\ Checked(ok /\ (q # <<>> => st[Head(q)] = "ready"))
  /\ IF q = <<>>
       THEN state' = st /\ ready' = q /\ active' = None
       ELSE /\ state' = [st EXCEPT ![Head(q)] = "running"]
            /\ ready' = Tail(q)
            /\ active' = Head(q)

\* The active task starts to wait, and the next ready one runs.
Suspend(wait, what, ok) ==
  /\ on' = [on EXCEPT ![active] = what]
  /\ ActivateNext([state EXCEPT ![active] = wait], ready, ok)

\* The first vacant slot; a completed one is not reused.
Vacant(s) ==
  /\ s \in Tasks
  /\ state[s] = "vacant"
  /\ \A u \in Tasks : u < s => state[u] # "vacant"

Spawn ==
  /\ Running
  /\ \/ /\ \A s \in Tasks : state[s] # "vacant"
        /\ Faulted
     \/ \E s \in Tasks :
          /\ Vacant(s)
          /\ Checked(Len(ready) < Capacity)
          /\ state' = [state EXCEPT ![s] = "ready"]
          /\ ready' = Append(ready, s)
          /\ UNCHANGED <<on, active, chanVars>>

\* Mutant: the walk looks one link ahead only.
ChainAvoidsOneLink(target, me) ==
  target # me /\ ~(state[target] = "join" /\ on[target] = me)

\* The walk along the chain of joins from target: it visits a set of tasks
\* closed under "joins", and stops early when it meets the joining task.
ChainAvoids(target, me) ==
  \E visited \in SUBSET Tasks :
    /\ target \in visited
    /\ me \notin visited
    /\ \A t \in visited : state[t] = "join" => on[t] \in visited

\* Joining a completed task passes; the instruction then raises the failure
\* that task ended with, if any, which leaves the scheduler alone.
Join(target) ==
  /\ Running
  /\ \/ /\ \/ target = active
           \/ state[target] = "vacant"
           \/ state[target] # "completed" /\ ~ChainAvoids(target, active)
        /\ Faulted
     \/ /\ target # active
        /\ state[target] \notin {"vacant", "completed"}
        /\ ChainAvoids(target, active)
        /\ Suspend("join", target, TRUE)
        /\ UNCHANGED chanVars

\* Sequences of tasks in the order of their slots.
SlotOrders(ts) ==
  {w \in UNION {[1 .. n -> Tasks] : n \in 0 .. Capacity} :
     /\ {w[i] : i \in DOMAIN w} = ts
     /\ \A i, j \in DOMAIN w : i < j => w[i] < w[j]}

Joiners(t) == {u \in Tasks : state[u] = "join" /\ on[u] = t}

\* A child returns, or an exception leaves its last frame: its joiners become
\* ready in slot order and the next ready task runs.
CompleteCurrent ==
  /\ Running
  /\ active # ROOT
  /\ \E woken \in SlotOrders(Joiners(active)) :
       LET q == ready \o woken
           st == [t \in Tasks |-> IF t = active THEN "completed"
                                  ELSE IF t \in Joiners(active) THEN "ready"
                                  ELSE state[t]]
       IN /\ ActivateNext(st, q, Len(q) <= Capacity)
          /\ on' = [t \in Tasks |-> IF t \in Joiners(active) THEN None ELSE on[t]]
          /\ UNCHANGED chanVars

\* The root returns or fails: the program ends and every task is cancelled.
RootEnds ==
  /\ Running
  /\ active = ROOT
  /\ life' = "halted"
  /\ state' = [t \in Tasks |-> "vacant"]
  /\ on' = [t \in Tasks |-> None]
  /\ ready' = <<>>
  /\ active' = None
  /\ UNCHANGED chanVars

\* Any other fault, trap without a handler type, or exhausted allocation; a
\* response that finds no room ends the program even when no task is active.
Fault == life = "runnable" /\ Faulted

\* A capability call is published and its task waits for the response.
HostCall ==
  /\ Running
  /\ Suspend("host", None, TRUE)
  /\ UNCHANGED chanVars

\* Mutant: the woken task goes to the front of the ready ring.
CompleteHostFirst(t) ==
  /\ life = "runnable"
  /\ state[t] = "host"
  /\ LET st == [state EXCEPT ![t] = "ready"]
         q == <<t>> \o ready
     IN IF active = None
          THEN ActivateNext(st, q, Len(ready) < Capacity)
          ELSE /\ Checked(Len(ready) < Capacity)
               /\ state' = st
               /\ ready' = q
               /\ UNCHANGED active
  /\ UNCHANGED <<on, chanVars>>

\* The response has been delivered. The task becomes ready, and runs when
\* nothing else does.
CompleteHost(t) ==
  /\ life = "runnable"
  /\ state[t] = "host"
  /\ LET st == [state EXCEPT ![t] = "ready"]
         q == Append(ready, t)
     IN IF active = None
          THEN ActivateNext(st, q, Len(ready) < Capacity)
          ELSE /\ Checked(Len(ready) < Capacity)
               /\ state' = st
               /\ ready' = q
               /\ UNCHANGED active
  /\ UNCHANGED <<on, chanVars>>

(***************************************************************************)
(* Channels.                                                               *)
(***************************************************************************)

Created(c) == c <= opened
\* create: the next channel slot, with a range of the value storage.
ChannelCreate(n) ==
  /\ Running
  /\ \/ /\ n = 0 \/ opened = ChannelCount \/ used + n > ValueCount
        /\ Faulted
     \/ /\ n > 0 /\ opened < ChannelCount /\ used + n <= ValueCount
        /\ opened' = opened + 1
        /\ used' = used + n
        /\ start' = [start EXCEPT ![opened + 1] = used]
        /\ room' = [room EXCEPT ![opened + 1] = n]
        /\ UNCHANGED <<life, schedVars, buf, senders, receivers, kind, held,
                       sent, taken, inbox>>
\* pop_waiter, then resume_saved_channel_task: u, the first of a list of channel
\* c, becomes ready.
Wake(u, c, what) ==
  /\ Checked(/\ kind[u] = what
             /\ state[u] = "channel"
             /\ on[u] = c
             /\ Len(ready) < Capacity)
  /\ kind' = [kind EXCEPT ![u] = "none"]
  /\ state' = [state EXCEPT ![u] = "ready"]
  /\ on' = [on EXCEPT ![u] = None]
  /\ ready' = Append(ready, u)
  /\ UNCHANGED active

\* install_waiter, then the task waits for the channel.
Park(what, value, c) ==
  /\ kind' = [kind EXCEPT ![active] = what]
  /\ held' = [held EXCEPT ![active] = value]
  /\ Suspend("channel", c, kind[active] = "none")

\* A waiting receiver is handed the value at once.
SendToReceiver(c) ==
  /\ receivers[c] # <<>>
  /\ LET u == Head(receivers[c]) IN
       /\ Wake(u, c, "receive")
       /\ inbox' = [inbox EXCEPT ![u] = <<held[u], sent[c] + 1>>]
  /\ receivers' = [receivers EXCEPT ![c] = Tail(@)]
  /\ sent' = [sent EXCEPT ![c] = @ + 1]
  /\ taken' = [taken EXCEPT ![c] = @ + 1]
  /\ UNCHANGED <<opened, used, start, room, buf, senders, held>>
\* Mutant: the buffer is tried before the waiting receivers.
SendToBufferFirst(c) ==
  /\ Len(buf[c]) < room[c]
  /\ buf' = [buf EXCEPT ![c] = Append(@, sent[c] + 1)]
  /\ sent' = [sent EXCEPT ![c] = @ + 1]
  /\ UNCHANGED <<life, schedVars, opened, used, start, room, senders, receivers, kind,
                 held, taken, inbox>>

SendToBuffer(c) ==
  /\ receivers[c] = <<>>
  /\ Len(buf[c]) < room[c]
  /\ buf' = [buf EXCEPT ![c] = Append(@, sent[c] + 1)]
  /\ sent' = [sent EXCEPT ![c] = @ + 1]
  /\ UNCHANGED <<life, schedVars, opened, used, start, room, senders, receivers, kind,
                 held, taken, inbox>>

SendParks(c) ==
  /\ receivers[c] = <<>>
  /\ Len(buf[c]) >= room[c]
  /\ Park("send", sent[c] + 1, c)
  /\ senders' = [senders EXCEPT ![c] = Append(@, active)]
  /\ sent' = [sent EXCEPT ![c] = @ + 1]
  /\ UNCHANGED <<opened, used, start, room, buf, receivers, taken, inbox>>

\* A send on a handle that names no channel raises an exception in the Guest
\* and changes neither scheduler nor arena.
ChannelSend(c) ==
  /\ Running
  /\ Created(c)
  /\ sent[c] < MaxSends
  /\ SendToReceiver(c) \/ SendToBuffer(c) \/ SendParks(c)

\* The oldest value is taken; the first waiting sender's value follows it into
\* the buffer.
ReceiveAlone(c) ==
  /\ buf[c] # <<>>
  /\ senders[c] = <<>>
  /\ buf' = [buf EXCEPT ![c] = Tail(@)]
  /\ taken' = [taken EXCEPT ![c] = @ + 1]
  /\ inbox' = [inbox EXCEPT ![active] = <<taken[c] + 1, Head(buf[c])>>]
  /\ UNCHANGED <<life, schedVars, opened, used, start, room, senders, receivers, kind,
                 held, sent>>
\* Mutant: the waiting sender's value overtakes the buffer.
ReceiveOvertaking(c) ==
  /\ buf[c] # <<>>
  /\ senders[c] # <<>>
  /\ LET u == Head(senders[c]) IN
       /\ Wake(u, c, "send")
       /\ inbox' = [inbox EXCEPT ![active] = <<taken[c] + 1, held[u]>>]
  /\ senders' = [senders EXCEPT ![c] = Tail(@)]
  /\ taken' = [taken EXCEPT ![c] = @ + 1]
  /\ UNCHANGED <<opened, used, start, room, buf, receivers, held, sent>>

ReceiveRefill(c) ==
  /\ buf[c] # <<>>
  /\ senders[c] # <<>>
  /\ LET u == Head(senders[c]) IN
       /\ Wake(u, c, "send")
       /\ buf' = [buf EXCEPT ![c] = Append(Tail(@), held[u])]
  /\ senders' = [senders EXCEPT ![c] = Tail(@)]
  /\ taken' = [taken EXCEPT ![c] = @ + 1]
  /\ inbox' = [inbox EXCEPT ![active] = <<taken[c] + 1, Head(buf[c])>>]
  /\ UNCHANGED <<opened, used, start, room, receivers, held, sent>>

ReceiveParks(c) ==
  /\ buf[c] = <<>>
  /\ Park("receive", taken[c] + Len(receivers[c]) + 1, c)
  /\ receivers' = [receivers EXCEPT ![c] = Append(@, active)]
  /\ UNCHANGED <<opened, used, start, room, buf, senders, sent, taken, inbox>>

ChannelReceive(c) ==
  /\ Running
  /\ Created(c)
  /\ taken[c] + Len(receivers[c]) < MaxSends
  /\ ReceiveAlone(c) \/ ReceiveRefill(c) \/ ReceiveParks(c)

TaskStep ==
  \/ Spawn \/ CompleteCurrent \/ RootEnds \/ Fault \/ HostCall
  \/ \E t \in Tasks : Join(t)
  \/ \E n \in Requested : ChannelCreate(n)
  \/ \E c \in Channels : ChannelSend(c) \/ ChannelReceive(c)

TasksNext == StartRoot \/ TaskStep \/ \E t \in Tasks : CompleteHost(t)

TasksSpec == TasksInit /\ [][TasksNext]_taskVars

\* Every advance goes on with the running task (Session::advance; the Guest's
\* instructions are finite between two that may yield, here because their
\* number is bounded), and the host answers every request.
FairTasks ==
  /\ TasksSpec
  /\ WF_taskVars(TaskStep)
  /\ \A t \in Tasks : WF_taskVars(CompleteHost(t))

(***************************************************************************)
(* Properties.                                                             *)
(***************************************************************************)

\* Every variable has its type.
TasksTypeOK ==
  /\ life \in {"pristine", "runnable", "halted", "faulted", "corrupt"}
  /\ state \in [Tasks -> States]
  /\ on \in [Tasks -> 0 .. (Capacity + ChannelCount)]
  /\ ready \in Seq(Tasks)
  /\ active \in Tasks \cup {None}
  /\ opened \in 0 .. ChannelCount
  /\ used \in 0 .. ValueCount
  /\ start \in [Channels -> Nat]
  /\ room \in [Channels -> Nat]
  /\ buf \in [Channels -> Seq(Nat)]
  /\ senders \in [Channels -> Seq(Tasks)]
  /\ receivers \in [Channels -> Seq(Tasks)]
  /\ kind \in [Tasks -> {"none", "send", "receive"}]
  /\ held \in [Tasks -> Nat]
  /\ sent \in [Channels -> Nat]
  /\ taken \in [Channels -> Nat]
  /\ inbox \in [Tasks -> Nat \X Nat]

(***************************************************************************)
(* What restore() demands of a checkpoint's scheduler and channels. A       *)
(* session may be checkpointed after any instruction.                       *)
(***************************************************************************)

\* The waiter lists of the channels created, and the tasks on them.
WaitList(c, what) == IF what = "send" THEN senders[c] ELSE receivers[c]
Waiters(c) == UNION {{WaitList(c, w)[i] : i \in DOMAIN WaitList(c, w)} : w \in {"send", "receive"}}
Visited == UNION {Waiters(c) : c \in 1 .. opened}

\* The walk along the joins from t: it meets only tasks that started and have
\* not completed, and it ends without returning to t.
WalkEnds(t) ==
  \E walk \in SUBSET Tasks :
    /\ on[t] \in walk
    /\ t \notin walk
    /\ \A u \in walk : state[u] \notin {"vacant", "completed"}
    /\ \A u \in walk : state[u] = "join" => on[u] \in walk

\* TaskScheduler::validate_checkpoint.
SchedulerAccepted ==
  /\ Len(ready) <= Capacity
  /\ \A t \in Tasks :
       /\ state[t] = "running" <=> active = t
       /\ state[t] = "channel" => on[t] # 0
       /\ state[t] = "join" => WalkEnds(t)
  /\ \A i, j \in DOMAIN ready : ready[i] = ready[j] => i = j
  /\ {ready[i] : i \in DOMAIN ready} = {t \in Tasks : state[t] = "ready"}

\* The value storage the channels before c occupy, as the walk over them adds it up.
EndBefore(c) == IF c = 1 THEN 0 ELSE start[c - 1] + room[c - 1]

\* ChannelArena::validate_checkpoint: the value ranges of the channels follow
\* each other, a list is not empty only while its channel is full or empty, and
\* the waiter slots in use are those on the lists, each on one list and once.
ChannelsAccepted ==
  /\ \A c \in 1 .. opened :
       /\ start[c] = EndBefore(c)
       /\ room[c] > 0
       /\ start[c] + room[c] <= ValueCount
       /\ Len(buf[c]) <= room[c]
       /\ senders[c] # <<>> => Len(buf[c]) = room[c]
       /\ receivers[c] # <<>> => buf[c] = <<>>
       /\ \A w \in {"send", "receive"} : \A i \in DOMAIN WaitList(c, w) :
            kind[WaitList(c, w)[i]] = w
  /\ used = EndBefore(opened + 1)
  /\ used <= ValueCount
  /\ \A c, d \in 1 .. opened, v, w \in {"send", "receive"} :
       \A i \in DOMAIN WaitList(c, v), j \in DOMAIN WaitList(d, w) :
         WaitList(c, v)[i] = WaitList(d, w)[j] => <<c, v, i>> = <<d, w, j>>
  /\ \A t \in Tasks : kind[t] # "none" <=> t \in Visited

\* ChannelArena::validate_checkpoint_continuations: the lists and the waiting
\* tasks agree.
ContinuationsAccepted ==
  /\ \A c \in 1 .. opened : \A t \in Waiters(c) : state[t] = "channel" /\ on[t] = c
  /\ \A t \in Tasks : state[t] = "channel" => t \in Visited

\* Whatever the tasks have done, the state they leave is one that
\* Machine::validate_checkpoint_storage accepts: no sequence of spawns, joins,
\* sends, receives and responses makes a checkpoint of a running or halted
\* program that cannot be restored, and the scheduler and the arena never report
\* their own state as corrupt (CorruptQueue, WrongWait).
TasksRestorable ==
  /\ TasksTypeOK
  /\ life # "corrupt"
  /\ life \in {"runnable", "halted"} => SchedulerAccepted /\ ChannelsAccepted
  /\ life = "runnable" => ContinuationsAccepted

\* Nobody waits in vain: the machine never idles while a task is ready
\* (machine.rs: whoever makes a task ready with no task active also activates
\* one), a receiver waits only while the channel and its senders have nothing
\* for it, a sender only while its channel is full (channel.rs: send, receive).
NoLostWakeup ==
  life = "runnable" =>
    /\ active = None => ready = <<>>
    /\ \A c \in Channels :
         /\ receivers[c] # <<>> => buf[c] = <<>> /\ senders[c] = <<>>
         /\ senders[c] # <<>> => Len(buf[c]) = room[c] /\ Created(c)

\* A channel is first in, first out, across its buffer, its waiting senders and
\* its waiting receivers: what it still holds are the values sent after the
\* last one taken, in order, and the n-th receive obtains the n-th value.
FifoDelivery ==
  life = "runnable" =>
    /\ \A c \in Channels :
         /\ \A i \in 1 .. Len(buf[c]) : buf[c][i] = taken[c] + i
         /\ \A i \in 1 .. Len(senders[c]) :
              held[senders[c][i]] = taken[c] + Len(buf[c]) + i
         /\ \A i \in 1 .. Len(receivers[c]) : held[receivers[c][i]] = taken[c] + i
         /\ sent[c] = taken[c] + Len(buf[c]) + Len(senders[c])
    /\ \A t \in Tasks : inbox[t][1] = inbox[t][2]

\* No ready task starves behind tasks that keep yielding to the host.
ReadyRuns ==
  \A t \in Tasks :
    state[t] = "ready" ~> (state[t] = "running" \/ life # "runnable")

=============================================================================
