-------------------------- MODULE GuestTasksProofs --------------------------
(***************************************************************************)
(* Theorems about GuestTasks, for every number of tasks and channels and   *)
(* every capacity: nobody waits in vain, channels deliver in order, and a  *)
(* checkpoint taken at any point is accepted.  The last section shows that *)
(* a session (GuestSession) refines GuestTasks, so the same holds of the   *)
(* tasks of every session.                                                 *)
(*                                                                         *)
(* The first two are not inductive.  A step could disturb the lists of     *)
(* waiters by making a listed task run, park or wake a second time; that   *)
(* the listed tasks are exactly in the state their list says, and that the *)
(* ready ring holds only ready tasks, each once, excludes it.              *)
(***************************************************************************)
EXTENDS GuestSession, FiniteSetTheorems, TLAPS

\* What a restored checkpoint needs depends on these variables only.
LEMMA SchedulerSame ==
  ASSUME SchedulerAccepted, UNCHANGED <<state, on, ready, active>>
  PROVE  SchedulerAccepted'
BY DEF SchedulerAccepted, WalkEnds

LEMMA ChannelsSame ==
  ASSUME ChannelsAccepted,
         UNCHANGED <<opened, used, start, room, buf, senders, receivers, kind>>
  PROVE  ChannelsAccepted'
BY DEF ChannelsAccepted, EndBefore, WaitList, Visited, Waiters

Lives == {"pristine", "runnable", "halted", "faulted", "corrupt"}

\* The ready ring holds ready tasks, each once.
RingOK(st, q) ==
  /\ \A i \in 1 .. Len(q) : st[q[i]] = "ready"
  /\ \A i, j \in 1 .. Len(q) : q[i] = q[j] => i = j

\* The active task runs, and there is one while any is ready.
ActiveRuns ==
  /\ active # None => state[active] = "running"
  /\ active = None => ready = <<>>

\* A task on a list waits for that channel, and for what the list is of.
WaitersWait ==
  \A c \in Channels :
    /\ \A i \in 1 .. Len(senders[c]) :
         /\ state[senders[c][i]] = "channel"
         /\ on[senders[c][i]] = c
         /\ kind[senders[c][i]] = "send"
    /\ \A i \in 1 .. Len(receivers[c]) :
         /\ state[receivers[c][i]] = "channel"
         /\ on[receivers[c][i]] = c
         /\ kind[receivers[c][i]] = "receive"

\* A channel has room once it is created, and holds no more than that.
RoomOK ==
  \A c \in Channels :
    /\ Len(buf[c]) <= room[c]
    /\ Created(c) <=> room[c] > 0

\* The channels' part of NoLostWakeup, and FifoDelivery, while the program runs.
Awake ==
  \A c \in Channels :
    /\ receivers[c] # <<>> => buf[c] = <<>> /\ senders[c] = <<>>
    /\ senders[c] # <<>> => Len(buf[c]) = room[c] /\ Created(c)
Delivery ==
  /\ \A c \in Channels :
       /\ \A i \in 1 .. Len(buf[c]) : buf[c][i] = taken[c] + i
       /\ \A i \in 1 .. Len(senders[c]) :
            held[senders[c][i]] = taken[c] + Len(buf[c]) + i
       /\ \A i \in 1 .. Len(receivers[c]) : held[receivers[c][i]] = taken[c] + i
       /\ sent[c] = taken[c] + Len(buf[c]) + Len(senders[c])
  /\ \A t \in Tasks : inbox[t][1] = inbox[t][2]

\* What holds while the program runs.
Sound ==
  /\ ActiveRuns
  /\ RingOK(state, ready)
  /\ WaitersWait
  /\ RoomOK
  /\ Awake
  /\ Delivery

\* The inductive invariant.
TasksInv ==
  /\ TasksTypeOK
  /\ life = "pristine" => TasksInit
  /\ life = "runnable" => Sound

LEMMA StutterInv ==
  ASSUME TasksInv, UNCHANGED taskVars
  PROVE  TasksInv'
<1>1. /\ UNCHANGED <<life, state, on, ready, active, opened, used, start, room, buf, senders,
                     receivers, kind, held, sent, taken, inbox>>
  BY Zenon DEF taskVars
<1>2. TasksTypeOK'
  BY <1>1, Zenon DEF TasksInv, TasksTypeOK
<1>3. (life = "pristine" => TasksInit)'
  BY <1>1, Zenon DEF TasksInv, TasksInit
<1>4. (life = "runnable" => Sound)'
  <2> SUFFICES ASSUME life = "runnable", Sound
               PROVE  Sound'
    BY <1>1, Zenon DEF TasksInv
  <2>1. ActiveRuns'
    BY <1>1, Zenon DEF Sound, ActiveRuns
  <2>2. RingOK(state, ready)'
    BY <1>1, Zenon DEF Sound
  <2>3. WaitersWait'
    BY <1>1 DEF Sound, WaitersWait
  <2>4. RoomOK'
    BY <1>1, Zenon DEF Sound, RoomOK, Created
  <2>5. Awake'
    BY <1>1 DEF Sound, Awake, Created
  <2>6. Delivery'
    BY <1>1 DEF Sound, Delivery
  <2> QED
    BY <2>1, <2>2, <2>3, <2>4, <2>5, <2>6, Zenon DEF Sound
<1> QED
  BY <1>2, <1>3, <1>4, Zenon DEF TasksInv

-----------------------------------------------------------------------------
(* Activation                                                              *)

\* activate_next_task takes the oldest ready task off the ring and touches no other.
LEMMA ActivateFacts ==
  ASSUME NEW st \in [Tasks -> States], NEW q \in Seq(Tasks), NEW ok \in BOOLEAN,
         life \in Lives, ActivateNext(st, q, ok)
  PROVE  /\ life' \in Lives
         /\ life' \in {life, "corrupt"}
         /\ state' \in [Tasks -> States]
         /\ ready' \in Seq(Tasks)
         /\ active' \in Tasks \cup {None}
         /\ RingOK(st, q) =>
              /\ RingOK(state', ready')
              /\ active' # None => state'[active'] = "running"
              /\ active' = None => ready' = <<>>
              /\ \A t \in Tasks : st[t] # "ready" => state'[t] = st[t]
<1>1. life' \in Lives /\ life' \in {life, "corrupt"}
  BY Zenon DEF ActivateNext, Checked, Lives
<1>2. CASE q = <<>>
  <2>1. state' = st /\ ready' = q /\ active' = None
    BY <1>2, Zenon DEF ActivateNext
  <2> QED
    BY <1>1, <1>2, <2>1 DEF RingOK
<1>3. CASE q # <<>>
  <2>1. /\ state' = [st EXCEPT ![Head(q)] = "running"]
        /\ ready' = Tail(q)
        /\ active' = Head(q)
    BY <1>3, Zenon DEF ActivateNext
  <2>2. Head(q) \in Tasks /\ Head(q) = q[1] /\ Tail(q) \in Seq(Tasks)
    BY <1>3
  <2>3. /\ Len(q) \in Nat /\ Len(q) >= 1
        /\ Len(Tail(q)) = Len(q) - 1
        /\ \A i \in 1 .. Len(Tail(q)) : Tail(q)[i] = q[i + 1] /\ q[i + 1] \in Tasks
    BY <1>3
  <2>4. state' \in [Tasks -> States]
    BY <2>1, <2>2, Zenon DEF States
  <2>5. active' # None /\ state'[active'] = "running"
    BY <2>1, <2>2, CapacityAssumption DEF Tasks, None
  <2>6. ASSUME RingOK(st, q)
        PROVE  /\ RingOK(state', ready')
               /\ \A t \in Tasks : st[t] # "ready" => state'[t] = st[t]
    <3>1. \A t \in Tasks : st[t] # "ready" => state'[t] = st[t]
      BY <2>1, <2>2, <2>3, <2>6 DEF RingOK
    <3>2. ASSUME NEW i \in 1 .. Len(Tail(q))
          PROVE  state'[Tail(q)[i]] = "ready"
      <4>1. i + 1 \in 1 .. Len(q) /\ 1 \in 1 .. Len(q) /\ i + 1 # 1
        BY <2>3
      <4>2. q[i + 1] # q[1] /\ st[q[i + 1]] = "ready"
        BY <2>6, <4>1, Zenon DEF RingOK
      <4> QED
        BY <2>1, <2>2, <2>3, <4>2, Zenon
    <3>3. ASSUME NEW i \in 1 .. Len(Tail(q)), NEW j \in 1 .. Len(Tail(q)),
                 Tail(q)[i] = Tail(q)[j]
          PROVE  i = j
      <4>1. i + 1 \in 1 .. Len(q) /\ j + 1 \in 1 .. Len(q)
        BY <2>3
      <4>2. i + 1 = j + 1
        BY <2>3, <2>6, <3>3, <4>1, Zenon DEF RingOK
      <4> QED
        BY <4>2
    <3> QED
      BY <2>1, <3>1, <3>2, <3>3, Zenon DEF RingOK
  <2> QED
    BY <1>1, <2>1, <2>2, <2>4, <2>5, <2>6, Zenon
<1> QED
  BY <1>2, <1>3, Zenon

-----------------------------------------------------------------------------
(* Steps that leave the channels alone                                     *)

\* Channels and lists are kept by a step that moves no task waiting for a channel.
LEMMA ChannelsKept ==
  ASSUME TasksTypeOK, WaitersWait, RoomOK, Awake, Delivery, UNCHANGED chanVars,
         \A t \in Tasks : state[t] = "channel" => state'[t] = "channel" /\ on'[t] = on[t]
  PROVE  WaitersWait' /\ RoomOK' /\ Awake' /\ Delivery'
<1>1. /\ UNCHANGED <<opened, room, buf, senders, receivers, kind, held, sent, taken, inbox>>
      /\ senders \in [Channels -> Seq(Tasks)]
      /\ receivers \in [Channels -> Seq(Tasks)]
  BY Zenon DEF chanVars, TasksTypeOK
<1>2. RoomOK' /\ Awake' /\ Delivery'
  BY <1>1, Zenon DEF RoomOK, Awake, Delivery, Created
<1>3. ASSUME NEW c \in Channels
      PROVE  /\ \A i \in 1 .. Len(senders[c]) : senders[c][i] \in Tasks
             /\ \A i \in 1 .. Len(receivers[c]) : receivers[c][i] \in Tasks
  BY <1>1, <1>3
<1>4. WaitersWait'
  <2>1. ASSUME NEW c \in Channels, NEW i \in 1 .. Len(senders[c])
        PROVE  /\ state'[senders[c][i]] = "channel"
               /\ on'[senders[c][i]] = c
               /\ kind[senders[c][i]] = "send"
    BY <1>3, <2>1 DEF WaitersWait
  <2>2. ASSUME NEW c \in Channels, NEW i \in 1 .. Len(receivers[c])
        PROVE  /\ state'[receivers[c][i]] = "channel"
               /\ on'[receivers[c][i]] = c
               /\ kind[receivers[c][i]] = "receive"
    BY <1>3, <2>2 DEF WaitersWait
  <2> QED
    BY <1>1, <2>1, <2>2 DEF WaitersWait
<1> QED
  BY <1>2, <1>4, Zenon

\* The variables of the channels keep their types.
LEMMA ChannelTypes ==
  ASSUME TasksTypeOK, UNCHANGED chanVars
  PROVE  /\ opened' \in 0 .. ChannelCount
         /\ used' \in 0 .. ValueCount
         /\ start' \in [Channels -> Nat]
         /\ room' \in [Channels -> Nat]
         /\ buf' \in [Channels -> Seq(Nat)]
         /\ senders' \in [Channels -> Seq(Tasks)]
         /\ receivers' \in [Channels -> Seq(Tasks)]
         /\ kind' \in [Tasks -> {"none", "send", "receive"}]
         /\ held' \in [Tasks -> Nat]
         /\ sent' \in [Channels -> Nat]
         /\ taken' \in [Channels -> Nat]
         /\ inbox' \in [Tasks -> Nat \X Nat]
BY Zenon DEF TasksTypeOK, chanVars

\* A step after which the program does not run needs its types only.
LEMMA NotRunning ==
  ASSUME TasksTypeOK', life' \notin {"pristine", "runnable"}
  PROVE  TasksInv'
BY Zenon DEF TasksInv

\* A fault leaves everything but the lifecycle.
LEMMA FaultedInv ==
  ASSUME TasksInv, Faulted
  PROVE  TasksInv'
<1>1. TasksTypeOK
  BY Zenon DEF TasksInv
<1>2. life' = "faulted" /\ UNCHANGED <<state, on, ready, active>> /\ UNCHANGED chanVars
  BY Zenon DEF Faulted, schedVars
<1>3. TasksTypeOK'
  BY <1>1, <1>2, ChannelTypes, Zenon DEF TasksTypeOK
<1> QED
  BY <1>2, <1>3, NotRunning, Zenon

\* What a scheduler step has to show: the ring, the active task, and that no task
\* waiting for a channel is moved.
LEMMA SchedulerStep ==
  ASSUME TasksInv, life = "runnable", UNCHANGED chanVars,
         life' \in {life, "corrupt"},
         state' \in [Tasks -> States],
         on' \in [Tasks -> 0 .. (Capacity + ChannelCount)],
         ready' \in Seq(Tasks),
         active' \in Tasks \cup {None},
         ActiveRuns',
         RingOK(state', ready'),
         \A t \in Tasks : state[t] = "channel" => state'[t] = "channel" /\ on'[t] = on[t]
  PROVE  TasksInv'
<1>1. TasksTypeOK /\ Sound
  BY Zenon DEF TasksInv
<1>2. TasksTypeOK'
  BY <1>1, ChannelTypes, Zenon DEF TasksTypeOK
<1>3. WaitersWait' /\ RoomOK' /\ Awake' /\ Delivery'
  BY <1>1, ChannelsKept, Zenon DEF Sound
<1>4. Sound'
  BY <1>3, Zenon DEF Sound
<1> QED
  BY <1>2, <1>4, Zenon DEF TasksInv

\* The active task starts to wait for the host or another task.
LEMMA SuspendInv ==
  ASSUME TasksInv, Running, UNCHANGED chanVars,
         NEW wait \in {"host", "join"}, NEW what \in Tasks \cup {None},
         Suspend(wait, what, TRUE)
  PROVE  TasksInv'
<1> DEFINE st == [state EXCEPT ![active] = wait]
<1>1. /\ TasksTypeOK /\ Sound /\ life = "runnable"
      /\ active \in Tasks /\ state[active] = "running"
      /\ state \in [Tasks -> States] /\ ready \in Seq(Tasks)
      /\ on \in [Tasks -> 0 .. (Capacity + ChannelCount)]
  BY Zenon DEF TasksInv, Running, Sound, ActiveRuns, TasksTypeOK
<1>2. st \in [Tasks -> States]
  BY <1>1, Zenon DEF States
<1>3. RingOK(st, ready)
  <2>1. RingOK(state, ready)
    BY <1>1, Zenon DEF Sound
  <2>2. \A i \in 1 .. Len(ready) : ready[i] \in Tasks /\ ready[i] # active
    BY <1>1, <2>1 DEF RingOK
  <2> QED
    BY <1>1, <2>1, <2>2, Zenon DEF RingOK
<1>4. ActivateNext(st, ready, TRUE) /\ on' = [on EXCEPT ![active] = what]
  BY Zenon DEF Suspend
<1>5. on' \in [Tasks -> 0 .. (Capacity + ChannelCount)]
  BY <1>1, <1>4, CapacityAssumption, ChannelAssumption DEF Tasks, None
<1>6. /\ life' \in {life, "corrupt"}
      /\ state' \in [Tasks -> States]
      /\ ready' \in Seq(Tasks)
      /\ active' \in Tasks \cup {None}
      /\ RingOK(state', ready')
      /\ active' # None => state'[active'] = "running"
      /\ active' = None => ready' = <<>>
      /\ \A t \in Tasks : st[t] # "ready" => state'[t] = st[t]
  <2> HIDE DEF st
  <2> QED
    BY <1>1, <1>2, <1>3, <1>4, ActivateFacts, Zenon DEF Lives
<1>7. \A t \in Tasks : state[t] = "channel" => state'[t] = "channel" /\ on'[t] = on[t]
  BY <1>1, <1>4, <1>6, Zenon
<1> HIDE DEF st
<1> QED
  BY <1>1, <1>5, <1>6, <1>7, SchedulerStep, Zenon DEF ActiveRuns

-----------------------------------------------------------------------------
(* The scheduler                                                           *)

LEMMA InitInv ==
  ASSUME TasksInit
  PROVE  TasksInv
<1>1. TasksTypeOK
  BY CapacityAssumption, ChannelAssumption
  DEF TasksInit, TasksTypeOK, Tasks, Channels, None, States
<1> QED
  BY <1>1, Zenon DEF TasksInv, TasksInit

LEMMA StartRootInv ==
  ASSUME TasksInv, StartRoot
  PROVE  TasksInv'
<1>1. TasksInit /\ TasksTypeOK
  BY Zenon DEF TasksInv, StartRoot
<1>2. ROOT \in Tasks /\ ROOT # None
  BY CapacityAssumption DEF ROOT, Tasks, None
<1>3. /\ life' = "runnable" /\ state' = [state EXCEPT ![ROOT] = "running"]
      /\ active' = ROOT /\ on' = on /\ ready' = ready /\ UNCHANGED chanVars
  BY Zenon DEF StartRoot
<1>4. TasksTypeOK'
  <2>1. state' \in [Tasks -> States]
    BY <1>1, <1>2, <1>3, Zenon DEF TasksTypeOK, States
  <2> QED
    BY <1>1, <1>2, <1>3, <2>1, ChannelTypes, Zenon DEF TasksTypeOK
<1>5. ActiveRuns' /\ RingOK(state, ready)'
  BY <1>1, <1>2, <1>3 DEF ActiveRuns, RingOK, TasksInit, TasksTypeOK
<1>6. \A c \in Channels : c > 0
  BY DEF Channels
<1>7. WaitersWait /\ RoomOK /\ Awake /\ Delivery
  BY <1>1, <1>6, ChannelAssumption
  DEF TasksInit, WaitersWait, RoomOK, Awake, Delivery, Created, Channels
<1>8. \A t \in Tasks : state[t] # "channel"
  BY <1>1, Zenon DEF TasksInit
<1>9. WaitersWait' /\ RoomOK' /\ Awake' /\ Delivery'
  BY <1>1, <1>3, <1>7, <1>8, ChannelsKept, Zenon
<1> QED
  BY <1>3, <1>4, <1>5, <1>9, Zenon DEF TasksInv, Sound

LEMMA SpawnInv ==
  ASSUME TasksInv, Spawn
  PROVE  TasksInv'
<1>1. /\ TasksTypeOK /\ Sound /\ life = "runnable" /\ active # None
      /\ active \in Tasks /\ state[active] = "running"
      /\ state \in [Tasks -> States] /\ ready \in Seq(Tasks)
      /\ on \in [Tasks -> 0 .. (Capacity + ChannelCount)]
  BY Zenon DEF TasksInv, Spawn, Running, Sound, ActiveRuns, TasksTypeOK
<1>2. CASE Faulted
  BY <1>2, FaultedInv, Zenon
<1>3. ASSUME NEW s \in Tasks, state[s] = "vacant",
             Checked(Len(ready) < Capacity),
             state' = [state EXCEPT ![s] = "ready"],
             ready' = Append(ready, s),
             UNCHANGED <<on, active, chanVars>>
      PROVE  TasksInv'
  <2>1. life' \in {life, "corrupt"}
    BY <1>3, Zenon DEF Checked
  <2>2. state' \in [Tasks -> States] /\ ready' \in Seq(Tasks)
    BY <1>1, <1>3 DEF States
  <2>3. ActiveRuns'
    BY <1>1, <1>3, Zenon DEF ActiveRuns
  <2>4. RingOK(state', ready')
    <3>1. RingOK(state, ready)
      BY <1>1, Zenon DEF Sound
    <3>2. \A i \in 1 .. Len(ready) : ready[i] \in Tasks /\ ready[i] # s
      BY <1>1, <1>3, <3>1 DEF RingOK
    <3> QED
      BY <1>1, <1>3, <3>1, <3>2, SMTT(30) DEF RingOK
  <2>5. \A t \in Tasks : state[t] = "channel" => state'[t] = "channel" /\ on'[t] = on[t]
    BY <1>1, <1>3, Zenon
  <2> QED
    BY <1>1, <1>3, <2>1, <2>2, <2>3, <2>4, <2>5, SchedulerStep, Zenon
<1> QED
  BY <1>2, <1>3, Zenon DEF Spawn, Vacant

LEMMA JoinInv ==
  ASSUME TasksInv, NEW target \in Tasks, Join(target)
  PROVE  TasksInv'
<1>1. CASE Faulted
  BY <1>1, FaultedInv, Zenon
<1>2. CASE Suspend("join", target, TRUE) /\ UNCHANGED chanVars
  BY <1>2, SuspendInv, Zenon DEF Join
<1> QED
  BY <1>1, <1>2, Zenon DEF Join

LEMMA HostCallInv ==
  ASSUME TasksInv, HostCall
  PROVE  TasksInv'
BY SuspendInv, Zenon DEF HostCall

\* A task that is not on the ring joins its end.
LEMMA AppendRing ==
  ASSUME NEW st \in [Tasks -> States], NEW q \in Seq(Tasks), NEW t \in Tasks,
         RingOK(st, q), st[t] # "ready"
  PROVE  /\ [st EXCEPT ![t] = "ready"] \in [Tasks -> States]
         /\ Append(q, t) \in Seq(Tasks)
         /\ RingOK([st EXCEPT ![t] = "ready"], Append(q, t))
<1>1. \A i \in 1 .. Len(q) : q[i] \in Tasks /\ q[i] # t
  BY DEF RingOK
<1>2. [st EXCEPT ![t] = "ready"] \in [Tasks -> States]
  BY Zenon DEF States
<1> QED
  BY <1>1, <1>2 DEF RingOK

LEMMA CompleteHostInv ==
  ASSUME TasksInv, NEW t \in Tasks, CompleteHost(t)
  PROVE  TasksInv'
<1> DEFINE st == [state EXCEPT ![t] = "ready"]
           q == Append(ready, t)
<1>1. /\ TasksTypeOK /\ Sound /\ life = "runnable" /\ state[t] = "host"
      /\ state \in [Tasks -> States] /\ ready \in Seq(Tasks)
      /\ on \in [Tasks -> 0 .. (Capacity + ChannelCount)]
      /\ active \in Tasks \cup {None} /\ UNCHANGED on /\ UNCHANGED chanVars
  BY Zenon DEF TasksInv, CompleteHost, TasksTypeOK
<1>2. st \in [Tasks -> States] /\ q \in Seq(Tasks) /\ RingOK(st, q)
  BY <1>1, AppendRing, Zenon DEF Sound
<1>3. CASE active = None
  <2>1. ActivateNext(st, q, Len(ready) < Capacity)
    BY <1>3, Zenon DEF CompleteHost
  <2>2. /\ life' \in {life, "corrupt"}
        /\ state' \in [Tasks -> States]
        /\ ready' \in Seq(Tasks)
        /\ active' \in Tasks \cup {None}
        /\ RingOK(state', ready')
        /\ active' # None => state'[active'] = "running"
        /\ active' = None => ready' = <<>>
        /\ \A u \in Tasks : st[u] # "ready" => state'[u] = st[u]
    <3>1. (Len(ready) < Capacity) \in BOOLEAN
      OBVIOUS
    <3> HIDE DEF st, q
    <3> QED
      BY <1>1, <1>2, <2>1, <3>1, ActivateFacts, Zenon DEF Lives
  <2>3. \A u \in Tasks : state[u] = "channel" => state'[u] = "channel" /\ on'[u] = on[u]
    BY <1>1, <2>2, Zenon
  <2> HIDE DEF st, q
  <2> QED
    BY <1>1, <2>2, <2>3, SchedulerStep, Zenon DEF ActiveRuns
<1>4. CASE active # None
  <2>1. Checked(Len(ready) < Capacity) /\ state' = st /\ ready' = q /\ active' = active
    BY <1>4, Zenon DEF CompleteHost
  <2>2. life' \in {life, "corrupt"}
    BY <2>1, Zenon DEF Checked
  <2>3. ActiveRuns'
    BY <1>1, <1>4, <2>1, Zenon DEF ActiveRuns, Sound
  <2>4. \A u \in Tasks : state[u] = "channel" => state'[u] = "channel" /\ on'[u] = on[u]
    BY <1>1, <2>1, Zenon
  <2> HIDE DEF st, q
  <2> QED
    BY <1>1, <1>2, <2>1, <2>2, <2>3, <2>4, SchedulerStep, Zenon
<1> QED
  BY <1>3, <1>4, Zenon

LEMMA RootEndsInv ==
  ASSUME TasksInv, RootEnds
  PROVE  TasksInv'
<1>1. TasksTypeOK
  BY Zenon DEF TasksInv
<1>2. /\ life' = "halted"
      /\ state' = [t \in Tasks |-> "vacant"] /\ on' = [t \in Tasks |-> None]
      /\ ready' = <<>> /\ active' = None /\ UNCHANGED chanVars
  BY Zenon DEF RootEnds
<1>3. /\ state' \in [Tasks -> States]
      /\ on' \in [Tasks -> 0 .. (Capacity + ChannelCount)]
  BY <1>2, CapacityAssumption, ChannelAssumption DEF None, States
<1>4. life' \in Lives /\ ready' \in Seq(Tasks) /\ active' \in Tasks \cup {None}
  BY <1>2 DEF Lives
<1>5. TasksTypeOK'
  BY <1>1, <1>2, <1>3, <1>4, ChannelTypes, Zenon DEF TasksTypeOK, Lives
<1> QED
  BY <1>2, <1>5, NotRunning, Zenon

\* The joiners in slot order, as a sequence.
LEMMA SlotOrderFacts ==
  ASSUME NEW ts \in SUBSET Tasks, NEW w \in SlotOrders(ts)
  PROVE  /\ w \in Seq(Tasks)
         /\ \A i \in 1 .. Len(w) : w[i] \in ts
         /\ \A i, j \in 1 .. Len(w) : w[i] = w[j] => i = j
         /\ \A t \in ts : \E i \in 1 .. Len(w) : w[i] = t
<1>1. PICK n \in 0 .. Capacity : w \in [1 .. n -> Tasks]
  BY Zenon DEF SlotOrders
<1>2. n \in Nat
  BY CapacityAssumption
<1>3. w \in Seq(Tasks) /\ Len(w) = n /\ DOMAIN w = 1 .. n
  BY <1>1, <1>2
<1>4. /\ {w[i] : i \in DOMAIN w} = ts
      /\ \A i, j \in DOMAIN w : i < j => w[i] < w[j]
  BY Zenon DEF SlotOrders
<1>5. (\A i \in 1 .. n : w[i] \in ts) /\ \A t \in ts : \E i \in 1 .. n : w[i] = t
  BY <1>3, <1>4, Zenon
<1>6. ASSUME NEW i \in 1 .. n, NEW j \in 1 .. n, w[i] = w[j]
      PROVE  i = j
  <2>1. w[i] \in Int /\ w[j] \in Int
    BY <1>1, CapacityAssumption DEF Tasks
  <2>2. ~(i < j) /\ ~(j < i)
    BY <1>3, <1>4, <1>6, <2>1
  <2> QED
    BY <1>2, <2>2
<1> QED
  BY <1>3, <1>5, <1>6, Zenon

\* The states once the active task has completed and its joiners are ready.
Completed ==
  [t \in Tasks |-> IF t = active THEN "completed"
                   ELSE IF t \in Joiners(active) THEN "ready" ELSE state[t]]

\* The joiners follow the tasks that were ready before.
LEMMA JoinersFollow ==
  ASSUME TasksInv, Running, NEW woken \in SlotOrders(Joiners(active))
  PROVE  /\ Completed \in [Tasks -> States]
         /\ ready \o woken \in Seq(Tasks)
         /\ RingOK(Completed, ready \o woken)
<1> DEFINE J == Joiners(active)
           st == [t \in Tasks |-> IF t = active THEN "completed"
                                  ELSE IF t \in J THEN "ready" ELSE state[t]]
           q == ready \o woken
<1>1. /\ TasksTypeOK /\ Sound
      /\ active \in Tasks /\ state[active] = "running"
      /\ state \in [Tasks -> States] /\ ready \in Seq(Tasks)
  BY Zenon DEF TasksInv, Running, Sound, ActiveRuns, TasksTypeOK
<1>2. st = Completed
  BY Zenon DEF Completed
<1>3. J \in SUBSET Tasks /\ \A t \in J : state[t] = "join"
  BY Zenon DEF Joiners
<1>4. /\ woken \in Seq(Tasks)
      /\ \A i \in 1 .. Len(woken) : woken[i] \in J
      /\ \A i, j \in 1 .. Len(woken) : woken[i] = woken[j] => i = j
  <2>1. woken \in SlotOrders(J)
    BY Zenon
  <2> HIDE DEF J
  <2> QED
    BY <1>3, <2>1, SlotOrderFacts, Zenon
<1>5. st \in [Tasks -> States]
  BY <1>1, Zenon DEF States
<1>6. q \in Seq(Tasks) /\ Len(q) = Len(ready) + Len(woken)
  BY <1>1, <1>4
<1>7. RingOK(st, q)
  <2>1. RingOK(state, ready)
    BY <1>1, Zenon DEF Sound
  <2>2. \A i \in 1 .. Len(ready) : /\ ready[i] \in Tasks /\ state[ready[i]] = "ready"
                                   /\ ready[i] \notin J /\ st[ready[i]] = "ready"
    BY <1>1, <1>3, <2>1 DEF RingOK
  <2>3. \A i \in 1 .. Len(woken) : woken[i] \in J /\ st[woken[i]] = "ready"
    BY <1>1, <1>3, <1>4, Zenon
  <2>4. \A i \in 1 .. Len(q) :
          q[i] = IF i <= Len(ready) THEN ready[i] ELSE woken[i - Len(ready)]
    BY <1>1, <1>4
  <2>5. \A i \in 1 .. Len(q) :
          \/ i \in 1 .. Len(ready)
          \/ i - Len(ready) \in 1 .. Len(woken) /\ ~(i <= Len(ready))
    BY <1>1, <1>4, <1>6
  <2>6. Len(ready) \in Nat /\ Len(q) \in Nat /\ \A i \in 1 .. Len(q) : i \in Int
    BY <1>1, <1>6
  <2> HIDE DEF q, J, st
  <2>7. \A i \in 1 .. Len(q) : st[q[i]] = "ready"
    BY <2>2, <2>3, <2>4, <2>5, <2>6, SMTT(30)
  <2>8. ASSUME NEW i \in 1 .. Len(q), NEW j \in 1 .. Len(q), q[i] = q[j]
        PROVE  i = j
    <3>1. CASE i \in 1 .. Len(ready) /\ j \in 1 .. Len(ready)
      BY <2>1, <2>4, <2>8, <3>1 DEF RingOK
    <3>2. CASE i \in 1 .. Len(ready) /\ ~(j <= Len(ready))
      <4>1. q[i] = ready[i] /\ q[i] \notin J
        BY <2>2, <2>4, <2>6, <3>2
      <4>2. q[j] \in J
        BY <2>3, <2>4, <2>5, <2>6, <3>2
      <4> QED
        BY <2>8, <4>1, <4>2, Zenon
    <3>3. CASE ~(i <= Len(ready)) /\ j \in 1 .. Len(ready)
      <4>1. q[j] = ready[j] /\ q[j] \notin J
        BY <2>2, <2>4, <2>6, <3>3
      <4>2. q[i] \in J
        BY <2>3, <2>4, <2>5, <2>6, <3>3
      <4> QED
        BY <2>8, <4>1, <4>2, Zenon
    <3>4. CASE ~(i <= Len(ready)) /\ ~(j <= Len(ready))
      <4>1. i - Len(ready) \in 1 .. Len(woken) /\ j - Len(ready) \in 1 .. Len(woken)
        BY <2>5, <2>6, <3>4
      <4>2. woken[i - Len(ready)] = woken[j - Len(ready)]
        BY <2>4, <2>8, <3>4, Zenon
      <4>3. i - Len(ready) = j - Len(ready)
        BY <1>4, <4>1, <4>2, Zenon
      <4> QED
        BY <2>6, <4>3
    <3>5. /\ i \in 1 .. Len(ready) \/ ~(i <= Len(ready))
          /\ j \in 1 .. Len(ready) \/ ~(j <= Len(ready))
      BY <2>5, Zenon
    <3> QED
      BY <3>1, <3>2, <3>3, <3>4, <3>5, Zenon
  <2> QED
    BY <2>7, <2>8, Zenon DEF RingOK
<1> QED
  BY <1>2, <1>5, <1>6, <1>7, Zenon

LEMMA CompleteCurrentInv ==
  ASSUME TasksInv, CompleteCurrent
  PROVE  TasksInv'
<1>1. /\ Running /\ TasksTypeOK /\ Sound /\ life = "runnable"
      /\ active \in Tasks /\ state[active] = "running"
      /\ state \in [Tasks -> States] /\ ready \in Seq(Tasks)
      /\ on \in [Tasks -> 0 .. (Capacity + ChannelCount)]
  BY Zenon DEF TasksInv, CompleteCurrent, Running, Sound, ActiveRuns, TasksTypeOK
<1>2. PICK woken \in SlotOrders(Joiners(active)) :
        /\ ActivateNext(Completed, ready \o woken, Len(ready \o woken) <= Capacity)
        /\ on' = [t \in Tasks |-> IF t \in Joiners(active) THEN None ELSE on[t]]
        /\ UNCHANGED chanVars
  BY Zenon DEF CompleteCurrent, Completed
<1> DEFINE q == ready \o woken
<1>3. \A t \in Joiners(active) : state[t] = "join"
  BY Zenon DEF Joiners
<1>4. Completed \in [Tasks -> States] /\ q \in Seq(Tasks) /\ RingOK(Completed, q)
  BY <1>1, JoinersFollow, Zenon
<1>5. /\ life' \in {life, "corrupt"}
      /\ state' \in [Tasks -> States]
      /\ ready' \in Seq(Tasks)
      /\ active' \in Tasks \cup {None}
      /\ RingOK(state', ready')
      /\ active' # None => state'[active'] = "running"
      /\ active' = None => ready' = <<>>
      /\ \A t \in Tasks : Completed[t] # "ready" => state'[t] = Completed[t]
  <2>1. (Len(q) <= Capacity) \in BOOLEAN
    OBVIOUS
  <2>2. ActivateNext(Completed, q, Len(q) <= Capacity)
    BY <1>2, Zenon
  <2> HIDE DEF q
  <2> QED
    BY <1>1, <1>4, <2>1, <2>2, ActivateFacts, Zenon DEF Lives
<1>6. \A t \in Tasks : state[t] = "channel" => state'[t] = "channel" /\ on'[t] = on[t]
  BY <1>1, <1>2, <1>3, <1>5, Zenon DEF Completed
<1>7. on' \in [Tasks -> 0 .. (Capacity + ChannelCount)]
  BY <1>1, <1>2, CapacityAssumption, ChannelAssumption DEF None
<1>8. UNCHANGED chanVars /\ ActiveRuns'
  BY <1>2, <1>5, Zenon DEF ActiveRuns
<1> HIDE DEF q
<1> QED
  BY <1>1, <1>5, <1>6, <1>7, <1>8, SchedulerStep, Zenon

-----------------------------------------------------------------------------
(* Channels                                                                *)

\* What an instruction on channels starts from.
LEMMA RunningFacts ==
  ASSUME TasksInv, Running
  PROVE  /\ TasksTypeOK /\ Sound /\ life = "runnable" /\ life \in Lives
         /\ active \in Tasks /\ active # None /\ state[active] = "running"
         /\ WaitersWait /\ RoomOK /\ Awake /\ Delivery /\ RingOK(state, ready)
BY Zenon DEF TasksInv, Running, Sound, ActiveRuns, TasksTypeOK, Lives

\* The tasks on the lists are tasks, and none of them runs.
LEMMA ListedTasks ==
  ASSUME TasksTypeOK, NEW c \in Channels
  PROVE  /\ Len(senders[c]) \in Nat /\ Len(receivers[c]) \in Nat /\ Len(buf[c]) \in Nat
         /\ \A i \in 1 .. Len(senders[c]) : senders[c][i] \in Tasks
         /\ \A i \in 1 .. Len(receivers[c]) : receivers[c][i] \in Tasks
<1>1. /\ senders[c] \in Seq(Tasks) /\ receivers[c] \in Seq(Tasks) /\ buf[c] \in Seq(Nat)
  BY Zenon DEF TasksTypeOK
<1> QED
  BY <1>1

LEMMA ChannelCreateInv ==
  ASSUME TasksInv, NEW n \in Requested, ChannelCreate(n)
  PROVE  TasksInv'
<1>1. CASE Faulted
  BY <1>1, FaultedInv, Zenon
<1>2. CASE /\ n > 0 /\ opened < ChannelCount /\ used + n <= ValueCount
           /\ opened' = opened + 1
           /\ used' = used + n
           /\ start' = [start EXCEPT ![opened + 1] = used]
           /\ room' = [room EXCEPT ![opened + 1] = n]
           /\ UNCHANGED <<life, schedVars, buf, senders, receivers, kind, held,
                          sent, taken, inbox>>
  <2> DEFINE Typed == /\ n \in Nat /\ opened \in Nat /\ used \in Nat
                      /\ ChannelCount \in Nat /\ ValueCount \in Nat
                      /\ room \in [Channels -> Nat] /\ start \in [Channels -> Nat]
  <2>1. /\ TasksTypeOK /\ Sound /\ life = "runnable"
        /\ WaitersWait /\ RoomOK /\ Awake /\ Delivery
        /\ Typed
    <3>1. /\ TasksTypeOK /\ Sound /\ life = "runnable"
          /\ WaitersWait /\ RoomOK /\ Awake /\ Delivery
      BY RunningFacts, Zenon DEF ChannelCreate
    <3>2. Typed
      BY <3>1, ChannelAssumption DEF TasksTypeOK
    <3> QED
      BY <3>1, <3>2, Zenon
  <2>2. UNCHANGED <<life, state, on, ready, active, buf, senders, receivers, kind, held,
                    sent, taken, inbox>>
    BY <1>2, Zenon DEF schedVars
  <2>3. TasksTypeOK'
    <3>1. opened' \in 0 .. ChannelCount /\ used' \in 0 .. ValueCount
      BY <1>2, <2>1
    <3>2. room' \in [Channels -> Nat] /\ start' \in [Channels -> Nat]
      BY <1>2, <2>1, Zenon
    <3> QED
      BY <2>1, <2>2, <3>1, <3>2, Zenon DEF TasksTypeOK
  <2>4. ActiveRuns' /\ RingOK(state', ready') /\ WaitersWait' /\ Delivery'
    BY <2>1, <2>2 DEF Sound, ActiveRuns, RingOK, WaitersWait, Delivery
  <2>5. ASSUME NEW c \in Channels
        PROVE  /\ Len(buf[c]) <= room'[c]
               /\ Created(c)' <=> room'[c] > 0
               /\ receivers[c] # <<>> => buf[c] = <<>> /\ senders[c] = <<>>
               /\ senders[c] # <<>> => Len(buf[c]) = room'[c] /\ Created(c)'
    <3>1. c \in Nat /\ Len(buf[c]) \in Nat /\ room[c] \in Nat
      BY <2>1, ListedTasks DEF Channels
    <3>2. /\ Len(buf[c]) <= room[c]
          /\ c <= opened <=> room[c] > 0
          /\ receivers[c] # <<>> => buf[c] = <<>> /\ senders[c] = <<>>
          /\ senders[c] # <<>> => Len(buf[c]) = room[c] /\ c <= opened
      BY <2>1, Zenon DEF RoomOK, Awake, Created
    <3>3. CASE c = opened + 1
      BY <1>2, <2>1, <3>1, <3>2, <3>3, SMTT(30) DEF Created
    <3>4. CASE c # opened + 1
      BY <1>2, <2>1, <3>1, <3>2, <3>4 DEF Created
    <3> QED
      BY <3>3, <3>4, Zenon
  <2>6. RoomOK' /\ Awake'
    BY <2>2, <2>5, Zenon DEF RoomOK, Awake
  <2>7. Sound'
    BY <2>4, <2>6, Zenon DEF Sound
  <2> QED
    BY <2>1, <2>2, <2>3, <2>7, Zenon DEF TasksInv
<1> QED
  BY <1>1, <1>2, Zenon DEF ChannelCreate

\* What a step leaves of the scheduler, with its types.
Scheduled ==
  /\ life' \in {life, "corrupt"}
  /\ state' \in [Tasks -> States]
  /\ on' \in [Tasks -> 0 .. (Capacity + ChannelCount)]
  /\ ready' \in Seq(Tasks)
  /\ active' \in Tasks \cup {None}
  /\ kind' \in [Tasks -> {"none", "send", "receive"}]
  /\ ActiveRuns'
  /\ RingOK(state', ready')

\* No task but u is moved.
OnlyMoves(u) ==
  \A t \in Tasks \ {u} : state'[t] = state[t] /\ on'[t] = on[t] /\ kind'[t] = kind[t]

\* No task waiting for a channel is moved.
WaitersStay ==
  \A t \in Tasks : state[t] = "channel" =>
    /\ state'[t] = "channel" /\ on'[t] = on[t]
    /\ kind'[t] = kind[t] /\ held'[t] = held[t]

\* Channels other than c, and the tasks waiting for them, are left alone.
OnlyChannel(c) ==
  /\ opened' = opened
  /\ \A d \in Channels \ {c} :
       /\ room'[d] = room[d] /\ buf'[d] = buf[d] /\ senders'[d] = senders[d]
       /\ receivers'[d] = receivers[d] /\ sent'[d] = sent[d] /\ taken'[d] = taken[d]
  /\ \A t \in Tasks : state[t] = "channel" /\ on[t] # c =>
       /\ state'[t] = state[t] /\ on'[t] = on[t]
       /\ kind'[t] = kind[t] /\ held'[t] = held[t]

\* A waiting task becomes ready; every other task stays as it is.
LEMMA WakeFacts ==
  ASSUME TasksInv, Running, NEW u \in Tasks, NEW c, NEW what,
         state[u] = "channel", Wake(u, c, what)
  PROVE  Scheduled /\ OnlyMoves(u)
<1>1. /\ state \in [Tasks -> States] /\ ready \in Seq(Tasks)
      /\ on \in [Tasks -> 0 .. (Capacity + ChannelCount)]
      /\ kind \in [Tasks -> {"none", "send", "receive"}]
      /\ RingOK(state, ready) /\ active \in Tasks /\ active # None
      /\ state[active] = "running"
  BY RunningFacts, Zenon DEF TasksTypeOK
<1>2. /\ life' \in {life, "corrupt"}
      /\ kind' = [kind EXCEPT ![u] = "none"]
      /\ state' = [state EXCEPT ![u] = "ready"]
      /\ on' = [on EXCEPT ![u] = None]
      /\ ready' = Append(ready, u)
      /\ active' = active
  BY Zenon DEF Wake, Checked
<1>3. state' \in [Tasks -> States] /\ ready' \in Seq(Tasks) /\ RingOK(state', ready')
  BY <1>1, <1>2, AppendRing, Zenon
<1>4. on' \in [Tasks -> 0 .. (Capacity + ChannelCount)]
  BY <1>1, <1>2, CapacityAssumption, ChannelAssumption DEF None
<1>5. ActiveRuns'
  BY <1>1, <1>2, Zenon DEF ActiveRuns
<1>6. kind' \in [Tasks -> {"none", "send", "receive"}]
  BY <1>1, <1>2, Zenon
<1>7. OnlyMoves(u)
  BY <1>1, <1>2, Zenon DEF OnlyMoves
<1> QED
  BY <1>1, <1>2, <1>3, <1>4, <1>5, <1>6, <1>7, Zenon DEF Scheduled

\* The active task parks on a channel; no task waiting for a channel is moved.
LEMMA ParkFacts ==
  ASSUME TasksInv, Running, NEW c \in Channels, NEW value \in Nat,
         NEW what \in {"send", "receive"}, Park(what, value, c)
  PROVE  /\ Scheduled /\ WaitersStay /\ held' \in [Tasks -> Nat]
         /\ state'[active] = "channel" /\ on'[active] = c
         /\ kind'[active] = what /\ held'[active] = value
<1> DEFINE st == [state EXCEPT ![active] = "channel"]
<1>1. /\ state \in [Tasks -> States] /\ ready \in Seq(Tasks)
      /\ on \in [Tasks -> 0 .. (Capacity + ChannelCount)]
      /\ kind \in [Tasks -> {"none", "send", "receive"}]
      /\ held \in [Tasks -> Nat] /\ life \in Lives
      /\ RingOK(state, ready) /\ active \in Tasks /\ active # None
      /\ state[active] = "running"
  BY RunningFacts, Zenon DEF TasksTypeOK
<1>2. /\ kind' = [kind EXCEPT ![active] = what]
      /\ held' = [held EXCEPT ![active] = value]
      /\ on' = [on EXCEPT ![active] = c]
      /\ ActivateNext(st, ready, kind[active] = "none")
  BY Zenon DEF Park, Suspend
<1>3. st \in [Tasks -> States]
  BY <1>1, Zenon DEF States
<1>4. RingOK(st, ready)
  <2>1. \A i \in 1 .. Len(ready) : ready[i] \in Tasks /\ ready[i] # active
    BY <1>1 DEF RingOK
  <2> QED
    BY <1>1, <2>1, Zenon DEF RingOK
<1>5. /\ life' \in {life, "corrupt"}
      /\ state' \in [Tasks -> States]
      /\ ready' \in Seq(Tasks)
      /\ active' \in Tasks \cup {None}
      /\ RingOK(state', ready')
      /\ active' # None => state'[active'] = "running"
      /\ active' = None => ready' = <<>>
      /\ \A t \in Tasks : st[t] # "ready" => state'[t] = st[t]
  <2>1. (kind[active] = "none") \in BOOLEAN
    BY Zenon
  <2> HIDE DEF st
  <2> QED
    BY <1>1, <1>2, <1>3, <1>4, <2>1, ActivateFacts, Zenon
<1>6. on' \in [Tasks -> 0 .. (Capacity + ChannelCount)]
  BY <1>1, <1>2, CapacityAssumption, ChannelAssumption DEF Channels
<1>7. ActiveRuns'
  BY <1>5, Zenon DEF ActiveRuns
<1>8. kind' \in [Tasks -> {"none", "send", "receive"}] /\ held' \in [Tasks -> Nat]
  BY <1>1, <1>2, Zenon
<1>9. /\ state'[active] = "channel" /\ on'[active] = c
      /\ kind'[active] = what /\ held'[active] = value
  BY <1>1, <1>2, <1>5, Zenon
<1>10. WaitersStay
  BY <1>1, <1>2, <1>5, Zenon DEF WaitersStay
<1> HIDE DEF st
<1> QED
  BY <1>5, <1>6, <1>7, <1>8, <1>9, <1>10, Zenon DEF Scheduled

\* The invariants of one channel.
At(c) ==
  /\ \A i \in 1 .. Len(senders[c]) :
       /\ state[senders[c][i]] = "channel"
       /\ on[senders[c][i]] = c
       /\ kind[senders[c][i]] = "send"
       /\ held[senders[c][i]] = taken[c] + Len(buf[c]) + i
  /\ \A i \in 1 .. Len(receivers[c]) :
       /\ state[receivers[c][i]] = "channel"
       /\ on[receivers[c][i]] = c
       /\ kind[receivers[c][i]] = "receive"
       /\ held[receivers[c][i]] = taken[c] + i
  /\ Len(buf[c]) <= room[c]
  /\ Created(c) <=> room[c] > 0
  /\ receivers[c] # <<>> => buf[c] = <<>> /\ senders[c] = <<>>
  /\ senders[c] # <<>> => Len(buf[c]) = room[c] /\ Created(c)
  /\ \A i \in 1 .. Len(buf[c]) : buf[c][i] = taken[c] + i
  /\ sent[c] = taken[c] + Len(buf[c]) + Len(senders[c])

Received == \A t \in Tasks : inbox[t][1] = inbox[t][2]

LEMMA ByChannel ==
  (WaitersWait /\ RoomOK /\ Awake /\ Delivery) <=> ((\A c \in Channels : At(c)) /\ Received)
BY SMTT(30) DEF WaitersWait, RoomOK, Awake, Delivery, At, Received

\* A channel the step is not about keeps its invariants.
LEMMA OtherChannel ==
  ASSUME TasksTypeOK, NEW d \in Channels, At(d), opened' = opened,
         room'[d] = room[d], buf'[d] = buf[d], senders'[d] = senders[d],
         receivers'[d] = receivers[d], sent'[d] = sent[d], taken'[d] = taken[d],
         \A t \in Tasks : state[t] = "channel" /\ on[t] = d =>
           /\ state'[t] = state[t] /\ on'[t] = on[t]
           /\ kind'[t] = kind[t] /\ held'[t] = held[t]
  PROVE  At(d)'
<1>1. /\ \A i \in 1 .. Len(senders[d]) : senders[d][i] \in Tasks
      /\ \A i \in 1 .. Len(receivers[d]) : receivers[d][i] \in Tasks
  BY ListedTasks, ZenonT(40)
<1>2. \A i \in 1 .. Len(senders[d]) :
        /\ state'[senders[d][i]] = "channel"
        /\ on'[senders[d][i]] = d
        /\ kind'[senders[d][i]] = "send"
        /\ held'[senders[d][i]] = taken[d] + Len(buf[d]) + i
  BY <1>1, SMTT(30) DEF At
<1>3. \A i \in 1 .. Len(receivers[d]) :
        /\ state'[receivers[d][i]] = "channel"
        /\ on'[receivers[d][i]] = d
        /\ kind'[receivers[d][i]] = "receive"
        /\ held'[receivers[d][i]] = taken[d] + i
  BY <1>1 DEF At
<1> QED
  BY <1>2, <1>3 DEF At, Created

\* What a step on one channel has to show.
LEMMA ChannelStep ==
  ASSUME TasksInv, Running, NEW c \in Channels, TasksTypeOK', Scheduled, OnlyChannel(c),
         At(c)', Received'
  PROVE  TasksInv'
<1>1. TasksTypeOK /\ \A d \in Channels : At(d)
  BY RunningFacts, ByChannel, Zenon
<1>2. \A d \in Channels : At(d)'
  <2> TAKE d \in Channels
  <2>1. CASE d = c
    BY <2>1, Zenon
  <2>2. CASE d # c
    <3>1. \A t \in Tasks : state[t] = "channel" /\ on[t] = d =>
            /\ state'[t] = state[t] /\ on'[t] = on[t]
            /\ kind'[t] = kind[t] /\ held'[t] = held[t]
      BY <2>2, Zenon DEF OnlyChannel
    <3>2. /\ opened' = opened /\ room'[d] = room[d] /\ buf'[d] = buf[d]
          /\ senders'[d] = senders[d] /\ receivers'[d] = receivers[d]
          /\ sent'[d] = sent[d] /\ taken'[d] = taken[d]
      BY <2>2, Zenon DEF OnlyChannel
    <3> QED
      BY <1>1, <3>1, <3>2, OtherChannel, Zenon
  <2> QED
    BY <2>1, <2>2, Zenon
<1>3. WaitersWait' /\ RoomOK' /\ Awake' /\ Delivery'
  BY <1>2 DEF WaitersWait, RoomOK, Awake, Delivery, At, Received
<1> QED
  BY <1>3, RunningFacts, Zenon DEF TasksInv, Sound, Scheduled

\* What is known of the channel a step is about.
LEMMA ChannelFacts ==
  ASSUME TasksInv, Running, NEW c \in Channels
  PROVE  /\ At(c) /\ Received
         /\ c \in Nat /\ taken[c] \in Nat /\ sent[c] \in Nat /\ room[c] \in Nat
         /\ senders[c] \in Seq(Tasks) /\ receivers[c] \in Seq(Tasks)
         /\ buf[c] \in Seq(Nat)
         /\ Len(senders[c]) \in Nat /\ Len(receivers[c]) \in Nat /\ Len(buf[c]) \in Nat
<1>1. TasksTypeOK /\ (\A d \in Channels : At(d)) /\ Received
  BY RunningFacts, ByChannel, Zenon
<1>2. c \in Nat
  BY DEF Channels
<1> QED
  BY <1>1, <1>2, ListedTasks, Zenon DEF TasksTypeOK

\* Counting.
LEMMA CountUp ==
  ASSUME NEW f \in [Channels -> Nat], NEW c \in Channels
  PROVE  [f EXCEPT ![c] = @ + 1] \in [Channels -> Nat]
OBVIOUS

LEMMA Shift ==
  ASSUME NEW x \in Nat, NEW n \in Nat, NEW i \in Nat
  PROVE  /\ x + (i + 1) = (x + 1) + i
         /\ x + n + (i + 1) = (x + 1) + n + i
OBVIOUS

\* The tail of a list that is not empty.
LEMMA TailFacts ==
  ASSUME NEW S, NEW q \in Seq(S), q # <<>>
  PROVE  /\ Head(q) = q[1] /\ Head(q) \in S /\ Len(q) \in Nat /\ Len(q) > 0
         /\ Tail(q) \in Seq(S) /\ Len(Tail(q)) = Len(q) - 1
         /\ \A i \in 1 .. Len(Tail(q)) :
              i + 1 \in 1 .. Len(q) /\ Tail(q)[i] = q[i + 1] /\ q[i + 1] \in S
OBVIOUS

LEMMA SendToReceiverInv ==
  ASSUME TasksInv, Running, NEW c \in Channels, SendToReceiver(c)
  PROVE  TasksInv'
<1> DEFINE u == Head(receivers[c])
<1>1. /\ At(c) /\ Received /\ taken[c] \in Nat /\ sent[c] \in Nat
      /\ receivers[c] \in Seq(Tasks) /\ receivers[c] # <<>>
  BY ChannelFacts, Zenon DEF SendToReceiver
<1>2. TasksTypeOK /\ active \in Tasks
  BY RunningFacts, Zenon
<1>3. /\ u = receivers[c][1] /\ u \in Tasks
      /\ Len(receivers[c]) \in Nat /\ Len(receivers[c]) > 0
      /\ Tail(receivers[c]) \in Seq(Tasks)
      /\ \A i \in 1 .. Len(Tail(receivers[c])) :
           /\ i + 1 \in 1 .. Len(receivers[c])
           /\ Tail(receivers[c])[i] = receivers[c][i + 1]
           /\ receivers[c][i + 1] \in Tasks
  BY <1>1, TailFacts, ZenonT(40)
<1>4. /\ state[u] = "channel" /\ on[u] = c /\ held[u] = taken[c] + 1
      /\ buf[c] = <<>> /\ senders[c] = <<>> /\ sent[c] = taken[c]
  BY <1>1, <1>3 DEF At
<1>5. /\ Wake(u, c, "receive")
      /\ inbox' = [inbox EXCEPT ![u] = <<held[u], sent[c] + 1>>]
      /\ receivers' = [receivers EXCEPT ![c] = Tail(@)]
      /\ sent' = [sent EXCEPT ![c] = @ + 1]
      /\ taken' = [taken EXCEPT ![c] = @ + 1]
      /\ UNCHANGED <<opened, used, start, room, buf, senders, held>>
  BY Zenon DEF SendToReceiver
<1> HIDE DEF u
<1>6. Scheduled /\ OnlyMoves(u)
  BY <1>3, <1>4, <1>5, WakeFacts, Zenon
<1>7. TasksTypeOK'
  <2>1. receivers' \in [Channels -> Seq(Tasks)]
    BY <1>2, <1>3, <1>5, Zenon DEF TasksTypeOK
  <2>2. sent' \in [Channels -> Nat] /\ taken' \in [Channels -> Nat]
    BY <1>2, <1>5, CountUp, ZenonT(40) DEF TasksTypeOK
  <2>3. <<held[u], sent[c] + 1>> \in Nat \X Nat
    BY <1>1, <1>4
  <2>4. inbox' \in [Tasks -> Nat \X Nat]
    BY <1>2, <1>3, <1>5, <2>3, Zenon DEF TasksTypeOK
  <2> QED
    BY <1>2, <1>5, <1>6, <2>1, <2>2, <2>4, Zenon DEF TasksTypeOK, Scheduled
<1>8. At(c)'
  <2>1. /\ receivers'[c] = Tail(receivers[c]) /\ senders'[c] = <<>> /\ buf'[c] = <<>>
        /\ taken'[c] = taken[c] + 1 /\ sent'[c] = sent[c] + 1 /\ room'[c] = room[c]
        /\ (Created(c)' <=> Created(c))
    BY <1>2, <1>4, <1>5, Zenon DEF TasksTypeOK, Created
  <2>2. ASSUME NEW i \in 1 .. Len(Tail(receivers[c]))
        PROVE  /\ state'[receivers'[c][i]] = "channel"
               /\ on'[receivers'[c][i]] = c
               /\ kind'[receivers'[c][i]] = "receive"
               /\ held'[receivers'[c][i]] = taken'[c] + i
    <3> DEFINE r == receivers[c][i + 1]
    <3>1. /\ r \in Tasks /\ state[r] = "channel" /\ on[r] = c /\ kind[r] = "receive"
          /\ held[r] = taken[c] + (i + 1)
      BY <1>1, <1>3, <2>2, Zenon DEF At
    <3>2. r # u
      BY <1>1, <1>4, <3>1
    <3>3. receivers'[c][i] = r
      BY <1>3, <2>1, <2>2, Zenon
    <3> HIDE DEF r
    <3>4. state'[r] = "channel" /\ on'[r] = c /\ kind'[r] = "receive"
      BY <1>6, <3>1, <3>2, Zenon DEF OnlyMoves
    <3>5. i \in Nat /\ taken[c] + (i + 1) = (taken[c] + 1) + i
      BY <1>1, <1>3, <2>2, SMTT(30)
    <3>6. held'[r] = taken'[c] + i
      BY <1>5, <2>1, <3>1, <3>5, Zenon
    <3> QED
      BY <3>3, <3>4, <3>6, Zenon
  <2>3. \A i \in 1 .. Len(receivers'[c]) :
          /\ state'[receivers'[c][i]] = "channel"
          /\ on'[receivers'[c][i]] = c
          /\ kind'[receivers'[c][i]] = "receive"
          /\ held'[receivers'[c][i]] = taken'[c] + i
    BY <2>1, <2>2, Zenon
  <2>4. Len(buf'[c]) = 0 /\ Len(senders'[c]) = 0
    BY <2>1, Zenon
  <2>5. /\ Len(buf'[c]) <= room'[c]
        /\ Created(c)' <=> room'[c] > 0
        /\ sent'[c] = taken'[c] + Len(buf'[c]) + Len(senders'[c])
    BY <1>1, <1>4, <2>1, <2>4 DEF At
  <2>6. 1 .. Len(buf'[c]) = {} /\ 1 .. Len(senders'[c]) = {}
    BY <2>4
  <2>7. (receivers'[c] # <<>> => buf'[c] = <<>> /\ senders'[c] = <<>>) /\ senders'[c] = <<>>
    BY <2>1, Zenon
  <2> QED
    BY <2>3, <2>5, <2>6, <2>7, Zenon DEF At
<1>9. Received'
  BY <1>1, <1>2, <1>3, <1>4, <1>5, Zenon DEF Received, TasksTypeOK
<1>10. OnlyChannel(c)
  <2>1. /\ \A d \in Channels \ {c} : receivers'[d] = receivers[d] /\ sent'[d] = sent[d]
        /\ \A d \in Channels \ {c} : taken'[d] = taken[d]
    BY <1>2, <1>5, Zenon DEF TasksTypeOK
  <2>2. \A t \in Tasks : state[t] = "channel" /\ on[t] # c =>
          state'[t] = state[t] /\ on'[t] = on[t] /\ kind'[t] = kind[t]
    BY <1>4, <1>6, Zenon DEF OnlyMoves
  <2> QED
    BY <1>5, <2>1, <2>2, Zenon DEF OnlyChannel
<1> QED
  BY <1>6, <1>7, <1>8, <1>9, <1>10, ChannelStep, Zenon

LEMMA SendToBufferInv ==
  ASSUME TasksInv, Running, NEW c \in Channels, SendToBuffer(c)
  PROVE  TasksInv'
<1>1. /\ At(c) /\ Received /\ taken[c] \in Nat /\ sent[c] \in Nat /\ room[c] \in Nat
      /\ buf[c] \in Seq(Nat) /\ Len(buf[c]) \in Nat
      /\ receivers[c] = <<>> /\ Len(buf[c]) < room[c]
  BY ChannelFacts, Zenon DEF SendToBuffer
<1>2. TasksTypeOK /\ ActiveRuns /\ RingOK(state, ready)
  BY RunningFacts, Zenon DEF Sound
<1>3. /\ buf' = [buf EXCEPT ![c] = Append(@, sent[c] + 1)]
      /\ sent' = [sent EXCEPT ![c] = @ + 1]
      /\ UNCHANGED <<life, state, on, ready, active, opened, used, start, room, senders,
                     receivers, kind, held, taken, inbox>>
  BY Zenon DEF SendToBuffer, schedVars
<1>4. senders[c] = <<>> /\ sent[c] = taken[c] + Len(buf[c])
  BY <1>1 DEF At
<1>5. TasksTypeOK'
  <2>1. Append(buf[c], sent[c] + 1) \in Seq(Nat)
    BY <1>1
  <2>2. buf' \in [Channels -> Seq(Nat)]
    BY <1>2, <1>3, <2>1, Zenon DEF TasksTypeOK
  <2>3. sent' \in [Channels -> Nat]
    BY <1>2, <1>3, CountUp, Zenon DEF TasksTypeOK
  <2> QED
    BY <1>2, <1>3, <2>2, <2>3, Zenon DEF TasksTypeOK
<1>6. At(c)'
  <2>1. /\ buf'[c] = Append(buf[c], sent[c] + 1) /\ sent'[c] = sent[c] + 1
        /\ taken'[c] = taken[c] /\ senders'[c] = <<>> /\ receivers'[c] = <<>>
        /\ room'[c] = room[c] /\ (Created(c)' <=> Created(c))
    BY <1>1, <1>2, <1>3, <1>4, Zenon DEF TasksTypeOK, Created
  <2>2. /\ Len(buf'[c]) = Len(buf[c]) + 1
        /\ \A i \in 1 .. Len(buf[c]) : buf'[c][i] = buf[c][i]
        /\ buf'[c][Len(buf[c]) + 1] = sent[c] + 1
    BY <1>1, <2>1
  <2>3. ASSUME NEW i \in 1 .. Len(buf'[c])
        PROVE  buf'[c][i] = taken'[c] + i
    <3>1. CASE i = Len(buf[c]) + 1
      BY <1>1, <1>4, <2>1, <2>2, <3>1, SMTT(30)
    <3>2. CASE i # Len(buf[c]) + 1
      <4>1. i \in 1 .. Len(buf[c])
        BY <1>1, <2>2, <2>3, <3>2
      <4> QED
        BY <1>1, <2>1, <2>2, <4>1, SMTT(30) DEF At
    <3> QED
      BY <3>1, <3>2, Zenon
  <2>4. Len(senders'[c]) = 0 /\ Len(receivers'[c]) = 0
    BY <2>1, Zenon
  <2>5. Len(buf'[c]) <= room'[c]
    BY <1>1, <1>4, <2>1, <2>2, SMTT(30) DEF At
  <2>6. Created(c)' <=> room'[c] > 0
    BY <1>1, <2>1, <2>2, SMTT(30) DEF At
  <2>7. sent'[c] = taken'[c] + Len(buf'[c]) + Len(senders'[c])
    BY <1>1, <1>4, <2>1, <2>2, <2>4, SMTT(30) DEF At
  <2> QED
    BY <2>1, <2>3, <2>4, <2>5, <2>6, <2>7 DEF At
<1>7. Received' /\ ActiveRuns' /\ RingOK(state', ready')
  BY <1>1, <1>2, <1>3 DEF Received, ActiveRuns, RingOK
<1>8. OnlyChannel(c)
  <2>1. \A d \in Channels \ {c} : buf'[d] = buf[d] /\ sent'[d] = sent[d]
    BY <1>2, <1>3, Zenon DEF TasksTypeOK
  <2> QED
    BY <1>3, <2>1, Zenon DEF OnlyChannel
<1>9. Scheduled
  BY <1>3, <1>5, <1>7, Zenon DEF Scheduled, TasksTypeOK
<1> QED
  BY <1>5, <1>6, <1>7, <1>8, <1>9, ChannelStep, Zenon

\* A list with one more element.
LEMMA AppendFacts ==
  ASSUME NEW S, NEW q \in Seq(S), NEW e \in S
  PROVE  /\ Append(q, e) \in Seq(S) /\ Append(q, e) # <<>>
         /\ Len(q) \in Nat /\ Len(Append(q, e)) = Len(q) + 1
         /\ Append(q, e)[Len(q) + 1] = e
         /\ \A i \in 1 .. Len(q) + 1 :
              \/ i = Len(q) + 1
              \/ /\ i \in 1 .. Len(q)
                 /\ Append(q, e)[i] = q[i] /\ q[i] \in S
<1>1. /\ Append(q, e) \in Seq(S) /\ Append(q, e) # <<>>
      /\ Len(q) \in Nat /\ Len(Append(q, e)) = Len(q) + 1
      /\ Append(q, e)[Len(q) + 1] = e
  OBVIOUS
<1>2. ASSUME NEW i \in 1 .. Len(q) + 1, i # Len(q) + 1
      PROVE  i \in 1 .. Len(q) /\ Append(q, e)[i] = q[i] /\ q[i] \in S
  <2>1. i \in 1 .. Len(q)
    BY <1>1, <1>2
  <2> QED
    BY <2>1
<1> QED
  BY <1>1, <1>2, Zenon

LEMMA SendParksInv ==
  ASSUME TasksInv, Running, NEW c \in Channels, Created(c), SendParks(c)
  PROVE  TasksInv'
<1>1. /\ At(c) /\ Received /\ taken[c] \in Nat /\ sent[c] \in Nat /\ room[c] \in Nat
      /\ senders[c] \in Seq(Tasks) /\ Len(senders[c]) \in Nat /\ Len(buf[c]) \in Nat
      /\ receivers[c] = <<>> /\ Len(buf[c]) >= room[c]
  BY ChannelFacts, Zenon DEF SendParks
<1>2. TasksTypeOK /\ active \in Tasks
  BY RunningFacts, Zenon
<1>3. /\ Park("send", sent[c] + 1, c)
      /\ senders' = [senders EXCEPT ![c] = Append(@, active)]
      /\ sent' = [sent EXCEPT ![c] = @ + 1]
      /\ UNCHANGED <<opened, used, start, room, buf, receivers, taken, inbox>>
  BY Zenon DEF SendParks
<1>4. /\ Len(buf[c]) = room[c]
      /\ sent[c] = taken[c] + Len(buf[c]) + Len(senders[c])
  BY <1>1 DEF At
<1>5. /\ Scheduled /\ WaitersStay /\ held' \in [Tasks -> Nat]
      /\ state'[active] = "channel" /\ on'[active] = c
      /\ kind'[active] = "send" /\ held'[active] = sent[c] + 1
  <2>1. sent[c] + 1 \in Nat
    BY <1>1
  <2> QED
    BY <1>3, <2>1, ParkFacts, Zenon
<1>6. /\ Append(senders[c], active) \in Seq(Tasks)
      /\ Len(Append(senders[c], active)) = Len(senders[c]) + 1
      /\ Append(senders[c], active)[Len(senders[c]) + 1] = active
      /\ \A i \in 1 .. Len(senders[c]) + 1 :
           \/ i = Len(senders[c]) + 1
           \/ /\ i \in 1 .. Len(senders[c]) /\ Append(senders[c], active)[i] = senders[c][i]
              /\ senders[c][i] \in Tasks
  BY <1>1, <1>2, AppendFacts
<1>7. TasksTypeOK'
  <2>1. senders' \in [Channels -> Seq(Tasks)]
    BY <1>2, <1>3, <1>6, Zenon DEF TasksTypeOK
  <2>2. sent' \in [Channels -> Nat]
    BY <1>2, <1>3, CountUp, Zenon DEF TasksTypeOK
  <2> QED
    BY <1>2, <1>3, <1>5, <2>1, <2>2, Zenon DEF TasksTypeOK, Scheduled
<1>8. At(c)'
  <2>1. /\ senders'[c] = Append(senders[c], active) /\ sent'[c] = sent[c] + 1
        /\ receivers'[c] = <<>> /\ buf'[c] = buf[c] /\ taken'[c] = taken[c]
        /\ room'[c] = room[c] /\ (Created(c)' <=> Created(c))
    BY <1>1, <1>2, <1>3, Zenon DEF TasksTypeOK, Created
  <2>2. ASSUME NEW i \in 1 .. Len(senders[c]) + 1
        PROVE  /\ state'[senders'[c][i]] = "channel"
               /\ on'[senders'[c][i]] = c
               /\ kind'[senders'[c][i]] = "send"
               /\ held'[senders'[c][i]] = taken[c] + Len(buf[c]) + i
    <3>1. CASE i = Len(senders[c]) + 1
      <4>1. senders'[c][i] = active
        BY <1>6, <2>1, <3>1, Zenon
      <4>2. sent[c] + 1 = taken[c] + Len(buf[c]) + (Len(senders[c]) + 1)
        BY <1>1, <1>4, SMTT(30)
      <4>3. /\ state'[active] = "channel" /\ on'[active] = c /\ kind'[active] = "send"
            /\ held'[active] = sent[c] + 1
        BY <1>5, Zenon
      <4> QED
        BY <3>1, <4>1, <4>2, <4>3, Zenon
    <3>2. CASE i # Len(senders[c]) + 1
      <4>1. /\ i \in 1 .. Len(senders[c]) /\ senders'[c][i] = senders[c][i]
            /\ senders[c][i] \in Tasks
        BY <1>6, <2>1, <2>2, <3>2, Zenon
      <4>2. /\ state[senders[c][i]] = "channel" /\ on[senders[c][i]] = c
            /\ kind[senders[c][i]] = "send"
            /\ held[senders[c][i]] = taken[c] + Len(buf[c]) + i
        BY <1>1, <4>1, Zenon DEF At
      <4> QED
        BY <1>5, <4>1, <4>2 DEF WaitersStay
    <3> QED
      BY <3>1, <3>2, Zenon
  <2>3. \A i \in 1 .. Len(senders'[c]) :
          /\ state'[senders'[c][i]] = "channel"
          /\ on'[senders'[c][i]] = c
          /\ kind'[senders'[c][i]] = "send"
          /\ held'[senders'[c][i]] = taken'[c] + Len(buf'[c]) + i
    BY <1>6, <2>1, <2>2, Zenon
  <2>4. /\ Len(buf'[c]) <= room'[c]
        /\ Created(c)' <=> room'[c] > 0
        /\ Len(buf'[c]) = room'[c] /\ Created(c)'
        /\ \A i \in 1 .. Len(buf'[c]) : buf'[c][i] = taken'[c] + i
    BY <1>1, <1>4, <2>1, ZenonT(40) DEF At
  <2>5. sent'[c] = taken'[c] + Len(buf'[c]) + Len(senders'[c])
    BY <1>1, <1>4, <1>6, <2>1, SMTT(30)
  <2>6. 1 .. Len(receivers'[c]) = {} /\ receivers'[c] = <<>>
    BY <2>1
  <2> QED
    BY <2>3, <2>4, <2>5, <2>6, Zenon DEF At
<1>9. Received'
  BY <1>1, <1>3, Zenon DEF Received
<1>10. OnlyChannel(c)
  <2>1. \A d \in Channels \ {c} : senders'[d] = senders[d] /\ sent'[d] = sent[d]
    BY <1>2, <1>3, Zenon DEF TasksTypeOK
  <2> QED
    BY <1>3, <1>5, <2>1, Zenon DEF OnlyChannel, WaitersStay
<1> QED
  BY <1>5, <1>7, <1>8, <1>9, <1>10, ChannelStep, Zenon

LEMMA ReceiveParksInv ==
  ASSUME TasksInv, Running, NEW c \in Channels, Created(c), ReceiveParks(c)
  PROVE  TasksInv'
<1> DEFINE number == taken[c] + Len(receivers[c]) + 1
<1>1. /\ At(c) /\ Received /\ taken[c] \in Nat /\ sent[c] \in Nat /\ room[c] \in Nat
      /\ receivers[c] \in Seq(Tasks) /\ Len(receivers[c]) \in Nat
      /\ buf[c] = <<>> /\ Len(buf[c]) = 0
  BY ChannelFacts, Zenon DEF ReceiveParks
<1>2. TasksTypeOK /\ active \in Tasks
  BY RunningFacts, Zenon
<1>3. /\ Park("receive", number, c)
      /\ receivers' = [receivers EXCEPT ![c] = Append(@, active)]
      /\ UNCHANGED <<opened, used, start, room, buf, senders, sent, taken, inbox>>
  BY Zenon DEF ReceiveParks
<1>4. senders[c] = <<>>
  BY <1>1 DEF At
<1>5. /\ Scheduled /\ WaitersStay /\ held' \in [Tasks -> Nat]
      /\ state'[active] = "channel" /\ on'[active] = c
      /\ kind'[active] = "receive" /\ held'[active] = number
  <2>1. number \in Nat
    BY <1>1
  <2> HIDE DEF number
  <2> QED
    BY <1>3, <2>1, ParkFacts, Zenon
<1>6. /\ Append(receivers[c], active) \in Seq(Tasks)
      /\ Len(Append(receivers[c], active)) = Len(receivers[c]) + 1
      /\ Append(receivers[c], active)[Len(receivers[c]) + 1] = active
      /\ \A i \in 1 .. Len(receivers[c]) + 1 :
           \/ i = Len(receivers[c]) + 1
           \/ /\ i \in 1 .. Len(receivers[c])
              /\ Append(receivers[c], active)[i] = receivers[c][i]
              /\ receivers[c][i] \in Tasks
  BY <1>1, <1>2, AppendFacts
<1>7. TasksTypeOK'
  <2>1. receivers' \in [Channels -> Seq(Tasks)]
    BY <1>2, <1>3, <1>6, Zenon DEF TasksTypeOK
  <2> QED
    BY <1>2, <1>3, <1>5, <2>1, Zenon DEF TasksTypeOK, Scheduled
<1>8. At(c)'
  <2>1. /\ receivers'[c] = Append(receivers[c], active) /\ sent'[c] = sent[c]
        /\ senders'[c] = <<>> /\ buf'[c] = <<>> /\ taken'[c] = taken[c]
        /\ room'[c] = room[c] /\ (Created(c)' <=> Created(c))
    BY <1>1, <1>2, <1>3, <1>4, Zenon DEF TasksTypeOK, Created
  <2>2. ASSUME NEW i \in 1 .. Len(receivers[c]) + 1
        PROVE  /\ state'[receivers'[c][i]] = "channel"
               /\ on'[receivers'[c][i]] = c
               /\ kind'[receivers'[c][i]] = "receive"
               /\ held'[receivers'[c][i]] = taken[c] + i
    <3>1. CASE i = Len(receivers[c]) + 1
      <4>1. receivers'[c][i] = active
        BY <1>6, <2>1, <3>1, Zenon
      <4>2. number = taken[c] + i
        BY <1>1, <3>1, SMTT(30)
      <4> QED
        BY <1>5, <4>1, <4>2, Zenon
    <3>2. CASE i # Len(receivers[c]) + 1
      <4>1. /\ i \in 1 .. Len(receivers[c]) /\ receivers'[c][i] = receivers[c][i]
            /\ receivers[c][i] \in Tasks
        BY <1>6, <2>1, <2>2, <3>2, Zenon
      <4>2. /\ state[receivers[c][i]] = "channel" /\ on[receivers[c][i]] = c
            /\ kind[receivers[c][i]] = "receive"
            /\ held[receivers[c][i]] = taken[c] + i
        BY <1>1, <4>1, Zenon DEF At
      <4> QED
        BY <1>5, <4>1, <4>2 DEF WaitersStay
    <3> QED
      BY <3>1, <3>2, Zenon
  <2>3. \A i \in 1 .. Len(receivers'[c]) :
          /\ state'[receivers'[c][i]] = "channel"
          /\ on'[receivers'[c][i]] = c
          /\ kind'[receivers'[c][i]] = "receive"
          /\ held'[receivers'[c][i]] = taken'[c] + i
    BY <1>6, <2>1, <2>2, Zenon
  <2>4. Len(buf'[c]) = 0 /\ Len(senders'[c]) = 0
    BY <2>1, Zenon
  <2>5. /\ Len(buf'[c]) <= room'[c]
        /\ Created(c)' <=> room'[c] > 0
        /\ sent'[c] = taken'[c] + Len(buf'[c]) + Len(senders'[c])
    BY <1>1, <1>4, <2>1, <2>4, Zenon DEF At
  <2>6. 1 .. Len(buf'[c]) = {} /\ 1 .. Len(senders'[c]) = {}
    BY <2>4
  <2> QED
    BY <2>1, <2>3, <2>5, <2>6, Zenon DEF At
<1>9. Received'
  BY <1>1, <1>3, Zenon DEF Received
<1>10. OnlyChannel(c)
  <2>1. \A d \in Channels \ {c} : receivers'[d] = receivers[d]
    BY <1>2, <1>3, Zenon DEF TasksTypeOK
  <2> QED
    BY <1>3, <1>5, <2>1, Zenon DEF OnlyChannel, WaitersStay
<1> QED
  BY <1>5, <1>7, <1>8, <1>9, <1>10, ChannelStep, Zenon

\* The task that receives obtains the number of its receive.
LEMMA TakenInOrder ==
  ASSUME TasksInv, Running, NEW c \in Channels, buf[c] # <<>>,
         inbox' = [inbox EXCEPT ![active] = <<taken[c] + 1, Head(buf[c])>>]
  PROVE  inbox' \in [Tasks -> Nat \X Nat] /\ Received'
<1>1. /\ At(c) /\ Received /\ taken[c] \in Nat /\ buf[c] \in Seq(Nat)
      /\ inbox \in [Tasks -> Nat \X Nat] /\ active \in Tasks
  BY ChannelFacts, RunningFacts, Zenon DEF TasksTypeOK
<1>2. Head(buf[c]) = taken[c] + 1 /\ Head(buf[c]) \in Nat
  <2>1. Head(buf[c]) = buf[c][1] /\ Head(buf[c]) \in Nat /\ 1 \in 1 .. Len(buf[c])
    BY <1>1, TailFacts, SMTT(30)
  <2> QED
    BY <1>1, <2>1, Zenon DEF At
<1>3. <<taken[c] + 1, Head(buf[c])>> \in Nat \X Nat
  BY <1>1, <1>2, Zenon
<1>4. inbox' \in [Tasks -> Nat \X Nat]
  BY <1>1, <1>3, Zenon
<1>5. Received'
  BY <1>1, <1>2, Zenon DEF Received
<1> QED
  BY <1>4, <1>5, Zenon

LEMMA ReceiveAloneInv ==
  ASSUME TasksInv, Running, NEW c \in Channels, ReceiveAlone(c)
  PROVE  TasksInv'
<1>1. /\ At(c) /\ taken[c] \in Nat /\ sent[c] \in Nat /\ room[c] \in Nat
      /\ buf[c] \in Seq(Nat) /\ buf[c] # <<>> /\ senders[c] = <<>>
  BY ChannelFacts, Zenon DEF ReceiveAlone
<1>2. TasksTypeOK /\ ActiveRuns /\ RingOK(state, ready) /\ active \in Tasks
  BY RunningFacts, Zenon DEF Sound
<1>3. /\ buf' = [buf EXCEPT ![c] = Tail(@)]
      /\ taken' = [taken EXCEPT ![c] = @ + 1]
      /\ inbox' = [inbox EXCEPT ![active] = <<taken[c] + 1, Head(buf[c])>>]
      /\ UNCHANGED <<life, state, on, ready, active, opened, used, start, room, senders,
                     receivers, kind, held, sent>>
  BY Zenon DEF ReceiveAlone, schedVars
<1>4. receivers[c] = <<>> /\ sent[c] = taken[c] + Len(buf[c])
  BY <1>1 DEF At
<1>5. /\ Len(buf[c]) \in Nat /\ Len(buf[c]) > 0
      /\ Tail(buf[c]) \in Seq(Nat) /\ Len(Tail(buf[c])) = Len(buf[c]) - 1
      /\ \A i \in 1 .. Len(Tail(buf[c])) :
           i + 1 \in 1 .. Len(buf[c]) /\ Tail(buf[c])[i] = buf[c][i + 1]
  BY <1>1, TailFacts, Zenon
<1>6. inbox' \in [Tasks -> Nat \X Nat] /\ Received'
  BY <1>1, <1>3, TakenInOrder, Zenon
<1>7. TasksTypeOK'
  <2>1. buf' \in [Channels -> Seq(Nat)]
    BY <1>2, <1>3, <1>5, Zenon DEF TasksTypeOK
  <2>2. taken' \in [Channels -> Nat]
    BY <1>2, <1>3, CountUp, Zenon DEF TasksTypeOK
  <2> QED
    BY <1>2, <1>3, <1>6, <2>1, <2>2, Zenon DEF TasksTypeOK
<1>8. At(c)'
  <2>1. /\ buf'[c] = Tail(buf[c]) /\ taken'[c] = taken[c] + 1 /\ sent'[c] = sent[c]
        /\ senders'[c] = <<>> /\ receivers'[c] = <<>> /\ room'[c] = room[c]
        /\ (Created(c)' <=> Created(c))
    BY <1>1, <1>2, <1>3, <1>4, Zenon DEF TasksTypeOK, Created
  <2>2. ASSUME NEW i \in 1 .. Len(buf'[c])
        PROVE  buf'[c][i] = taken'[c] + i
    <3>1. /\ i \in Nat /\ i + 1 \in 1 .. Len(buf[c]) /\ buf'[c][i] = buf[c][i + 1]
      BY <1>5, <2>1, <2>2
    <3>2. buf[c][i + 1] = taken[c] + (i + 1)
      BY <1>1, <3>1, Zenon DEF At
    <3>3. taken[c] + (i + 1) = (taken[c] + 1) + i
      BY <1>1, <3>1, Shift, ZenonT(40)
    <3> QED
      BY <2>1, <3>1, <3>2, <3>3, ZenonT(40)
  <2>3. Len(senders'[c]) = 0 /\ Len(receivers'[c]) = 0 /\ Len(buf'[c]) = Len(buf[c]) - 1
    BY <1>5, <2>1, Zenon
  <2>4. /\ Len(buf'[c]) <= room'[c]
        /\ Created(c)' <=> room'[c] > 0
        /\ sent'[c] = taken'[c] + Len(buf'[c]) + Len(senders'[c])
    BY <1>1, <1>4, <1>5, <2>1, <2>3, SMTT(30) DEF At
  <2>5. 1 .. Len(senders'[c]) = {} /\ 1 .. Len(receivers'[c]) = {}
    BY <2>3
  <2> QED
    BY <2>1, <2>2, <2>4, <2>5, Zenon DEF At
<1>9. ActiveRuns' /\ RingOK(state', ready')
  BY <1>2, <1>3 DEF ActiveRuns, RingOK
<1>10. OnlyChannel(c)
  <2>1. \A d \in Channels \ {c} : buf'[d] = buf[d] /\ taken'[d] = taken[d]
    BY <1>2, <1>3, Zenon DEF TasksTypeOK
  <2> QED
    BY <1>3, <2>1, Zenon DEF OnlyChannel
<1>11. Scheduled
  BY <1>3, <1>7, <1>9, Zenon DEF Scheduled, TasksTypeOK
<1> QED
  BY <1>6, <1>7, <1>8, <1>10, <1>11, ChannelStep, Zenon

LEMMA ReceiveRefillInv ==
  ASSUME TasksInv, Running, NEW c \in Channels, ReceiveRefill(c)
  PROVE  TasksInv'
<1> DEFINE u == Head(senders[c])
           b == Append(Tail(buf[c]), held[u])
<1>1. /\ At(c) /\ taken[c] \in Nat /\ sent[c] \in Nat /\ room[c] \in Nat
      /\ senders[c] \in Seq(Tasks) /\ senders[c] # <<>>
      /\ buf[c] \in Seq(Nat) /\ buf[c] # <<>>
  BY ChannelFacts, Zenon DEF ReceiveRefill
<1>2. TasksTypeOK /\ active \in Tasks
  BY RunningFacts, Zenon
<1>3. /\ u = senders[c][1] /\ u \in Tasks
      /\ Len(senders[c]) \in Nat /\ Len(senders[c]) > 0
      /\ Tail(senders[c]) \in Seq(Tasks) /\ Len(Tail(senders[c])) = Len(senders[c]) - 1
      /\ \A i \in 1 .. Len(Tail(senders[c])) :
           /\ i + 1 \in 1 .. Len(senders[c])
           /\ Tail(senders[c])[i] = senders[c][i + 1]
           /\ senders[c][i + 1] \in Tasks
  BY <1>1, TailFacts, Zenon
<1>4. /\ Len(buf[c]) \in Nat /\ Len(buf[c]) > 0
      /\ Tail(buf[c]) \in Seq(Nat) /\ Len(Tail(buf[c])) = Len(buf[c]) - 1
      /\ \A i \in 1 .. Len(Tail(buf[c])) :
           i + 1 \in 1 .. Len(buf[c]) /\ Tail(buf[c])[i] = buf[c][i + 1]
  BY <1>1, TailFacts, ZenonT(40)
<1>5. /\ state[u] = "channel" /\ on[u] = c /\ held[u] = taken[c] + Len(buf[c]) + 1
      /\ Len(buf[c]) = room[c] /\ Created(c) /\ receivers[c] = <<>>
      /\ sent[c] = taken[c] + Len(buf[c]) + Len(senders[c])
  <2>1. 1 \in 1 .. Len(senders[c])
    BY <1>3
  <2> HIDE DEF u
  <2> QED
    BY <1>1, <1>3, <2>1, Zenon DEF At
<1>6. /\ Wake(u, c, "send")
      /\ buf' = [buf EXCEPT ![c] = b]
      /\ senders' = [senders EXCEPT ![c] = Tail(@)]
      /\ taken' = [taken EXCEPT ![c] = @ + 1]
      /\ inbox' = [inbox EXCEPT ![active] = <<taken[c] + 1, Head(buf[c])>>]
      /\ UNCHANGED <<opened, used, start, room, receivers, held, sent>>
  BY Zenon DEF ReceiveRefill
<1>7. held[u] \in Nat
  BY <1>2, <1>3, Zenon DEF TasksTypeOK
<1>8. /\ b \in Seq(Nat) /\ Len(b) = Len(buf[c]) /\ b[Len(buf[c])] = held[u]
      /\ \A i \in 1 .. Len(buf[c]) :
           i = Len(buf[c]) \/ (i + 1 \in 1 .. Len(buf[c]) /\ b[i] = buf[c][i + 1])
  <2>1. /\ b \in Seq(Nat) /\ Len(b) = Len(Tail(buf[c])) + 1
        /\ b[Len(Tail(buf[c])) + 1] = held[u]
        /\ \A i \in 1 .. Len(Tail(buf[c])) + 1 :
             \/ i = Len(Tail(buf[c])) + 1
             \/ /\ i \in 1 .. Len(Tail(buf[c]))
                /\ b[i] = Tail(buf[c])[i] /\ Tail(buf[c])[i] \in Nat
    <3>1. Tail(buf[c]) \in Seq(Nat)
      BY <1>4, Zenon
    <3> HIDE DEF u
    <3> QED
      BY <3>1, <1>7, AppendFacts, SMTT(30)
  <2>2. Len(Tail(buf[c])) + 1 = Len(buf[c])
    BY <1>4
  <2> HIDE DEF b
  <2> QED
    BY <1>4, <2>1, <2>2, ZenonT(40)
<1> HIDE DEF u, b
<1>9. Scheduled /\ OnlyMoves(u)
  BY <1>3, <1>5, <1>6, WakeFacts, Zenon
<1>10. inbox' \in [Tasks -> Nat \X Nat] /\ Received'
  BY <1>1, <1>6, TakenInOrder, Zenon
<1>11. TasksTypeOK'
  <2>1. senders' \in [Channels -> Seq(Tasks)]
    BY <1>2, <1>3, <1>6, Zenon DEF TasksTypeOK
  <2>2. buf' \in [Channels -> Seq(Nat)]
    BY <1>2, <1>6, <1>8, Zenon DEF TasksTypeOK
  <2>3. taken' \in [Channels -> Nat]
    BY <1>2, <1>6, CountUp, Zenon DEF TasksTypeOK
  <2> QED
    BY <1>2, <1>6, <1>9, <1>10, <2>1, <2>2, <2>3, Zenon DEF TasksTypeOK, Scheduled
<1>12. At(c)'
  <2>1. /\ senders'[c] = Tail(senders[c]) /\ receivers'[c] = <<>> /\ buf'[c] = b
        /\ taken'[c] = taken[c] + 1 /\ sent'[c] = sent[c] /\ room'[c] = room[c]
        /\ (Created(c)' <=> Created(c))
    BY <1>2, <1>5, <1>6, Zenon DEF TasksTypeOK, Created
  <2>2. ASSUME NEW i \in 1 .. Len(Tail(senders[c]))
        PROVE  /\ state'[senders'[c][i]] = "channel"
               /\ on'[senders'[c][i]] = c
               /\ kind'[senders'[c][i]] = "send"
               /\ held'[senders'[c][i]] = taken'[c] + Len(buf'[c]) + i
    <3> DEFINE r == senders[c][i + 1]
    <3>1. /\ r \in Tasks /\ state[r] = "channel" /\ on[r] = c /\ kind[r] = "send"
          /\ held[r] = taken[c] + Len(buf[c]) + (i + 1)
      BY <1>1, <1>3, <2>2, Zenon DEF At
    <3>2. senders'[c][i] = r
      BY <1>3, <2>1, <2>2, Zenon
    <3> HIDE DEF r
    <3>3. i \in Nat /\ i > 0
      BY <1>3, <2>2
    <3>4. r # u
      <4>1. taken[c] + Len(buf[c]) + (i + 1) # taken[c] + Len(buf[c]) + 1
        BY <1>1, <1>4, <3>3
      <4> QED
        BY <1>5, <3>1, <4>1, Zenon
    <3>5. state'[r] = "channel" /\ on'[r] = c /\ kind'[r] = "send"
      BY <1>9, <3>1, <3>4, Zenon DEF OnlyMoves
    <3>6. taken[c] + Len(buf[c]) + (i + 1) = (taken[c] + 1) + Len(buf[c]) + i
      BY <1>1, <1>4, <3>3, Shift, ZenonT(40)
    <3>7. held'[r] = taken'[c] + Len(buf'[c]) + i
      BY <1>6, <1>8, <2>1, <3>1, <3>6, Zenon
    <3> QED
      BY <3>2, <3>5, <3>7, Zenon
  <2>3. \A i \in 1 .. Len(senders'[c]) :
          /\ state'[senders'[c][i]] = "channel"
          /\ on'[senders'[c][i]] = c
          /\ kind'[senders'[c][i]] = "send"
          /\ held'[senders'[c][i]] = taken'[c] + Len(buf'[c]) + i
    BY <2>1, <2>2, Zenon
  <2>4. ASSUME NEW i \in 1 .. Len(b)
        PROVE  b[i] = taken'[c] + i
    <3>1. CASE i = Len(buf[c])
      <4>1. taken[c] + Len(buf[c]) + 1 = (taken[c] + 1) + Len(buf[c])
        BY <1>1, <1>4, SMTT(30)
      <4> QED
        BY <1>5, <1>8, <2>1, <3>1, <4>1, Zenon
    <3>2. CASE i # Len(buf[c])
      <4>a. i \in 1 .. Len(buf[c])
        BY <1>8, <2>4, Zenon
      <4>b. i + 1 \in 1 .. Len(buf[c]) /\ i \in Nat /\ i < Len(buf[c])
        BY <1>4, <3>2, <4>a, SMTT(30)
      <4>c. b[i] = buf[c][i + 1]
        BY <1>8, <4>a, <4>b, <3>2, Zenon
      <4>1. i + 1 \in 1 .. Len(buf[c]) /\ b[i] = buf[c][i + 1] /\ i \in Nat
        BY <4>b, <4>c, Zenon
      <4>2. buf[c][i + 1] = taken[c] + (i + 1)
        BY <1>1, <4>1, Zenon DEF At
      <4>3. taken[c] + (i + 1) = (taken[c] + 1) + i
        BY <1>1, <4>1, Shift, Zenon
      <4> QED
        BY <2>1, <4>1, <4>2, <4>3, Zenon
    <3> QED
      BY <3>1, <3>2, Zenon
  <2>5. /\ Len(buf'[c]) <= room'[c]
        /\ Created(c)' <=> room'[c] > 0
        /\ Len(buf'[c]) = room'[c] /\ Created(c)'
    BY <1>1, <1>4, <1>5, <1>8, <2>1, ZenonT(40) DEF At
  <2>6. sent'[c] = taken'[c] + Len(buf'[c]) + Len(senders'[c])
    BY <1>1, <1>3, <1>4, <1>5, <1>8, <2>1, SMTT(30)
  <2>7. 1 .. Len(receivers'[c]) = {} /\ receivers'[c] = <<>>
    BY <2>1
  <2>8. \A i \in 1 .. Len(buf'[c]) : buf'[c][i] = taken'[c] + i
    BY <2>1, <2>4, Zenon
  <2> QED
    BY <2>3, <2>5, <2>6, <2>7, <2>8, Zenon DEF At
<1>13. OnlyChannel(c)
  <2>1. /\ \A d \in Channels \ {c} : buf'[d] = buf[d] /\ senders'[d] = senders[d]
        /\ \A d \in Channels \ {c} : taken'[d] = taken[d]
    BY <1>2, <1>6, Zenon DEF TasksTypeOK
  <2>2. \A t \in Tasks : state[t] = "channel" /\ on[t] # c =>
          state'[t] = state[t] /\ on'[t] = on[t] /\ kind'[t] = kind[t]
    BY <1>5, <1>9, Zenon DEF OnlyMoves
  <2> QED
    BY <1>6, <2>1, <2>2, Zenon DEF OnlyChannel
<1> QED
  BY <1>9, <1>10, <1>11, <1>12, <1>13, ChannelStep, Zenon

-----------------------------------------------------------------------------
(* The theorems                                                            *)

\* Every step of the scheduler keeps it.
LEMMA TasksKept == TasksInv /\ [TasksNext]_taskVars => TasksInv'
<1> SUFFICES ASSUME TasksInv, [TasksNext]_taskVars
             PROVE  TasksInv'
  BY Zenon
<1>1. CASE StartRoot
  BY <1>1, StartRootInv, Zenon
<1>2. CASE Spawn
  BY <1>2, SpawnInv, Zenon
<1>3. CASE CompleteCurrent
  BY <1>3, CompleteCurrentInv, Zenon
<1>4. CASE RootEnds
  BY <1>4, RootEndsInv, Zenon
<1>5. CASE Fault
  BY <1>5, FaultedInv, Zenon DEF Fault
<1>6. CASE HostCall
  BY <1>6, HostCallInv, Zenon
<1>7. ASSUME NEW t \in Tasks, Join(t)
      PROVE  TasksInv'
  BY <1>7, JoinInv, Zenon
<1>8. ASSUME NEW n \in Requested, ChannelCreate(n)
      PROVE  TasksInv'
  BY <1>8, ChannelCreateInv, Zenon
<1>9. ASSUME NEW c \in Channels, ChannelSend(c)
      PROVE  TasksInv'
  BY <1>9, SendToReceiverInv, SendToBufferInv, SendParksInv, Zenon DEF ChannelSend
<1>10. ASSUME NEW c \in Channels, ChannelReceive(c)
       PROVE  TasksInv'
  BY <1>10, ReceiveAloneInv, ReceiveRefillInv, ReceiveParksInv, Zenon DEF ChannelReceive
<1>11. ASSUME NEW t \in Tasks, CompleteHost(t)
       PROVE  TasksInv'
  BY <1>11, CompleteHostInv, Zenon
<1>12. CASE UNCHANGED taskVars
  BY <1>12, StutterInv, Zenon
<1> QED
  BY <1>1, <1>2, <1>3, <1>4, <1>5, <1>6, <1>7, <1>8, <1>9, <1>10, <1>11, <1>12, Zenon
  DEF TasksNext, TaskStep

\* The invariant of the scheduler and the channels: every instruction of every task,
\* and every response of the host, keeps it.
THEOREM TasksInvariant == TasksSpec => []TasksInv
<1>1. TasksInit => TasksInv
  BY InitInv, Zenon
<1>2. TasksInv /\ [TasksNext]_taskVars => TasksInv'
  BY TasksKept, Zenon
<1> QED
  BY <1>1, <1>2, PTL DEF TasksSpec

\* Nobody waits in vain: the machine never idles while a task is ready, and no task
\* waits for a channel that has what it waits for, whatever the numbers of tasks and
\* channels and their capacities (task.rs, channel.rs: send, receive).
THEOREM TasksNeverWaitInVain == TasksSpec => []NoLostWakeup
<1>1. TasksInv => NoLostWakeup
  BY Zenon DEF TasksInv, Sound, ActiveRuns, Awake, NoLostWakeup
<1> QED
  BY <1>1, TasksInvariant, PTL

\* Channels deliver first in, first out, across buffer, waiting senders and waiting
\* receivers: the n-th receive obtains the n-th value sent (channel.rs: send, receive).
THEOREM ChannelsDeliverInOrder == TasksSpec => []FifoDelivery
<1>1. TasksInv => FifoDelivery
  BY Zenon DEF TasksInv, Sound, Delivery, FifoDelivery
<1> QED
  BY <1>1, TasksInvariant, PTL

--------------------------------------------------------------------------------
(* A checkpoint of the tasks is accepted again.  This rests on TasksInv, and on  *)
(* what that leaves out: every ready task is on the ring, every task that waits  *)
(* for a channel is on that channel's lists, and the chain of joins from a task  *)
(* never leads back to it.                                                       *)

InSeq(t, q) == \E i \in 1 .. Len(q) : q[i] = t

\* Ready tasks are on the ring, and only the active task runs.
Rung == \A t \in Tasks : state[t] = "ready" => InSeq(t, ready)
OneRuns == \A t \in Tasks : state[t] = "running" => active = t

\* A task waits for a channel exactly while it is on a list of that channel.
OnList(t, c) == InSeq(t, senders[c]) \/ InSeq(t, receivers[c])
Listed ==
  \A t \in Tasks :
    /\ kind[t] # "none" => state[t] = "channel"
    /\ state[t] = "channel" => on[t] \in 1 .. opened /\ OnList(t, on[t])

\* The channels share out the value storage.
Shared ==
  /\ \A c \in 1 .. opened : start[c] = EndBefore(c) /\ start[c] + room[c] <= ValueCount
  /\ used = EndBefore(opened + 1)

JoinsEnd == \A t \in Tasks : state[t] = "join" => WalkEnds(t)

Strict == Rung /\ OneRuns /\ Listed /\ Shared /\ JoinsEnd

\* The inductive invariant, on top of TasksInv.
RestoreInv ==
  /\ life # "corrupt"
  /\ life = "runnable" => Strict
  /\ life = "halted" => SchedulerAccepted /\ ChannelsAccepted

-----------------------------------------------------------------------------
(* The ready ring                                                          *)

\* A sequence of tasks without repetition is no longer than there are tasks, and
\* shorter when it leaves one out.
LEMMA NoRepetition ==
  ASSUME NEW q \in Seq(Tasks), \A i, j \in 1 .. Len(q) : q[i] = q[j] => i = j
  PROVE  /\ Len(q) <= Capacity
         /\ \A t \in Tasks : (\A i \in 1 .. Len(q) : q[i] # t) => Len(q) < Capacity
<1>1. Len(q) \in Nat /\ q \in [1 .. Len(q) -> Tasks]
  OBVIOUS
<1>2. /\ IsFiniteSet(1 .. Len(q)) /\ Cardinality(1 .. Len(q)) = Len(q)
      /\ IsFiniteSet(Tasks) /\ Cardinality(Tasks) = Capacity
  <2>1. \A n \in Nat : IsFiniteSet(1 .. n) /\ Cardinality(1 .. n) = n
    BY FS_Interval
  <2> QED
    BY <1>1, <2>1, CapacityAssumption, Zenon DEF Tasks
<1>3. ASSUME NEW T, IsFiniteSet(T), q \in [1 .. Len(q) -> T]
      PROVE  Len(q) <= Cardinality(T)
  <2>1. q \in Injection(1 .. Len(q), T)
    BY <1>3, Zenon DEF Injection, IsInjective
  <2> QED
    BY <1>2, <1>3, <2>1, FS_Injection
<1>4. Len(q) <= Capacity
  BY <1>1, <1>2, <1>3, Zenon
<1>5. ASSUME NEW t \in Tasks, \A i \in 1 .. Len(q) : q[i] # t
      PROVE  Len(q) < Capacity
  <2>1. q \in [1 .. Len(q) -> Tasks \ {t}]
    BY <1>1, <1>5, Zenon
  <2>2. IsFiniteSet(Tasks \ {t}) /\ Cardinality(Tasks \ {t}) = Capacity - 1
    BY <1>2, FS_RemoveElement, Zenon
  <2>3. Len(q) <= Capacity - 1
    BY <1>3, <2>1, <2>2, Zenon
  <2> QED
    BY <1>1, <2>3, CapacityAssumption
<1> QED
  BY <1>4, <1>5, Zenon

\* A task that is not ready is not on the ring, which has room for it.
LEMMA RingHasRoom ==
  ASSUME NEW st \in [Tasks -> States], NEW q \in Seq(Tasks), RingOK(st, q),
         NEW t \in Tasks, st[t] # "ready"
  PROVE  Len(q) < Capacity
<1>1. \A i \in 1 .. Len(q) : q[i] # t
  BY Zenon DEF RingOK
<1> QED
  BY <1>1, NoRepetition, Zenon DEF RingOK

\* What a sequence with one element more, or without its head, holds.
LEMMA InAppend ==
  ASSUME NEW S, NEW q \in Seq(S), NEW e \in S
  PROVE  /\ InSeq(e, Append(q, e))
         /\ \A t : InSeq(t, q) => InSeq(t, Append(q, e))
<1>1. /\ Len(Append(q, e)) = Len(q) + 1 /\ Len(q) \in Nat
      /\ Append(q, e)[Len(q) + 1] = e
      /\ \A i \in 1 .. Len(q) : Append(q, e)[i] = q[i]
  OBVIOUS
<1>2. Len(q) + 1 \in 1 .. Len(Append(q, e)) /\ \A i \in 1 .. Len(q) : i \in 1 .. Len(Append(q, e))
  BY <1>1
<1> QED
  BY <1>1, <1>2, Zenon DEF InSeq

LEMMA InTail ==
  ASSUME NEW S, NEW q \in Seq(S), q # <<>>, NEW t, InSeq(t, q), t # Head(q)
  PROVE  InSeq(t, Tail(q))
<1>1. PICK i \in 1 .. Len(q) : q[i] = t
  BY Zenon DEF InSeq
<1>2. Head(q) = q[1] /\ Len(q) \in Nat /\ Len(Tail(q)) = Len(q) - 1
  OBVIOUS
<1>3. i # 1 /\ i - 1 \in 1 .. Len(Tail(q)) /\ (i - 1) + 1 = i
  BY <1>1, <1>2
<1>4. \A j \in 1 .. Len(Tail(q)) : Tail(q)[j] = q[j + 1]
  OBVIOUS
<1> QED
  BY <1>1, <1>3, <1>4, Zenon DEF InSeq

\* activate_next_task on a ring in order finds a ready task, and afterwards that
\* task alone runs.
LEMMA ActivateStrict ==
  ASSUME NEW st \in [Tasks -> States], NEW q \in Seq(Tasks), NEW ok \in BOOLEAN,
         ok, RingOK(st, q), ActivateNext(st, q, ok),
         \A t \in Tasks : st[t] = "ready" => InSeq(t, q),
         \A t \in Tasks : st[t] # "running"
  PROVE  /\ life' = life /\ Rung' /\ OneRuns'
         /\ \A t \in Tasks : \/ state'[t] = st[t]
                             \/ st[t] = "ready" /\ state'[t] = "running"
<1>1. CASE q = <<>>
  <2>1. life' = life /\ state' = st /\ ready' = q /\ active' = None
    BY <1>1, Zenon DEF ActivateNext, Checked
  <2> QED
    BY <2>1, Zenon DEF Rung, OneRuns
<1>2. CASE q # <<>>
  <2>1. Head(q) \in Tasks /\ Head(q) = q[1] /\ 1 \in 1 .. Len(q)
    BY <1>2
  <2>2. st[Head(q)] = "ready"
    BY <2>1, Zenon DEF RingOK
  <2>3. /\ life' = life
        /\ state' = [st EXCEPT ![Head(q)] = "running"]
        /\ ready' = Tail(q)
        /\ active' = Head(q)
    BY <1>2, <2>2, Zenon DEF ActivateNext, Checked
  <2>4. Rung'
    <3> SUFFICES ASSUME NEW t \in Tasks, state'[t] = "ready"
                 PROVE  InSeq(t, ready')
      BY Zenon DEF Rung, InSeq
    <3>1. t # Head(q) /\ st[t] = "ready"
      BY <2>1, <2>3, Zenon
    <3> QED
      BY <1>2, <2>3, <3>1, InTail, Zenon
  <2>5. OneRuns'
    BY <2>1, <2>3, Zenon DEF OneRuns
  <2> QED
    BY <2>1, <2>2, <2>3, <2>4, <2>5, Zenon
<1> QED
  BY <1>1, <1>2, Zenon

-----------------------------------------------------------------------------
(* Joins                                                                   *)

\* The chains of joins are kept by a step that moves no joining task and lets no
\* task complete.
LEMMA JoinsKept ==
  ASSUME JoinsEnd,
         \A t \in Tasks :
           /\ state'[t] = "join" => state[t] = "join" /\ on'[t] = on[t]
           /\ state'[t] \in {"vacant", "completed"} => state[t] \in {"vacant", "completed"}
  PROVE  JoinsEnd'
<1> SUFFICES ASSUME NEW t \in Tasks, state'[t] = "join"
             PROVE  WalkEnds(t)'
  BY Zenon DEF JoinsEnd
<1>1. PICK walk \in SUBSET Tasks :
        /\ on[t] \in walk
        /\ t \notin walk
        /\ \A u \in walk : state[u] \notin {"vacant", "completed"}
        /\ \A u \in walk : state[u] = "join" => on[u] \in walk
  BY Zenon DEF JoinsEnd, WalkEnds
<1>2. /\ on'[t] \in walk
      /\ \A u \in walk : state'[u] \notin {"vacant", "completed"}
      /\ \A u \in walk : state'[u] = "join" => on'[u] \in walk
  BY <1>1, Zenon
<1> QED
  BY <1>1, <1>2, Zenon DEF WalkEnds

\* What a step that leaves the channels alone has to show.
LEMMA StrictKept ==
  ASSUME Strict, UNCHANGED chanVars, life' = "runnable", Rung', OneRuns', JoinsEnd',
         \A t \in Tasks : /\ state'[t] = "channel" <=> state[t] = "channel"
                          /\ state[t] = "channel" => on'[t] = on[t]
  PROVE  RestoreInv'
<1>1. UNCHANGED <<opened, used, start, room, senders, receivers, kind>>
  BY Zenon DEF chanVars
<1>2. Shared'
  BY <1>1, Zenon DEF Strict, Shared, EndBefore
<1>3. Listed'
  BY <1>1, Zenon DEF Strict, Listed, OnList, InSeq
<1> QED
  BY <1>2, <1>3, Zenon DEF RestoreInv, Strict

-----------------------------------------------------------------------------
(* The scheduler                                                           *)

\* What an instruction starts from.
LEMMA StrictFacts ==
  ASSUME TasksInv, RestoreInv, Running
  PROVE  /\ TasksTypeOK /\ life = "runnable" /\ Strict
         /\ active \in Tasks /\ active # None /\ state[active] = "running"
         /\ state \in [Tasks -> States] /\ ready \in Seq(Tasks) /\ RingOK(state, ready)
         /\ \A t \in Tasks : state[t] = "running" <=> t = active
<1>1. /\ TasksTypeOK /\ Sound /\ life = "runnable" /\ active \in Tasks /\ active # None
      /\ state[active] = "running" /\ RingOK(state, ready)
  BY RunningFacts, Zenon
<1>2. Strict
  BY <1>1, Zenon DEF RestoreInv
<1>3. \A t \in Tasks : state[t] = "running" <=> t = active
  BY <1>1, <1>2, Zenon DEF Strict, OneRuns
<1> QED
  BY <1>1, <1>2, <1>3, Zenon DEF TasksTypeOK

\* A fault stops the program.
LEMMA FaultedRestore ==
  ASSUME Faulted
  PROVE  RestoreInv'
BY Zenon DEF Faulted, RestoreInv

LEMMA StartRootRestore ==
  ASSUME TasksInv, StartRoot
  PROVE  RestoreInv'
<1>1. TasksInit /\ life' = "runnable"
  BY Zenon DEF TasksInv, StartRoot
<1>2. /\ state' = [state EXCEPT ![ROOT] = "running"] /\ active' = ROOT
      /\ on' = on /\ ready' = ready /\ UNCHANGED chanVars
  BY Zenon DEF StartRoot
<1>3. \A t \in Tasks : state'[t] = IF t = ROOT THEN "running" ELSE "vacant"
  BY <1>1, <1>2, Zenon DEF TasksInit
<1>4. Rung' /\ OneRuns' /\ JoinsEnd'
  BY <1>2, <1>3 DEF Rung, OneRuns, JoinsEnd
<1>5. opened' = 0 /\ used' = 0 /\ kind' = [t \in Tasks |-> "none"]
  BY <1>1, <1>2, Zenon DEF TasksInit, chanVars
<1>6. Listed'
  BY <1>3, <1>5, Zenon DEF Listed
<1>7. Shared'
  BY <1>5 DEF Shared, EndBefore
<1> QED
  BY <1>1, <1>4, <1>6, <1>7, Zenon DEF RestoreInv, Strict

\* A task that was not ready joins the ring.
LEMMA Enrolled ==
  ASSUME NEW st \in [Tasks -> States], NEW q \in Seq(Tasks), NEW t \in Tasks,
         \A u \in Tasks : st[u] = "ready" => InSeq(u, q)
  PROVE  \A u \in Tasks : [st EXCEPT ![t] = "ready"][u] = "ready" => InSeq(u, Append(q, t))
<1> SUFFICES ASSUME NEW u \in Tasks, [st EXCEPT ![t] = "ready"][u] = "ready"
             PROVE  InSeq(u, Append(q, t))
  BY Zenon
<1>1. u = t \/ st[u] = "ready"
  BY Zenon
<1> QED
  BY <1>1, InAppend, Zenon

LEMMA SpawnRestore ==
  ASSUME TasksInv, RestoreInv, Spawn
  PROVE  RestoreInv'
<1>1. CASE Faulted
  BY <1>1, FaultedRestore, Zenon
<1>2. ASSUME NEW s \in Tasks, Vacant(s),
             Checked(Len(ready) < Capacity),
             state' = [state EXCEPT ![s] = "ready"],
             ready' = Append(ready, s),
             UNCHANGED <<on, active, chanVars>>
      PROVE  RestoreInv'
  <2>1. /\ life = "runnable" /\ Strict
        /\ state \in [Tasks -> States] /\ ready \in Seq(Tasks) /\ RingOK(state, ready)
    BY StrictFacts, Zenon DEF Spawn
  <2>2. state[s] = "vacant"
    BY <1>2, Zenon DEF Vacant
  <2>3. life' = "runnable"
    BY <1>2, <2>1, <2>2, RingHasRoom, ZenonT(40) DEF Checked
  <2>4. Rung'
    BY <1>2, <2>1, Enrolled, SMTT(30) DEF Strict, Rung, InSeq
  <2>5. OneRuns'
    BY <1>2, <2>1, Zenon DEF Strict, OneRuns
  <2>6. JoinsEnd'
    BY <1>2, <2>1, <2>2, JoinsKept, Zenon DEF Strict
  <2>7. \A t \in Tasks : /\ state'[t] = "channel" <=> state[t] = "channel"
                         /\ state[t] = "channel" => on'[t] = on[t]
    BY <1>2, <2>1, <2>2, Zenon
  <2> QED
    BY <1>2, <2>1, <2>3, <2>4, <2>5, <2>6, <2>7, StrictKept, Zenon
<1> QED
  BY <1>1, <1>2, Zenon DEF Spawn

\* The active task leaves: what the states and the ring are before the next one runs.
LEMMA LeavesRing ==
  ASSUME TasksInv, RestoreInv, Running, NEW wait \in {"host", "join", "channel"}
  PROVE  /\ [state EXCEPT ![active] = wait] \in [Tasks -> States]
         /\ RingOK([state EXCEPT ![active] = wait], ready)
         /\ \A t \in Tasks : [state EXCEPT ![active] = wait][t] = "ready" => InSeq(t, ready)
         /\ \A t \in Tasks : [state EXCEPT ![active] = wait][t] # "running"
<1>1. /\ Strict /\ active \in Tasks /\ state[active] = "running"
      /\ state \in [Tasks -> States] /\ ready \in Seq(Tasks) /\ RingOK(state, ready)
      /\ \A t \in Tasks : state[t] = "running" <=> t = active
  BY StrictFacts, Zenon
<1>2. \A i \in 1 .. Len(ready) : ready[i] \in Tasks /\ ready[i] # active
  BY <1>1 DEF RingOK
<1>3. [state EXCEPT ![active] = wait] \in [Tasks -> States]
  BY <1>1, Zenon DEF States
<1>4. RingOK([state EXCEPT ![active] = wait], ready)
  BY <1>1, <1>2, Zenon DEF RingOK
<1> QED
  BY <1>1, <1>3, <1>4, Zenon DEF Strict, Rung

\* The active task starts to wait and the next one runs.
LEMMA SuspendStrict ==
  ASSUME TasksInv, RestoreInv, Running, NEW wait \in {"host", "join", "channel"},
         NEW what, Suspend(wait, what, TRUE)
  PROVE  /\ life' = "runnable" /\ Rung' /\ OneRuns'
         /\ state'[active] = wait /\ on'[active] = what
         /\ \A t \in Tasks \ {active} :
              /\ state'[t] = state[t] \/ (state[t] = "ready" /\ state'[t] = "running")
              /\ on'[t] = on[t]
<1> DEFINE st == [state EXCEPT ![active] = wait]
<1>1. /\ st \in [Tasks -> States] /\ RingOK(st, ready)
      /\ \A t \in Tasks : st[t] = "ready" => InSeq(t, ready)
      /\ \A t \in Tasks : st[t] # "running"
  BY LeavesRing, Zenon
<1>2. /\ ready \in Seq(Tasks) /\ life = "runnable" /\ active \in Tasks
      /\ state \in [Tasks -> States] /\ DOMAIN on = Tasks
  BY StrictFacts, Zenon DEF TasksTypeOK
<1>3. ActivateNext(st, ready, TRUE) /\ on' = [on EXCEPT ![active] = what]
  BY Zenon DEF Suspend
<1>4. /\ st[active] = wait
      /\ \A t \in Tasks \ {active} : st[t] = state[t]
  BY <1>2, Zenon
<1>5. /\ life' = life /\ Rung' /\ OneRuns'
      /\ \A t \in Tasks : state'[t] = st[t] \/ (st[t] = "ready" /\ state'[t] = "running")
  <2> HIDE DEF st
  <2> QED
    BY <1>1, <1>2, <1>3, ActivateStrict, Zenon
<1> HIDE DEF st
<1> QED
  BY <1>2, <1>3, <1>4, <1>5, Zenon

LEMMA HostCallRestore ==
  ASSUME TasksInv, RestoreInv, HostCall
  PROVE  RestoreInv'
<1>1. Running /\ Suspend("host", None, TRUE) /\ UNCHANGED chanVars
  BY Zenon DEF HostCall
<1>2. /\ life' = "runnable" /\ Rung' /\ OneRuns'
      /\ state'[active] = "host"
      /\ \A t \in Tasks \ {active} :
           /\ state'[t] = state[t] \/ (state[t] = "ready" /\ state'[t] = "running")
           /\ on'[t] = on[t]
  BY <1>1, SuspendStrict, Zenon
<1>3. Strict /\ state[active] = "running"
  BY <1>1, StrictFacts, Zenon
<1>4. JoinsEnd'
  BY <1>2, <1>3, JoinsKept, Zenon DEF Strict
<1> QED
  BY <1>1, <1>2, <1>3, <1>4, StrictKept, Zenon

\* A join is admitted only when the chain from its target does not lead back.
LEMMA JoinedChains ==
  ASSUME JoinsEnd, NEW target \in Tasks, active \in Tasks,
         state[target] \notin {"vacant", "completed"}, ChainAvoids(target, active),
         state[active] = "running", state'[active] = "join", on'[active] = target,
         \A t \in Tasks \ {active} :
           /\ state'[t] = state[t] \/ (state[t] = "ready" /\ state'[t] = "running")
           /\ on'[t] = on[t]
  PROVE  JoinsEnd'
<1>1. PICK visited \in SUBSET Tasks :
        /\ target \in visited
        /\ active \notin visited
        /\ \A t \in visited : state[t] = "join" => on[t] \in visited
  BY Zenon DEF ChainAvoids
<1> DEFINE ahead == {u \in visited : state[u] \notin {"vacant", "completed"}}
<1>2. /\ ahead \in SUBSET Tasks /\ target \in ahead /\ active \notin ahead
      /\ \A u \in ahead : state[u] \notin {"vacant", "completed"}
      /\ \A u \in ahead : state[u] = "join" => on[u] \in ahead
  <2>1. ASSUME NEW u \in ahead, state[u] = "join"
        PROVE  on[u] \in ahead
    BY <1>1, <2>1, Zenon DEF JoinsEnd, WalkEnds
  <2> QED
    BY <1>1, <2>1, Zenon
<1> HIDE DEF ahead
<1> SUFFICES ASSUME NEW t \in Tasks, state'[t] = "join"
             PROVE  WalkEnds(t)'
  BY Zenon DEF JoinsEnd
<1>3. CASE t = active
  BY <1>2, <1>3, Zenon DEF WalkEnds
<1>4. CASE t # active
  <2>1. PICK walk \in SUBSET Tasks :
          /\ on[t] \in walk
          /\ t \notin walk
          /\ \A u \in walk : state[u] \notin {"vacant", "completed"}
          /\ \A u \in walk : state[u] = "join" => on[u] \in walk
    BY <1>4, Zenon DEF JoinsEnd, WalkEnds
  <2>2. state[t] = "join" /\ on'[t] = on[t]
    BY <1>4, Zenon
  <2>3. CASE t \notin ahead
    <3> DEFINE w == walk \cup ahead
    <3>1. w \in SUBSET Tasks /\ on'[t] \in w /\ t \notin w
      BY <1>2, <2>1, <2>2, <2>3, Zenon
    <3>2. \A u \in w : state'[u] \notin {"vacant", "completed"}
      BY <1>2, <2>1, Zenon
    <3>3. \A u \in w : state'[u] = "join" => on'[u] \in w
      BY <1>2, <2>1, Zenon
    <3> QED
      BY <3>1, <3>2, <3>3, Zenon DEF WalkEnds
  <2>4. CASE t \in ahead
    <3> DEFINE w == walk \cap ahead
    <3>1. w \in SUBSET Tasks /\ on'[t] \in w /\ t \notin w
      BY <1>2, <2>1, <2>2, <2>4, Zenon
    <3>2. \A u \in w : state'[u] \notin {"vacant", "completed"}
      BY <1>2, <2>1, Zenon
    <3>3. \A u \in w : state'[u] = "join" => on'[u] \in w
      BY <1>2, <2>1, Zenon
    <3> QED
      BY <3>1, <3>2, <3>3, Zenon DEF WalkEnds
  <2> QED
    BY <2>3, <2>4, Zenon
<1> QED
  BY <1>3, <1>4, Zenon

LEMMA JoinRestore ==
  ASSUME TasksInv, RestoreInv, NEW target \in Tasks, Join(target)
  PROVE  RestoreInv'
<1>1. CASE Faulted
  BY <1>1, FaultedRestore, Zenon
<1>2. CASE /\ state[target] \notin {"vacant", "completed"}
           /\ ChainAvoids(target, active)
           /\ Suspend("join", target, TRUE)
           /\ UNCHANGED chanVars
  <2>1. Running
    BY Zenon DEF Join
  <2>2. /\ life' = "runnable" /\ Rung' /\ OneRuns'
        /\ state'[active] = "join" /\ on'[active] = target
        /\ \A t \in Tasks \ {active} :
             /\ state'[t] = state[t] \/ (state[t] = "ready" /\ state'[t] = "running")
             /\ on'[t] = on[t]
    BY <1>2, <2>1, SuspendStrict, Zenon
  <2>3. Strict /\ state[active] = "running" /\ active \in Tasks
    BY <2>1, StrictFacts, Zenon
  <2>4. JoinsEnd'
    BY <1>2, <2>2, <2>3, JoinedChains, Zenon DEF Strict
  <2> QED
    BY <1>2, <2>2, <2>3, <2>4, StrictKept, Zenon
<1> QED
  BY <1>1, <1>2, Zenon DEF Join

LEMMA CompleteHostRestore ==
  ASSUME TasksInv, RestoreInv, NEW t \in Tasks, CompleteHost(t)
  PROVE  RestoreInv'
<1> DEFINE st == [state EXCEPT ![t] = "ready"]
           q == Append(ready, t)
<1>1. /\ life = "runnable" /\ state[t] = "host" /\ Strict
      /\ state \in [Tasks -> States] /\ ready \in Seq(Tasks) /\ RingOK(state, ready)
      /\ UNCHANGED on /\ UNCHANGED chanVars
  BY Zenon DEF TasksInv, RestoreInv, CompleteHost, TasksTypeOK, Sound
<1>2. Len(ready) < Capacity
  BY <1>1, RingHasRoom, Zenon
<1>3. st \in [Tasks -> States] /\ q \in Seq(Tasks) /\ RingOK(st, q)
  BY <1>1, AppendRing, Zenon
<1>4. \A u \in Tasks : st[u] = "ready" => InSeq(u, q)
  BY <1>1, Enrolled, Zenon DEF Strict, Rung
<1>5. \A u \in Tasks : u # t => st[u] = state[u]
  BY <1>1, Zenon
<1>6. st[t] = "ready"
  BY <1>1, Zenon
<1> HIDE DEF st, q
<1>7. /\ life' = "runnable" /\ Rung' /\ OneRuns'
      /\ \A u \in Tasks : state'[u] = st[u] \/ (st[u] = "ready" /\ state'[u] = "running")
  <2>1. CASE active = None
    <3>1. ActivateNext(st, q, Len(ready) < Capacity)
      BY <2>1, Zenon DEF CompleteHost, st, q
    <3>2. \A u \in Tasks : st[u] # "running"
      BY <1>1, <1>5, <1>6, <2>1, CapacityAssumption, SMTT(30) DEF Strict, OneRuns, Tasks, None
    <3>3. (Len(ready) < Capacity) = TRUE
      BY <1>2, Zenon
    <3> QED
      BY <1>1, <1>2, <1>3, <1>4, <3>1, <3>2, <3>3, ActivateStrict, Zenon
  <2>2. CASE active # None
    <3>1. Checked(Len(ready) < Capacity) /\ state' = st /\ ready' = q /\ active' = active
      BY <2>2, Zenon DEF CompleteHost, st, q
    <3>2. life' = "runnable"
      BY <1>1, <1>2, <3>1, Zenon DEF Checked
    <3>3. Rung'
      BY <1>4, <3>1, Zenon DEF Rung, InSeq
    <3>4. OneRuns'
      BY <1>1, <1>5, <1>6, <3>1, Zenon DEF Strict, OneRuns
    <3> QED
      BY <3>1, <3>2, <3>3, <3>4, Zenon
  <2> QED
    BY <2>1, <2>2, Zenon
<1>8. \A u \in Tasks : /\ state'[u] = "channel" <=> state[u] = "channel"
                       /\ state[u] = "channel" => on'[u] = on[u]
                       /\ state'[u] = "join" => state[u] = "join" /\ on'[u] = on[u]
                       /\ state'[u] \in {"vacant", "completed"} =>
                            state[u] \in {"vacant", "completed"}
  BY <1>1, <1>5, <1>6, <1>7, Zenon
<1>9. JoinsEnd'
  BY <1>1, <1>8, JoinsKept, Zenon DEF Strict
<1> QED
  BY <1>1, <1>7, <1>8, <1>9, StrictKept, Zenon

\* The joiners of the completed task leave the chains, and so does it.
LEMMA CompletedChains ==
  ASSUME JoinsEnd, active \in Tasks, state[active] = "running",
         on' = [t \in Tasks |-> IF t \in Joiners(active) THEN None ELSE on[t]],
         \A t \in Tasks : \/ state'[t] = Completed[t]
                          \/ Completed[t] = "ready" /\ state'[t] = "running"
  PROVE  JoinsEnd'
<1>1. \A t \in Tasks :
        /\ state'[t] = "join" => /\ t # active /\ state[t] = "join"
                                 /\ on[t] # active /\ on'[t] = on[t]
        /\ t # active /\ state'[t] \in {"vacant", "completed"} =>
             state[t] \in {"vacant", "completed"}
  BY Zenon DEF Completed, Joiners
<1> SUFFICES ASSUME NEW t \in Tasks, state'[t] = "join"
             PROVE  WalkEnds(t)'
  BY Zenon DEF JoinsEnd
<1>2. PICK walk \in SUBSET Tasks :
        /\ on[t] \in walk
        /\ t \notin walk
        /\ \A u \in walk : state[u] \notin {"vacant", "completed"}
        /\ \A u \in walk : state[u] = "join" => on[u] \in walk
  BY <1>1, Zenon DEF JoinsEnd, WalkEnds
<1> DEFINE w == walk \ {active}
<1>3. w \in SUBSET Tasks /\ on'[t] \in w /\ t \notin w
  BY <1>1, <1>2, Zenon
<1>4. \A u \in w : state'[u] \notin {"vacant", "completed"}
  BY <1>1, <1>2, Zenon
<1>5. \A u \in w : state'[u] = "join" => on'[u] \in w
  BY <1>1, <1>2, Zenon
<1> QED
  BY <1>3, <1>4, <1>5, Zenon DEF WalkEnds

LEMMA CompleteCurrentRestore ==
  ASSUME TasksInv, RestoreInv, CompleteCurrent
  PROVE  RestoreInv'
<1>1. /\ Running /\ life = "runnable" /\ Strict /\ active \in Tasks
      /\ state[active] = "running" /\ state \in [Tasks -> States]
      /\ ready \in Seq(Tasks) /\ \A t \in Tasks : state[t] = "running" <=> t = active
  BY StrictFacts, Zenon DEF CompleteCurrent
<1>2. PICK woken \in SlotOrders(Joiners(active)) :
        /\ ActivateNext(Completed, ready \o woken, Len(ready \o woken) <= Capacity)
        /\ on' = [t \in Tasks |-> IF t \in Joiners(active) THEN None ELSE on[t]]
        /\ UNCHANGED chanVars
  BY Zenon DEF CompleteCurrent, Completed
<1> DEFINE q == ready \o woken
<1>3. Completed \in [Tasks -> States] /\ q \in Seq(Tasks) /\ RingOK(Completed, q)
  BY <1>1, JoinersFollow, Zenon
<1>4. Len(q) <= Capacity
  BY <1>3, NoRepetition, Zenon DEF RingOK
<1>5. \A t \in Tasks : Completed[t] = "ready" => InSeq(t, q)
  <2>1. Joiners(active) \in SUBSET Tasks
    BY Zenon DEF Joiners
  <2>2. /\ woken \in Seq(Tasks)
        /\ \A t \in Joiners(active) : \E i \in 1 .. Len(woken) : woken[i] = t
    BY <2>1, SlotOrderFacts, Zenon
  <2>3. /\ \A i \in 1 .. Len(ready) : i \in 1 .. Len(q) /\ q[i] = ready[i]
        /\ \A i \in 1 .. Len(woken) : /\ Len(ready) + i \in 1 .. Len(q)
                                      /\ q[Len(ready) + i] = woken[i]
    BY <1>1, <2>2
  <2> HIDE DEF q
  <2>4. ASSUME NEW t \in Tasks, InSeq(t, ready)
        PROVE  InSeq(t, q)
    BY <2>3, <2>4, Zenon DEF InSeq
  <2>5. ASSUME NEW t \in Joiners(active)
        PROVE  InSeq(t, q)
    BY <2>2, <2>3, <2>5, Zenon DEF InSeq
  <2> QED
    BY <1>1, <2>4, <2>5, Zenon DEF Completed, Strict, Rung
<1>6. \A t \in Tasks : Completed[t] # "running"
  BY <1>1, Zenon DEF Completed
<1>7. /\ life' = "runnable" /\ Rung' /\ OneRuns'
      /\ \A t \in Tasks : \/ state'[t] = Completed[t]
                          \/ Completed[t] = "ready" /\ state'[t] = "running"
  <2>1. (Len(q) <= Capacity) = TRUE
    BY <1>4, Zenon
  <2>2. ActivateNext(Completed, q, Len(q) <= Capacity)
    BY <1>2, Zenon
  <2> HIDE DEF q
  <2> QED
    BY <1>1, <1>3, <1>4, <1>5, <1>6, <2>1, <2>2, ActivateStrict, Zenon
<1>8. JoinsEnd'
  BY <1>1, <1>2, <1>7, CompletedChains, Zenon DEF Strict
<1>9. \A t \in Tasks : /\ state'[t] = "channel" <=> state[t] = "channel"
                       /\ state[t] = "channel" => on'[t] = on[t]
  BY <1>1, <1>2, <1>7, Zenon DEF Completed, Joiners
<1> HIDE DEF q
<1> QED
  BY <1>1, <1>2, <1>7, <1>8, <1>9, StrictKept, Zenon

-----------------------------------------------------------------------------
(* Channels                                                                *)

LEMMA ChannelCreateRestore ==
  ASSUME TasksInv, RestoreInv, NEW n \in Requested, ChannelCreate(n)
  PROVE  RestoreInv'
<1>1. CASE Faulted
  BY <1>1, FaultedRestore, Zenon
<1>2. CASE /\ n > 0 /\ opened < ChannelCount /\ used + n <= ValueCount
           /\ opened' = opened + 1
           /\ used' = used + n
           /\ start' = [start EXCEPT ![opened + 1] = used]
           /\ room' = [room EXCEPT ![opened + 1] = n]
           /\ UNCHANGED <<life, schedVars, buf, senders, receivers, kind, held,
                          sent, taken, inbox>>
  <2>1. TasksTypeOK /\ life = "runnable" /\ Strict
    BY StrictFacts, Zenon DEF ChannelCreate
  <2>2. UNCHANGED <<life, state, on, ready, active, senders, receivers, kind>>
    BY <1>2, Zenon DEF schedVars
  <2>3. /\ opened \in Nat /\ used \in Nat /\ n \in Nat /\ ChannelCount \in Nat
        /\ start \in [Channels -> Nat] /\ room \in [Channels -> Nat]
    BY <2>1, ChannelAssumption DEF TasksTypeOK
  <2>4. Rung' /\ OneRuns' /\ JoinsEnd'
    BY <2>1, <2>2, Zenon DEF Strict, Rung, OneRuns, JoinsEnd, InSeq, WalkEnds
  <2>5. Listed'
    <3>1. 1 .. opened \subseteq 1 .. opened'
      BY <1>2, <2>3
    <3> QED
      BY <2>1, <2>2, <3>1, Zenon DEF Strict, Listed, OnList, InSeq
  <2>6. Shared'
    <3>1. /\ opened + 1 \in Channels /\ start'[opened + 1] = used /\ room'[opened + 1] = n
          /\ \A c \in 1 .. opened : /\ c \in Channels /\ start'[c] = start[c]
                                    /\ room'[c] = room[c] /\ c # opened + 1
      BY <1>2, <2>3 DEF Channels
    <3>2. \A c \in 1 .. opened + 1 : EndBefore(c)' = EndBefore(c)
      <4> SUFFICES ASSUME NEW c \in 1 .. opened + 1
                   PROVE  EndBefore(c)' = EndBefore(c)
        BY Zenon
      <4>1. CASE c = 1
        BY <4>1, Zenon DEF EndBefore
      <4>2. CASE c # 1
        <5>1. c - 1 \in 1 .. opened
          BY <2>3, <4>2
        <5>2. start'[c - 1] = start[c - 1] /\ room'[c - 1] = room[c - 1]
          BY <3>1, <5>1, Zenon
        <5> QED
          BY <4>2, <5>2, Zenon DEF EndBefore
      <4> QED
        BY <4>1, <4>2, Zenon
    <3>3. EndBefore(opened + 1) = used
      BY <2>1, Zenon DEF Strict, Shared
    <3>4. EndBefore(opened + 1)' = used'
      <4>1. opened' + 1 # 1 /\ (opened' + 1) - 1 = opened + 1
        BY <1>2, <2>3
      <4> QED
        BY <1>2, <3>1, <4>1, Zenon DEF EndBefore
    <3>5. ASSUME NEW c \in 1 .. opened + 1
          PROVE  start'[c] = EndBefore(c)' /\ start'[c] + room'[c] <= ValueCount
      <4>1. CASE c = opened + 1
        <5>1. EndBefore(c)' = used
          BY <3>2, <3>3, <4>1, Zenon
        <5> QED
          BY <1>2, <3>1, <4>1, <5>1, Zenon
      <4>2. CASE c # opened + 1
        <5>1. c \in 1 .. opened
          BY <2>3, <4>2
        <5> QED
          BY <2>1, <3>1, <3>2, <5>1, Zenon DEF Strict, Shared
      <4> QED
        BY <4>1, <4>2, Zenon
    <3> QED
      BY <1>2, <3>4, <3>5, Zenon DEF Shared
  <2> QED
    BY <2>1, <2>2, <2>4, <2>5, <2>6, Zenon DEF RestoreInv, Strict
<1> QED
  BY <1>1, <1>2, Zenon DEF ChannelCreate

\* What a step that creates no channel has to show.
LEMMA ChannelsStrict ==
  ASSUME Strict, life' = "runnable", Rung', OneRuns', JoinsEnd', Listed',
         UNCHANGED <<opened, used, start, room>>
  PROVE  RestoreInv'
<1>1. Shared'
  BY Zenon DEF Strict, Shared, EndBefore
<1> QED
  BY <1>1, Zenon DEF RestoreInv, Strict

\* Waking the first task of a list finds it as the list says.
LEMMA WakeStrict ==
  ASSUME TasksInv, RestoreInv, Running, NEW u \in Tasks, NEW c, NEW what,
         state[u] = "channel", on[u] = c, kind[u] = what, Wake(u, c, what)
  PROVE  /\ life' = "runnable" /\ Rung' /\ OneRuns' /\ JoinsEnd'
         /\ state'[u] = "ready" /\ kind'[u] = "none"
<1>1. /\ TasksTypeOK /\ life = "runnable" /\ Strict
      /\ state \in [Tasks -> States] /\ ready \in Seq(Tasks) /\ RingOK(state, ready)
      /\ DOMAIN on = Tasks /\ DOMAIN kind = Tasks
  BY StrictFacts, Zenon DEF TasksTypeOK
<1>2. Len(ready) < Capacity
  BY <1>1, RingHasRoom, Zenon
<1>3. /\ life' = "runnable"
      /\ kind' = [kind EXCEPT ![u] = "none"]
      /\ state' = [state EXCEPT ![u] = "ready"]
      /\ on' = [on EXCEPT ![u] = None]
      /\ ready' = Append(ready, u)
      /\ active' = active
  BY <1>1, <1>2, ZenonT(40) DEF Wake, Checked
<1>4. Rung'
  <2> SUFFICES ASSUME NEW t \in Tasks, state'[t] = "ready"
               PROVE  InSeq(t, ready')
    BY Zenon DEF Rung
  <2>1. CASE t = u
    BY <1>1, <1>3, <2>1, InAppend, Zenon
  <2>2. CASE t # u
    <3>1. state[t] = "ready"
      BY <1>1, <1>3, <2>2, Zenon
    <3>2. InSeq(t, ready)
      BY <1>1, <3>1, Zenon DEF Strict, Rung
    <3> QED
      BY <1>1, <1>3, <3>2, InAppend, Zenon
  <2> QED
    BY <2>1, <2>2, Zenon
<1>5. OneRuns'
  BY <1>1, <1>3, Zenon DEF Strict, OneRuns
<1>6. JoinsEnd'
  BY <1>1, <1>3, JoinsKept, Zenon DEF Strict
<1> QED
  BY <1>1, <1>3, <1>4, <1>5, <1>6, Zenon

\* The others stay on their lists.
LEMMA WakeListed ==
  ASSUME Listed, NEW u \in Tasks, OnlyMoves(u), state'[u] = "ready", kind'[u] = "none",
         opened' = opened,
         \A t \in Tasks \ {u} : \A c \in 1 .. opened : OnList(t, c) => OnList(t, c)'
  PROVE  Listed'
<1> SUFFICES ASSUME NEW t \in Tasks
             PROVE  /\ kind'[t] # "none" => state'[t] = "channel"
                    /\ state'[t] = "channel" => on'[t] \in 1 .. opened /\ OnList(t, on[t])'
  BY Zenon DEF Listed
<1>1. CASE t = u
  BY <1>1, Zenon
<1>2. CASE t # u
  <2>1. state'[t] = state[t] /\ on'[t] = on[t] /\ kind'[t] = kind[t]
    BY <1>2, Zenon DEF OnlyMoves
  <2>2. /\ kind[t] # "none" => state[t] = "channel"
        /\ state[t] = "channel" => on[t] \in 1 .. opened /\ OnList(t, on[t])
    BY Zenon DEF Listed
  <2>3. state[t] = "channel" => OnList(t, on[t])'
    <3> SUFFICES ASSUME state[t] = "channel"
                 PROVE  OnList(t, on[t])'
      BY Zenon
    <3>1. PICK c \in 1 .. opened : c = on[t]
      BY <2>2, Zenon
    <3>2. OnList(t, c)'
      BY <1>2, <2>2, <3>1, Zenon
    <3> QED
      BY <2>1, <3>1, <3>2, Zenon DEF OnList
  <2> QED
    BY <2>1, <2>2, <2>3, Zenon
<1> QED
  BY <1>1, <1>2, Zenon

LEMMA SendToReceiverRestore ==
  ASSUME TasksInv, RestoreInv, Running, NEW c \in Channels, SendToReceiver(c)
  PROVE  RestoreInv'
<1> DEFINE u == Head(receivers[c])
<1>1. /\ At(c) /\ receivers[c] \in Seq(Tasks) /\ receivers[c] # <<>>
  BY ChannelFacts, ZenonT(40) DEF SendToReceiver
<1>2. u = receivers[c][1] /\ u \in Tasks /\ 1 \in 1 .. Len(receivers[c])
  BY <1>1, SMTT(30)
<1>3. state[u] = "channel" /\ on[u] = c /\ kind[u] = "receive"
  <2> HIDE DEF u
  <2> QED
    BY <1>1, <1>2, Zenon DEF At
<1>4. /\ Wake(u, c, "receive")
      /\ receivers' = [receivers EXCEPT ![c] = Tail(@)]
      /\ UNCHANGED <<opened, used, start, room, senders>>
  BY Zenon DEF SendToReceiver
<1>5. Strict /\ receivers \in [Channels -> Seq(Tasks)]
  BY StrictFacts, Zenon DEF TasksTypeOK
<1>6. \A t \in Tasks \ {u} : \A d \in 1 .. opened : OnList(t, d) => OnList(t, d)'
  <2> SUFFICES ASSUME NEW t \in Tasks \ {u}, NEW d \in 1 .. opened, InSeq(t, receivers[d])
               PROVE  InSeq(t, receivers'[d])
    BY <1>4, Zenon DEF OnList, InSeq
  <2>1. CASE d = c
    BY <1>1, <1>4, <1>5, <2>1, InTail, Zenon
  <2>2. CASE d # c
    BY <1>4, <1>5, <2>2
  <2> QED
    BY <2>1, <2>2, Zenon
<1> HIDE DEF u
<1>7. /\ life' = "runnable" /\ Rung' /\ OneRuns' /\ JoinsEnd'
      /\ state'[u] = "ready" /\ kind'[u] = "none"
  BY <1>2, <1>3, <1>4, WakeStrict, Zenon
<1>8. OnlyMoves(u)
  BY <1>2, <1>3, <1>4, WakeFacts, Zenon
<1>9. Listed'
  BY <1>2, <1>4, <1>5, <1>6, <1>7, <1>8, WakeListed, Zenon DEF Strict
<1> QED
  BY <1>4, <1>5, <1>7, <1>9, ChannelsStrict, Zenon

LEMMA ReceiveRefillRestore ==
  ASSUME TasksInv, RestoreInv, Running, NEW c \in Channels, ReceiveRefill(c)
  PROVE  RestoreInv'
<1> DEFINE u == Head(senders[c])
<1>1. /\ At(c) /\ senders[c] \in Seq(Tasks) /\ senders[c] # <<>>
  BY ChannelFacts, ZenonT(40) DEF ReceiveRefill
<1>2. u = senders[c][1] /\ u \in Tasks /\ 1 \in 1 .. Len(senders[c])
  BY <1>1
<1>3. state[u] = "channel" /\ on[u] = c /\ kind[u] = "send"
  BY <1>1, <1>2 DEF At
<1>4. /\ Wake(u, c, "send")
      /\ senders' = [senders EXCEPT ![c] = Tail(@)]
      /\ UNCHANGED <<opened, used, start, room, receivers>>
  BY Zenon DEF ReceiveRefill
<1>5. Strict /\ senders \in [Channels -> Seq(Tasks)]
  BY StrictFacts, Zenon DEF TasksTypeOK
<1>6. \A t \in Tasks \ {u} : \A d \in 1 .. opened : OnList(t, d) => OnList(t, d)'
  <2> SUFFICES ASSUME NEW t \in Tasks \ {u}, NEW d \in 1 .. opened, InSeq(t, senders[d])
               PROVE  InSeq(t, senders'[d])
    BY <1>4, Zenon DEF OnList, InSeq
  <2>1. CASE d = c
    BY <1>1, <1>4, <1>5, <2>1, InTail, Zenon
  <2>2. CASE d # c
    BY <1>4, <1>5, <2>2
  <2> QED
    BY <2>1, <2>2, Zenon
<1> HIDE DEF u
<1>7. /\ life' = "runnable" /\ Rung' /\ OneRuns' /\ JoinsEnd'
      /\ state'[u] = "ready" /\ kind'[u] = "none"
  BY <1>2, <1>3, <1>4, WakeStrict, Zenon
<1>8. OnlyMoves(u)
  BY <1>2, <1>3, <1>4, WakeFacts, Zenon
<1>9. Listed'
  BY <1>2, <1>4, <1>5, <1>6, <1>7, <1>8, WakeListed, Zenon DEF Strict
<1> QED
  BY <1>4, <1>5, <1>7, <1>9, ChannelsStrict, Zenon

\* A send into the buffer, or a receive from it, moves no task.
LEMMA NoTaskMoves ==
  ASSUME TasksInv, RestoreInv, Running,
         UNCHANGED <<life, state, on, ready, active, opened, used, start, room, senders,
                     receivers, kind>>
  PROVE  RestoreInv'
<1>1. Strict /\ life' = "runnable"
  BY StrictFacts, Zenon
<1>2. Rung' /\ OneRuns' /\ JoinsEnd'
  BY <1>1, Zenon DEF Strict, Rung, OneRuns, JoinsEnd, InSeq, WalkEnds
<1>3. Listed'
  BY <1>1, Zenon DEF Strict, Listed, OnList, InSeq
<1> QED
  BY <1>1, <1>2, <1>3, ChannelsStrict, Zenon

\* A task that parks was on no list, and is on the list of its channel afterwards.
LEMMA ParkRestore ==
  ASSUME TasksInv, RestoreInv, Running, NEW c \in Channels, Created(c), NEW value \in Nat,
         NEW what \in {"send", "receive"}, Park(what, value, c),
         InSeq(active, senders'[c]) \/ InSeq(active, receivers'[c]),
         \A t \in Tasks : \A d \in 1 .. opened : OnList(t, d) => OnList(t, d)',
         UNCHANGED <<opened, used, start, room>>
  PROVE  RestoreInv'
<1>1. /\ Strict /\ active \in Tasks /\ state[active] = "running" /\ TasksTypeOK
  BY StrictFacts, Zenon
<1>2. kind[active] = "none" /\ DOMAIN kind = Tasks
  BY <1>1, Zenon DEF Strict, Listed, TasksTypeOK
<1>3. Suspend("channel", c, TRUE) /\ kind' = [kind EXCEPT ![active] = what]
  <2>1. (kind[active] = "none") = TRUE
    BY <1>2, Zenon
  <2> QED
    BY <2>1, Zenon DEF Park
<1>4. /\ life' = "runnable" /\ Rung' /\ OneRuns'
      /\ state'[active] = "channel" /\ on'[active] = c
      /\ \A t \in Tasks \ {active} :
           /\ state'[t] = state[t] \/ (state[t] = "ready" /\ state'[t] = "running")
           /\ on'[t] = on[t]
  BY <1>3, SuspendStrict, Zenon
<1>5. JoinsEnd'
  BY <1>1, <1>4, JoinsKept, ZenonT(40) DEF Strict
<1>6. c \in 1 .. opened
  BY <1>1 DEF Created, Channels, TasksTypeOK
<1>7. Listed'
  <2> SUFFICES ASSUME NEW t \in Tasks
               PROVE  /\ kind'[t] # "none" => state'[t] = "channel"
                      /\ state'[t] = "channel" => on'[t] \in 1 .. opened /\ OnList(t, on[t])'
    BY Zenon DEF Listed
  <2>1. CASE t = active
    BY <1>4, <1>6, <2>1, Zenon DEF OnList
  <2>2. CASE t # active
    <3>1. /\ kind[t] # "none" => state[t] = "channel"
          /\ state[t] = "channel" => on[t] \in 1 .. opened /\ OnList(t, on[t])
      BY <1>1, Zenon DEF Strict, Listed
    <3>2. /\ kind'[t] = kind[t] /\ on'[t] = on[t]
          /\ state'[t] = "channel" <=> state[t] = "channel"
      BY <1>2, <1>3, <1>4, <2>2, Zenon
    <3>3. state[t] = "channel" => OnList(t, on[t])'
      <4> SUFFICES ASSUME state[t] = "channel"
                   PROVE  OnList(t, on[t])'
        BY Zenon
      <4>1. PICK d \in 1 .. opened : d = on[t]
        BY <3>1, Zenon
      <4>2. OnList(t, d)'
        BY <3>1, <4>1, Zenon
      <4> QED
        BY <3>2, <4>1, <4>2, Zenon DEF OnList
    <3> QED
      BY <3>1, <3>2, <3>3, Zenon
  <2> QED
    BY <2>1, <2>2, Zenon
<1> QED
  BY <1>1, <1>4, <1>5, <1>7, ChannelsStrict, Zenon

LEMMA SendParksRestore ==
  ASSUME TasksInv, RestoreInv, Running, NEW c \in Channels, Created(c), SendParks(c)
  PROVE  RestoreInv'
<1>1. /\ sent[c] + 1 \in Nat /\ senders[c] \in Seq(Tasks)
  BY ChannelFacts
<1>2. active \in Tasks /\ senders \in [Channels -> Seq(Tasks)]
  BY StrictFacts, Zenon DEF TasksTypeOK
<1>3. /\ Park("send", sent[c] + 1, c)
      /\ senders' = [senders EXCEPT ![c] = Append(@, active)]
      /\ UNCHANGED <<opened, used, start, room, receivers>>
  BY Zenon DEF SendParks
<1>4. senders'[c] = Append(senders[c], active)
  BY <1>2, <1>3, Zenon
<1>5. InSeq(active, senders'[c])
  BY <1>1, <1>2, <1>4, InAppend, Zenon
<1>6. \A t \in Tasks : \A d \in 1 .. opened : OnList(t, d) => OnList(t, d)'
  <2> SUFFICES ASSUME NEW t \in Tasks, NEW d \in 1 .. opened, InSeq(t, senders[d])
               PROVE  InSeq(t, senders'[d])
    BY <1>3, Zenon DEF OnList, InSeq
  <2>1. CASE d = c
    BY <1>1, <1>2, <1>4, <2>1, InAppend, Zenon
  <2>2. CASE d # c
    BY <1>2, <1>3, <2>2
  <2> QED
    BY <2>1, <2>2, Zenon
<1> QED
  BY <1>1, <1>3, <1>5, <1>6, ParkRestore, Zenon

LEMMA ReceiveParksRestore ==
  ASSUME TasksInv, RestoreInv, Running, NEW c \in Channels, Created(c), ReceiveParks(c)
  PROVE  RestoreInv'
<1>1. /\ taken[c] + Len(receivers[c]) + 1 \in Nat /\ receivers[c] \in Seq(Tasks)
  BY ChannelFacts
<1>2. active \in Tasks /\ receivers \in [Channels -> Seq(Tasks)]
  BY StrictFacts, Zenon DEF TasksTypeOK
<1>3. /\ Park("receive", taken[c] + Len(receivers[c]) + 1, c)
      /\ receivers' = [receivers EXCEPT ![c] = Append(@, active)]
      /\ UNCHANGED <<opened, used, start, room, senders>>
  BY Zenon DEF ReceiveParks
<1>4. receivers'[c] = Append(receivers[c], active)
  BY <1>2, <1>3, Zenon
<1>5. InSeq(active, receivers'[c])
  BY <1>1, <1>2, <1>4, InAppend, Zenon
<1>6. \A t \in Tasks : \A d \in 1 .. opened : OnList(t, d) => OnList(t, d)'
  <2> SUFFICES ASSUME NEW t \in Tasks, NEW d \in 1 .. opened, InSeq(t, receivers[d])
               PROVE  InSeq(t, receivers'[d])
    BY <1>3, Zenon DEF OnList, InSeq
  <2>1. CASE d = c
    BY <1>1, <1>2, <1>4, <2>1, InAppend, Zenon
  <2>2. CASE d # c
    BY <1>2, <1>3, <2>2
  <2> QED
    BY <2>1, <2>2, Zenon
<1> QED
  BY <1>1, <1>3, <1>5, <1>6, ParkRestore, Zenon

-----------------------------------------------------------------------------
(* What restore() demands                                                  *)

LEMMA SchedulerRestorable ==
  ASSUME TasksInv, life = "runnable", Strict
  PROVE  SchedulerAccepted
<1>1. /\ state \in [Tasks -> States] /\ ready \in Seq(Tasks) /\ RingOK(state, ready)
      /\ ActiveRuns /\ active \in Tasks \cup {None} /\ opened \in Nat
  BY SMTT(30) DEF TasksInv, TasksTypeOK, Sound
<1>2. Len(ready) <= Capacity /\ DOMAIN ready = 1 .. Len(ready)
  BY <1>1, NoRepetition DEF RingOK
<1>3. ASSUME NEW t \in Tasks
      PROVE  /\ state[t] = "running" <=> active = t
             /\ state[t] = "channel" => on[t] # 0
             /\ state[t] = "join" => WalkEnds(t)
  <2>1. t # None
    BY CapacityAssumption DEF Tasks, None
  <2>2. state[t] = "running" <=> active = t
    BY <1>1, <2>1, Zenon DEF ActiveRuns, Strict, OneRuns
  <2>3. state[t] = "channel" => on[t] # 0
    BY <1>1 DEF Strict, Listed
  <2> QED
    BY <2>2, <2>3, Zenon DEF Strict, JoinsEnd
<1>4. \A i, j \in DOMAIN ready : ready[i] = ready[j] => i = j
  BY <1>1, <1>2, Zenon DEF RingOK
<1>5. {ready[i] : i \in DOMAIN ready} = {t \in Tasks : state[t] = "ready"}
  <2>1. \A i \in 1 .. Len(ready) : ready[i] \in Tasks /\ state[ready[i]] = "ready"
    BY <1>1 DEF RingOK
  <2>2. \A t \in Tasks : state[t] = "ready" => \E i \in 1 .. Len(ready) : ready[i] = t
    BY Zenon DEF Strict, Rung, InSeq
  <2> QED
    BY <1>2, <2>1, <2>2, SMTT(30)
<1> QED
  BY <1>2, <1>3, <1>4, <1>5, ZenonT(40) DEF SchedulerAccepted

LEMMA CreatedChannels ==
  ASSUME TasksTypeOK, NEW c \in 1 .. opened
  PROVE  c \in Channels /\ Created(c)
<1>1. opened \in 0 .. ChannelCount
  BY Zenon DEF TasksTypeOK
<1> QED
  BY <1>1, ChannelAssumption DEF Channels, Created

\* The number a waiter holds tells its position on its list.
Base(c, w) == IF w = "send" THEN taken[c] + Len(buf[c]) ELSE taken[c]

LEMMA WaitListFacts ==
  ASSUME TasksInv, life = "runnable", NEW c \in 1 .. opened, NEW w \in {"send", "receive"}
  PROVE  /\ c \in Channels /\ WaitList(c, w) \in Seq(Tasks) /\ Base(c, w) \in Nat
         /\ DOMAIN WaitList(c, w) = 1 .. Len(WaitList(c, w))
         /\ \A i \in DOMAIN WaitList(c, w) :
              /\ i \in Nat /\ WaitList(c, w)[i] \in Tasks
              /\ state[WaitList(c, w)[i]] = "channel" /\ on[WaitList(c, w)[i]] = c
              /\ kind[WaitList(c, w)[i]] = w
              /\ held[WaitList(c, w)[i]] = Base(c, w) + i
<1>1. TasksTypeOK /\ WaitersWait /\ Delivery
  BY Zenon DEF TasksInv, Sound
<1>2. c \in Channels
  BY <1>1, CreatedChannels, Zenon
<1>3. /\ senders[c] \in Seq(Tasks) /\ receivers[c] \in Seq(Tasks)
      /\ taken[c] \in Nat /\ Len(buf[c]) \in Nat
  BY <1>1, <1>2, ListedTasks, Zenon DEF TasksTypeOK
<1>4. WaitList(c, w) \in Seq(Tasks) /\ Base(c, w) \in Nat
  BY <1>3 DEF WaitList, Base
<1>5. DOMAIN WaitList(c, w) = 1 .. Len(WaitList(c, w))
  BY <1>4
<1>6. ASSUME NEW i \in 1 .. Len(WaitList(c, w))
      PROVE  /\ i \in Nat /\ WaitList(c, w)[i] \in Tasks
             /\ state[WaitList(c, w)[i]] = "channel" /\ on[WaitList(c, w)[i]] = c
             /\ kind[WaitList(c, w)[i]] = w
             /\ held[WaitList(c, w)[i]] = Base(c, w) + i
  <2>1. i \in Nat /\ WaitList(c, w)[i] \in Tasks
    BY <1>4, SMTT(30)
  <2>2. CASE w = "send"
    BY <1>1, <1>2, <1>6, <2>1, <2>2, SMTT(30) DEF WaitList, Base, WaitersWait, Delivery
  <2>3. CASE w = "receive"
    BY <1>1, <1>2, <1>6, <2>1, <2>3, SMTT(30) DEF WaitList, Base, WaitersWait, Delivery
  <2> QED
    BY <2>2, <2>3, Zenon
<1> QED
  BY <1>2, <1>4, <1>5, <1>6, Zenon

\* A task is visited exactly when it is on a list.
LEMMA VisitedFacts ==
  ASSUME TasksInv, life = "runnable", NEW t \in Tasks
  PROVE  t \in Visited <=> \E c \in 1 .. opened : OnList(t, c)
<1>1. t \in Visited <=> \E c \in 1 .. opened : \E w \in {"send", "receive"} :
                          \E i \in DOMAIN WaitList(c, w) : WaitList(c, w)[i] = t
  BY DEF Visited, Waiters
<1>2. ASSUME NEW c \in 1 .. opened
      PROVE  OnList(t, c) <=> \E w \in {"send", "receive"} :
                                \E i \in DOMAIN WaitList(c, w) : WaitList(c, w)[i] = t
  <2>1. \A w \in {"send", "receive"} : DOMAIN WaitList(c, w) = 1 .. Len(WaitList(c, w))
    BY WaitListFacts
  <2>2. WaitList(c, "send") = senders[c] /\ WaitList(c, "receive") = receivers[c]
    BY Zenon DEF WaitList
  <2> QED
    BY <2>1, <2>2, ZenonT(40) DEF OnList, InSeq
<1> QED
  BY <1>1, <1>2, Zenon

LEMMA ChannelsRestorable ==
  ASSUME TasksInv, life = "runnable", Strict
  PROVE  ChannelsAccepted
<1>0. \A c \in 1 .. opened, w \in {"send", "receive"} :
         /\ Base(c, w) \in Nat
         /\ \A i \in DOMAIN WaitList(c, w) :
               /\ i \in Nat /\ on[WaitList(c, w)[i]] = c /\ kind[WaitList(c, w)[i]] = w
               /\ held[WaitList(c, w)[i]] = Base(c, w) + i
  BY WaitListFacts, SMTT(30)
<1>1. TasksTypeOK /\ RoomOK /\ Awake
  BY Zenon DEF TasksInv, Sound
<1>2. ASSUME NEW c \in 1 .. opened
      PROVE  /\ start[c] = EndBefore(c)
             /\ room[c] > 0
             /\ start[c] + room[c] <= ValueCount
             /\ Len(buf[c]) <= room[c]
             /\ senders[c] # <<>> => Len(buf[c]) = room[c]
             /\ receivers[c] # <<>> => buf[c] = <<>>
  <2>1. c \in Channels /\ Created(c)
    BY <1>1, CreatedChannels, Zenon
  <2> QED
    BY <1>1, <2>1, Zenon DEF Strict, Shared, RoomOK, Awake
<1>3. \A c \in 1 .. opened, w \in {"send", "receive"} : \A i \in DOMAIN WaitList(c, w) :
        kind[WaitList(c, w)[i]] = w
  BY WaitListFacts, SMTT(30)
<1>4. used = EndBefore(opened + 1) /\ used <= ValueCount
  BY <1>1 DEF Strict, Shared, TasksTypeOK
<1>5. ASSUME NEW c \in 1 .. opened, NEW d \in 1 .. opened,
             NEW v \in {"send", "receive"}, NEW w \in {"send", "receive"},
             NEW i \in DOMAIN WaitList(c, v), NEW j \in DOMAIN WaitList(d, w),
             WaitList(c, v)[i] = WaitList(d, w)[j]
      PROVE  <<c, v, i>> = <<d, w, j>>
  <2> DEFINE t == WaitList(c, v)[i]
  <2>1. /\ on[t] = c /\ kind[t] = v /\ held[t] = Base(c, v) + i
        /\ i \in Nat /\ Base(c, v) \in Nat
    BY <1>0, SMTT(30)
  <2>2. /\ on[t] = d /\ kind[t] = w /\ held[t] = Base(d, w) + j
        /\ j \in Nat
    BY <1>0, <1>5, SMTT(30)
  <2> HIDE DEF t
  <2>3. c = d /\ v = w
    BY <2>1, <2>2, Zenon
  <2>4. Base(c, v) + i = Base(c, v) + j
    BY <2>1, <2>2, <2>3, Zenon
  <2>5. i = j
    BY <2>1, <2>2, <2>4
  <2> QED
    BY <2>3, <2>5, ZenonT(40)
<1>6. ASSUME NEW t \in Tasks
      PROVE  kind[t] # "none" <=> t \in Visited
  <2>1. ASSUME NEW c \in 1 .. opened, OnList(t, c)
        PROVE  kind[t] # "none"
    <3>1. c \in Channels /\ WaitersWait
      BY <1>1, CreatedChannels, Zenon DEF TasksInv, Sound
    <3> QED
      BY <2>1, <3>1 DEF OnList, InSeq, WaitersWait
  <2>2. kind[t] # "none" => \E c \in 1 .. opened : OnList(t, c)
    BY Zenon DEF Strict, Listed
  <2> QED
    BY <2>1, <2>2, VisitedFacts, Zenon
<1> QED
  BY <1>2, <1>3, <1>4, <1>5, <1>6, ZenonT(40) DEF ChannelsAccepted

LEMMA ContinuationsRestorable ==
  ASSUME TasksInv, life = "runnable", Strict
  PROVE  ContinuationsAccepted
<1>1. ASSUME NEW c \in 1 .. opened, NEW t \in Waiters(c)
      PROVE  state[t] = "channel" /\ on[t] = c
  <2>1. PICK w \in {"send", "receive"} : \E i \in DOMAIN WaitList(c, w) : t = WaitList(c, w)[i]
    BY Zenon DEF Waiters
  <2> QED
    BY <2>1, WaitListFacts
<1>2. \A t \in Tasks : state[t] = "channel" => t \in Visited
  BY VisitedFacts, Zenon DEF Strict, Listed
<1> QED
  BY <1>1, <1>2, ZenonT(40) DEF ContinuationsAccepted

\* The root ends: no task is left, and the channels are as they were.
LEMMA RootEndsRestore ==
  ASSUME TasksInv, RestoreInv, RootEnds
  PROVE  RestoreInv'
<1>1. life = "runnable" /\ Strict
  BY StrictFacts, Zenon DEF RootEnds
<1>2. /\ life' = "halted" /\ state' = [t \in Tasks |-> "vacant"]
      /\ ready' = <<>> /\ active' = None
      /\ UNCHANGED <<opened, used, start, room, buf, senders, receivers, kind>>
  BY Zenon DEF RootEnds, chanVars
<1>3. SchedulerAccepted'
  <2>1. Len(ready') = 0 /\ DOMAIN ready' = {}
    BY <1>2
  <2>2. \A t \in Tasks : state'[t] = "vacant" /\ active' # t
    BY <1>2, CapacityAssumption DEF Tasks, None
  <2> QED
    BY <2>1, <2>2, CapacityAssumption DEF SchedulerAccepted
<1>4. ChannelsAccepted'
  BY <1>1, <1>2, ChannelsRestorable, ChannelsSame, Zenon
<1> QED
  BY <1>2, <1>3, <1>4, Zenon DEF RestoreInv

LEMMA StutterRestore ==
  ASSUME RestoreInv, UNCHANGED taskVars
  PROVE  RestoreInv'
<1>1. UNCHANGED <<life, state, on, ready, active, opened, used, start, room, buf, senders,
                  receivers, kind>>
  BY ZenonT(40) DEF taskVars
<1>2. life' = "runnable" => Strict'
  <2> SUFFICES ASSUME Strict PROVE Strict'
    BY <1>1, Zenon DEF RestoreInv
  <2>1. Rung' /\ OneRuns'
    BY <1>1, Zenon DEF Strict, Rung, OneRuns
  <2>2. Listed'
    BY <1>1, Zenon DEF Strict, Listed, OnList
  <2>3. \A c : EndBefore(c)' = EndBefore(c)
    BY <1>1, Zenon DEF EndBefore
  <2>4. Shared'
    BY <1>1, <2>3, Zenon DEF Strict, Shared
  <2>5. JoinsEnd'
    BY <1>1, Zenon DEF Strict, JoinsEnd, WalkEnds
  <2> QED
    BY <2>1, <2>2, <2>4, <2>5, Zenon DEF Strict
<1>3. life' = "halted" => SchedulerAccepted'
  BY <1>1, SchedulerSame, Zenon DEF RestoreInv
<1>4. life' = "halted" => ChannelsAccepted'
  BY <1>1, ChannelsSame, Zenon DEF RestoreInv
<1> QED
  BY <1>1, <1>2, <1>3, <1>4, Zenon DEF RestoreInv

-----------------------------------------------------------------------------
(* The theorem                                                             *)

\* A checkpoint taken after any instruction of any task, or after the program has
\* ended, is one restore() accepts (Machine::validate_checkpoint_storage), and no
\* step finds the scheduler's or the arena's own state corrupt.
THEOREM CheckpointsRestorable == TasksSpec => []TasksRestorable
<1>1. TasksInit => RestoreInv
  BY Zenon DEF TasksInit, RestoreInv
<1>2. TasksInv /\ RestoreInv /\ [TasksNext]_taskVars => RestoreInv'
  <2> SUFFICES ASSUME TasksInv, RestoreInv, [TasksNext]_taskVars
               PROVE  RestoreInv'
    BY Zenon
  <2>1. CASE StartRoot
    BY <2>1, StartRootRestore, Zenon
  <2>2. CASE Spawn
    BY <2>2, SpawnRestore, Zenon
  <2>3. CASE CompleteCurrent
    BY <2>3, CompleteCurrentRestore, Zenon
  <2>4. CASE RootEnds
    BY <2>4, RootEndsRestore, Zenon
  <2>5. CASE Fault
    BY <2>5, FaultedRestore, Zenon DEF Fault
  <2>6. CASE HostCall
    BY <2>6, HostCallRestore, Zenon
  <2>7. ASSUME NEW t \in Tasks, Join(t)
        PROVE  RestoreInv'
    BY <2>7, JoinRestore, Zenon
  <2>8. ASSUME NEW n \in Requested, ChannelCreate(n)
        PROVE  RestoreInv'
    BY <2>8, ChannelCreateRestore, Zenon
  <2>9. ASSUME NEW c \in Channels, ChannelSend(c)
        PROVE  RestoreInv'
    <3>1. Running /\ Created(c)
      BY <2>9, Zenon DEF ChannelSend
    <3>2. CASE SendToBuffer(c)
      BY <3>1, <3>2, NoTaskMoves, Zenon DEF SendToBuffer, schedVars
    <3> QED
      BY <2>9, <3>1, <3>2, SendToReceiverRestore, SendParksRestore, Zenon DEF ChannelSend
  <2>10. ASSUME NEW c \in Channels, ChannelReceive(c)
         PROVE  RestoreInv'
    <3>1. Running /\ Created(c)
      BY <2>10, Zenon DEF ChannelReceive
    <3>2. CASE ReceiveAlone(c)
      BY <3>1, <3>2, NoTaskMoves, Zenon DEF ReceiveAlone, schedVars
    <3> QED
      BY <2>10, <3>1, <3>2, ReceiveRefillRestore, ReceiveParksRestore, Zenon DEF ChannelReceive
  <2>11. ASSUME NEW t \in Tasks, CompleteHost(t)
         PROVE  RestoreInv'
    BY <2>11, CompleteHostRestore, Zenon
  <2>12. CASE UNCHANGED taskVars
    BY <2>12, StutterRestore, Zenon
  <2> QED
    BY <2>1, <2>2, <2>3, <2>4, <2>5, <2>6, <2>7, <2>8, <2>9, <2>10, <2>11, <2>12, Zenon
    DEF TasksNext, TaskStep
<1>3. TasksInv /\ RestoreInv => TasksRestorable
  <2> SUFFICES ASSUME TasksInv, RestoreInv
               PROVE  TasksRestorable
    BY Zenon
  <2>1. life = "runnable" => SchedulerAccepted /\ ChannelsAccepted /\ ContinuationsAccepted
    BY SchedulerRestorable, ChannelsRestorable, ContinuationsRestorable, Zenon DEF RestoreInv
  <2> QED
    BY <2>1, Zenon DEF TasksInv, RestoreInv, TasksRestorable
<1> QED
  BY <1>1, <1>2, <1>3, TasksInvariant, PTL DEF TasksSpec

--------------------------------------------------------------------------------
(* A session takes only steps of GuestTasks.  What has to be known of it is that  *)
(* every request and response at the boundary names a task, that a slice of the   *)
(* Guest runs only while a task is active and no response is being read, and that *)
(* a response finds no frames to be written to once no task is active.            *)

Request == [task : Tasks, id : Nat, call : Calls]
Reply == [task : Tasks, id : Nat, value : Answers]
Responses == [task : Tasks, id : Nat, back : Tasks \cup {None},
              result : {"string", "bytes", "record"}, left : Nat, tried : BOOLEAN]

BoundaryInv ==
  /\ pending \subseteq Request /\ preparing \subseteq Request
  /\ replies \in Seq(Reply) /\ reading \subseteq Responses
  /\ nextId \in Nat
  /\ phase = "run" => active # None

\* No response is read while the Guest runs. When the task that was active as one
\* began has been suspended and none is left, no frames are loaded.
IdleInv ==
  /\ phase = "run" => reading = {}
  /\ active = None => \A r \in reading : r.back = None \/ frames = None

\* What a step does to the tasks.
TaskMove == TasksNext \/ UNCHANGED taskVars

LEMMA DeliverMoves ==
  ASSUME NEW t \in Tasks, Deliver(t)
  PROVE  TaskMove
BY Zenon DEF Deliver, TaskMove, TasksNext

LEMMA DeliverOrFaultMoves ==
  ASSUME NEW t \in Tasks, NEW id, NEW result, DeliverOrFault(t, id, result)
  PROVE  TaskMove
BY DeliverMoves, Zenon DEF DeliverOrFault, TaskMove

LEMMA FailMoves ==
  ASSUME NEW t \in Tasks, NEW id, Fail(t, id)
  PROVE  TaskMove
BY Zenon DEF Fail, TaskMove, TasksNext

\* The response being materialised.
LEMMA OnlyOne ==
  ASSUME NEW S, S # {}
  PROVE  Only(S) \in S
BY DEF Only

\* While a task is active, completing another one's request is all that happens.
LEMMA HostDoneMoves ==
  ASSUME NEW t \in Tasks, active # None, HostDone(t)
  PROVE  CompleteHost(t)
BY Zenon DEF HostDone, CompleteHost

LEMMA FinishMoves ==
  ASSUME BoundaryInv, IdleInv, reading # {}, FinishReading
  PROVE  TaskMove
<1> DEFINE r == Only(reading)
<1>1. r \in reading /\ r \in Responses
  BY OnlyOne, Zenon DEF BoundaryInv
<1>2. r.task \in Tasks
  BY <1>1 DEF Responses
<1>3. \/ Fault
      \/ CompleteHost(r.task)
      \/ Takes(frames, r.result) /\ r.back # None /\ HostDone(r.task)
      \/ UNCHANGED taskVars
  BY Zenon DEF FinishReading
<1> HIDE DEF r
<1>4. CASE Takes(frames, r.result) /\ r.back # None /\ HostDone(r.task)
  <2>1. active # None
    BY <1>1, <1>4, Zenon DEF IdleInv, Takes
  <2> QED
    BY <1>2, <1>4, <2>1, HostDoneMoves, Zenon DEF TaskMove, TasksNext
<1> QED
  BY <1>2, <1>3, <1>4, Zenon DEF TaskMove, TasksNext, TaskStep

\* A new response is of a waiting task.
LEMMA BeginReads ==
  ASSUME BoundaryInv, active \in Tasks \cup {None},
         NEW t \in Tasks, NEW id \in Nat, NEW result \in {"string", "bytes", "record"},
         BeginReading(t, id, result)
  PROVE  reading' \subseteq Responses
<1> DEFINE n == IF result = "record" THEN RecordParts ELSE 1
           r == [task |-> t, id |-> id, back |-> active, result |-> result, left |-> n, tried |-> FALSE]
<1>1. reading' = reading \/ reading' = {r}
  BY Zenon DEF BeginReading, Response
<1>2. n \in Nat
  BY LimitsAssumption
<1> HIDE DEF n
<1>3. r \in Responses
  BY <1>2, Zenon DEF Responses
<1> QED
  BY <1>1, <1>3, Zenon DEF BoundaryInv

\* The host's answer.
LEMMA ResumeStep ==
  ASSUME BoundaryInv, active \in Tasks \cup {None}, NEW p \in pending, NEW v \in Answers, Resume(p, v)
  PROVE  TaskMove /\ BoundaryInv'
<1>1. /\ p \in Request /\ phase' = "idle" /\ preparing' = preparing /\ nextId' = nextId
      /\ pending' \subseteq pending
  BY Zenon DEF Resume, BoundaryInv
<1>2. p.task \in Tasks /\ p.id \in Nat
  BY <1>1 DEF Request
<1>3. CASE ResumeCancelled(p)
  <2>1. UNCHANGED taskVars /\ replies' = replies /\ reading' = reading
    BY <1>3, Zenon DEF ResumeCancelled
  <2> QED
    BY <1>1, <2>1, Zenon DEF TaskMove, BoundaryInv
<1>4. CASE ResumeDirect(p, v)
  <2>1. replies' = replies
    BY <1>4, Zenon DEF ResumeDirect
  <2>2. CASE Deliver(p.task) /\ reading' = reading
    BY <1>1, <1>2, <2>1, <2>2, DeliverMoves, Zenon DEF BoundaryInv
  <2>4. CASE DeliverOrFault(p.task, p.id, "string") /\ reading' = reading
    BY <1>1, <1>2, <2>1, <2>4, DeliverOrFaultMoves, Zenon DEF BoundaryInv
  <2>3. CASE BeginReading(p.task, p.id, "string") /\ UNCHANGED taskVars
    <3>1. reading' \subseteq Responses
      BY <1>2, <2>3, BeginReads, SMTT(30)
    <3> QED
      BY <1>1, <2>1, <2>3, <3>1, Zenon DEF TaskMove, BoundaryInv
  <2> QED
    BY <1>4, <2>2, <2>3, <2>4, Zenon DEF ResumeDirect
<1>5. CASE ResumeQueued(p, v)
  <2> DEFINE r == [task |-> p.task, id |-> p.id, value |-> v]
  <2>1. replies' = Append(replies, r) /\ reading' = reading /\ UNCHANGED taskVars
    BY <1>5, ZenonT(40) DEF ResumeQueued
  <2>2. r \in Reply
    BY <1>2, Zenon DEF Reply
  <2> HIDE DEF r
  <2>3. replies' \in Seq(Reply)
    BY <2>1, <2>2 DEF BoundaryInv
  <2> QED
    BY <1>1, <2>1, <2>3, Zenon DEF TaskMove, BoundaryInv
<1> QED
  BY <1>3, <1>4, <1>5, Zenon DEF Resume

\* A queued reply is taken.
LEMMA TakeReplyStep ==
  ASSUME BoundaryInv, active \in Tasks \cup {None}, TakeReply
  PROVE  TaskMove /\ BoundaryInv'
<1> DEFINE r == Head(replies)
<1>1. /\ replies # <<>> /\ replies' = Tail(replies) /\ pending' = pending
      /\ preparing' = preparing /\ nextId' = nextId
  BY Zenon DEF TakeReply
<1>2. phase' \in {"advance", "idle"}
  BY Zenon DEF TakeReply, Going
<1>3. r \in Reply /\ replies' \in Seq(Reply)
  BY <1>1 DEF BoundaryInv
<1>4. r.task \in Tasks /\ r.id \in Nat
  BY <1>3 DEF Reply
<1>5. \/ DeliverOrFault(r.task, r.id, Carries(r.value)) /\ reading' = reading
      \/ Fail(r.task, r.id) /\ reading' = reading
      \/ /\ r.value \in {"text", "bytes", "record"}
         /\ BeginReading(r.task, r.id, Carries(r.value))
         /\ UNCHANGED taskVars
  BY Zenon DEF TakeReply
<1> HIDE DEF r
<1>6. TaskMove /\ reading' \subseteq Responses
  <2>1. CASE DeliverOrFault(r.task, r.id, Carries(r.value)) /\ reading' = reading
    BY <1>4, <2>1, DeliverOrFaultMoves, Zenon DEF BoundaryInv
  <2>2. CASE Fail(r.task, r.id) /\ reading' = reading
    BY <1>4, <2>2, FailMoves, Zenon DEF BoundaryInv
  <2>3. CASE /\ r.value \in {"text", "bytes", "record"}
             /\ BeginReading(r.task, r.id, Carries(r.value))
             /\ UNCHANGED taskVars
    <3>1. Carries(r.value) \in {"string", "bytes", "record"}
      BY <2>3, Zenon DEF Carries
    <3> QED
      BY <1>4, <2>3, <3>1, BeginReads, Zenon DEF TaskMove
  <2> QED
    BY <1>5, <2>1, <2>2, <2>3, Zenon
<1> QED
  BY <1>1, <1>2, <1>3, <1>6, Zenon DEF BoundaryInv

\* The end of a collection.
LEMMA CollectorStep ==
  ASSUME BoundaryInv, CollectorDone
  PROVE  TaskMove /\ BoundaryInv'
<1>1. /\ phase' = "idle" /\ pending' = pending /\ preparing' = preparing /\ replies' = replies
      /\ nextId' = nextId /\ (UNCHANGED taskVars \/ Fault)
      /\ reading' = reading \/ reading' = {[r EXCEPT !.tried = TRUE] : r \in reading}
  BY Zenon DEF CollectorDone
<1>2. TaskMove
  BY <1>1, Zenon DEF TaskMove, TasksNext, TaskStep
<1>3. ASSUME NEW r \in reading PROVE [r EXCEPT !.tried = TRUE] \in Responses
  <2>1. r \in Responses
    BY Zenon DEF BoundaryInv
  <2> QED
    BY <2>1, Zenon DEF Responses
<1> DEFINE tried == {[r EXCEPT !.tried = TRUE] : r \in reading}
<1>4. tried \subseteq Responses
  BY <1>3
<1>5. reading' = reading \/ reading' = tried
  BY <1>1, Zenon
<1> HIDE DEF tried
<1>6. reading' \subseteq Responses
  BY <1>4, <1>5, Zenon DEF BoundaryInv
<1> QED
  BY <1>1, <1>2, <1>6, Zenon DEF BoundaryInv

LEMMA ReadSliceStep ==
  ASSUME BoundaryInv, IdleInv, ReadSlice
  PROVE  TaskMove /\ BoundaryInv'
<1>1. CASE CollectorDone
  BY <1>1, CollectorStep
<1>2. CASE ~CollectorDone
  <2>1. PICK r \in reading :
          \/ /\ r.left > 1 /\ reading' = {[r EXCEPT !.left = @ - 1, !.tried = FALSE]}
             /\ UNCHANGED taskVars
          \/ FinishReading
          \/ UNCHANGED taskVars /\ reading' = reading
          \/ Fault /\ reading' = reading
    BY <1>2, Zenon DEF ReadSlice
  <2>2. /\ phase' = "idle" /\ pending' = pending /\ preparing' = preparing /\ replies' = replies
        /\ nextId' = nextId
    BY <1>2, Zenon DEF ReadSlice
  <2>3. r \in Responses
    BY Zenon DEF BoundaryInv
  <2>4. CASE /\ r.left > 1 /\ reading' = {[r EXCEPT !.left = @ - 1, !.tried = FALSE]}
             /\ UNCHANGED taskVars
    <3> DEFINE n == r.left - 1
               m == [r EXCEPT !.left = n]
               e == [m EXCEPT !.tried = FALSE]
    <3>1. n \in Nat
      BY <2>3, <2>4 DEF Responses
    <3>2. reading' = {e}
      BY <2>3, <2>4 DEF Responses
    <3> HIDE DEF n
    <3>3. m \in Responses
      BY <2>3, <3>1, Zenon DEF Responses
    <3> HIDE DEF m
    <3>4. e \in Responses
      BY <3>3, Zenon DEF Responses
    <3> QED
      BY <2>2, <2>4, <3>2, <3>4, Zenon DEF TaskMove, BoundaryInv
  <2>5. CASE FinishReading
    <3>1. reading' = {} \/ reading' = reading
      BY <2>5, Zenon DEF FinishReading
    <3>2. TaskMove
      BY <2>5, FinishMoves, Zenon
    <3> QED
      BY <2>2, <3>1, <3>2, Zenon DEF BoundaryInv
  <2>6. CASE (UNCHANGED taskVars \/ Fault) /\ reading' = reading
    BY <2>2, <2>6, Zenon DEF TaskMove, TasksNext, TaskStep, BoundaryInv
  <2> QED
    BY <2>1, <2>4, <2>5, <2>6, Zenon
<1> QED
  BY <1>1, <1>2

\* A request is published.
LEMMA PublishStep ==
  ASSUME BoundaryInv, NEW id \in Nat, NEW t \in Tasks, NEW call \in Calls, Publish(id, t, call)
  PROVE  TaskMove /\ pending' \subseteq Request /\ nextId' \in Nat
<1> DEFINE p == [task |-> t, id |-> id, call |-> call]
<1>1. /\ nextId' = id + 1
      /\ \/ UNCHANGED taskVars /\ pending' = pending
         \/ HostCall /\ pending' = pending \cup {p}
  BY Zenon DEF Publish
<1>2. p \in Request
  BY DEF Request
<1> HIDE DEF p
<1>3. nextId' \in Nat
  BY <1>1
<1> QED
  BY <1>1, <1>2, <1>3, Zenon DEF TaskMove, TasksNext, TaskStep, BoundaryInv

LEMMA PrepareSliceStep ==
  ASSUME BoundaryInv, PrepareSlice
  PROVE  TaskMove /\ BoundaryInv'
<1>1. CASE PrepareLast
  <2>1. PICK p \in preparing : Publish(p.id, p.task, p.call)
    BY <1>1, Zenon DEF PrepareLast
  <2>2. preparing' = {} /\ phase' = "idle" /\ replies' = replies /\ reading' = reading
    BY <1>1, Zenon DEF PrepareSlice, PrepareLast
  <2>3. p \in Request
    BY Zenon DEF BoundaryInv
  <2>4. p.id \in Nat /\ p.task \in Tasks /\ p.call \in Calls
    BY <2>3 DEF Request
  <2>5. TaskMove /\ pending' \subseteq Request /\ nextId' \in Nat
    BY <2>1, <2>4, PublishStep
  <2> QED
    BY <2>2, <2>5, Zenon DEF BoundaryInv
<1>2. CASE PrepareRefused
  <2>1. /\ UNCHANGED taskVars /\ UNCHANGED <<preparing, replies, reading, nextId, pending>>
        /\ phase' = "idle"
    BY <1>2 DEF PrepareSlice, PrepareRefused, hostVars
  <2> QED
    BY <2>1 DEF TaskMove, BoundaryInv
<1> QED
  BY <1>1, <1>2, Zenon DEF PrepareSlice

LEMMA RunCallStep ==
  ASSUME BoundaryInv, active \in Tasks \cup {None}, NEW call \in Calls, RunCall(call)
  PROVE  TaskMove /\ BoundaryInv'
<1>1. active \in Tasks /\ nextId \in Nat
  BY Zenon DEF RunCall, Executes, BoundaryInv
<1>2. replies' = replies /\ reading' = reading
  BY Zenon DEF RunCall
<1>3. CASE call.text
  <2> DEFINE p == [task |-> active, id |-> nextId, call |-> call]
  <2>1. /\ preparing' = {p} /\ phase' = "idle" /\ UNCHANGED taskVars /\ pending' = pending
        /\ nextId' = nextId
    BY <1>3, Zenon DEF RunCall
  <2>2. p \in Request
    BY <1>1 DEF Request
  <2> HIDE DEF p
  <2> QED
    BY <1>2, <2>1, <2>2, Zenon DEF TaskMove, BoundaryInv
<1>4. CASE ~call.text
  <2>1. /\ Publish(nextId, active, call) /\ preparing' = preparing
        /\ phase' = IF active' = None THEN "idle" ELSE "run"
    BY <1>4, Zenon DEF RunCall
  <2>2. TaskMove /\ pending' \subseteq Request /\ nextId' \in Nat
    BY <1>1, <2>1, PublishStep, SMTT(30)
  <2>3. phase' = "run" => active' # None
    BY <2>1
  <2> QED
    BY <1>2, <2>1, <2>2, <2>3, Zenon DEF BoundaryInv
<1> QED
  BY <1>3, <1>4

\* The steps that leave the boundary alone.
LEMMA RunningStep ==
  ASSUME BoundaryInv, UNCHANGED <<preparing, replies, reading, nextId>>,
         pending' \in {pending, {}}, phase' = "run" => active' # None
  PROVE  BoundaryInv'
BY DEF BoundaryInv

LEMMA GuestStep ==
  ASSUME BoundaryInv, active \in Tasks \cup {None}, GuestRuns
  PROVE  TaskMove /\ BoundaryInv'
<1>0. phase = "run" => active # None
  BY Zenon DEF BoundaryInv
<1>1. CASE RunCollector
  BY <1>1, CollectorStep, Zenon DEF RunCollector
<1>2. CASE RunRaise
  <2>1. /\ UNCHANGED taskVars /\ UNCHANGED <<preparing, replies, reading, nextId>>
        /\ pending' = pending /\ phase = "run"
    BY <1>2 DEF RunRaise, hostVars
  <2>2. active' = active
    BY <2>1 DEF taskVars
  <2> QED
    BY <1>0, <2>1, <2>2, RunningStep, Zenon DEF TaskMove
<1>3. CASE RunException
  <2>1. UNCHANGED <<preparing, replies, reading, nextId>> /\ phase = "run"
    BY <1>3 DEF RunException
  <2>2. CASE Catch
    <3>1. UNCHANGED taskVars /\ pending' = pending
      BY <2>2 DEF Catch
    <3>2. active' = active
      BY <3>1 DEF taskVars
    <3> QED
      BY <1>0, <2>1, <3>1, <3>2, RunningStep, Zenon DEF TaskMove
  <2>3. CASE UncaughtRoot
    <3>1. RootEnds /\ pending' = {} /\ phase' = "idle"
      BY <2>3, Zenon DEF UncaughtRoot
    <3> QED
      BY <2>1, <3>1, RunningStep, Zenon DEF TaskMove, TasksNext, TaskStep
  <2>4. CASE UncaughtChild
    <3>1. CompleteCurrent /\ pending' = pending
      BY <2>4, Zenon DEF UncaughtChild
    <3>2. phase' = "run" => active' # None
      BY <2>4, Zenon DEF UncaughtChild
    <3> QED
      BY <2>1, <3>1, <3>2, RunningStep, Zenon DEF TaskMove, TasksNext, TaskStep
  <2> QED
    BY <1>3, <2>2, <2>3, <2>4, Zenon DEF RunException
<1>4. CASE RunSpawn
  <2>1. UNCHANGED <<preparing, replies, reading, nextId>> /\ pending' = pending /\ phase = "run"
    BY <1>4 DEF RunSpawn, Loops, hostVars, Plain, Executes
  <2>2. Spawn
    BY <1>4, Zenon DEF RunSpawn
  <2>3. active' = active
    BY <2>2, Zenon DEF Spawn, Faulted, schedVars
  <2> QED
    BY <1>0, <2>1, <2>2, <2>3, RunningStep, ZenonT(40) DEF TaskMove, TasksNext, TaskStep
<1>5. CASE RunReturn
  <2>1. CASE CompleteCurrent /\ Switched(saved) /\ pending' = pending
    <3>1. UNCHANGED <<preparing, replies, reading, nextId>>
      BY <2>1 DEF Switched
    <3>2. phase' = "run" => active' # None
      BY <2>1, Zenon DEF Switched
    <3> QED
      BY <2>1, <3>1, <3>2, RunningStep, Zenon DEF TaskMove, TasksNext, TaskStep
  <2>2. CASE RootEnds /\ pending' = {} /\ phase' = "idle"
             /\ UNCHANGED <<replies, preparing, reading, nextId>>
    <3>1. UNCHANGED <<preparing, replies, reading, nextId>>
      BY <2>2, SMTT(30)
    <3> QED
      BY <2>2, <3>1, RunningStep, Zenon DEF TaskMove, TasksNext, TaskStep
  <2> QED
    BY <1>5, <2>1, <2>2 DEF RunReturn
<1>6. CASE RunThrow
  <2>1. /\ UNCHANGED taskVars /\ UNCHANGED <<preparing, replies, reading, nextId>>
        /\ pending' = pending /\ phase = "run"
    BY <1>6 DEF RunThrow, Loops, hostVars, Plain, Executes
  <2>2. active' = active
    BY <2>1 DEF taskVars
  <2> QED
    BY <1>0, <2>1, <2>2, RunningStep, Zenon DEF TaskMove
<1>7. CASE RunCollects
  <2>1. /\ UNCHANGED taskVars /\ UNCHANGED <<preparing, replies, reading, nextId>>
        /\ pending' = pending /\ phase' = "idle"
    BY <1>7 DEF RunCollects, hostVars
  <2> QED
    BY <2>1, RunningStep, Zenon DEF TaskMove
<1>8. CASE RunFault
  <2>1. /\ Fault /\ UNCHANGED <<preparing, replies, reading, nextId>>
        /\ pending' = pending /\ phase' = "idle"
    BY <1>8 DEF RunFault, hostVars
  <2> QED
    BY <2>1, RunningStep, Zenon DEF TaskMove, TasksNext, TaskStep
<1>9. ASSUME NEW t \in Tasks, RunJoin(t) PROVE TaskMove /\ BoundaryInv'
  <2>1. Join(t) /\ pending' = pending
    BY <1>9, Zenon DEF RunJoin
  <2>2. UNCHANGED <<preparing, replies, reading, nextId>> /\ (phase' = "run" => active' # None)
    <3>1. CASE Switched(SavedSelf)
      <4>1. UNCHANGED <<preparing, replies, reading, nextId>>
        BY <3>1 DEF Switched
      <4>2. phase' = "run" => active' # None
        BY <3>1, Zenon DEF Switched
      <4> QED
        BY <4>1, <4>2
    <3>2. CASE phase' = "idle" /\ Loops
      BY <3>2 DEF Loops, hostVars
    <3> QED
      BY <1>9, <3>1, <3>2, Zenon DEF RunJoin
  <2> QED
    BY <2>1, <2>2, RunningStep, Zenon DEF TaskMove, TasksNext, TaskStep
<1>10. ASSUME NEW t \in Tasks, RunJoinFailed(t) PROVE TaskMove /\ BoundaryInv'
  <2>1. /\ UNCHANGED taskVars /\ UNCHANGED <<preparing, replies, reading, nextId>>
        /\ pending' = pending /\ phase = "run"
    BY <1>10 DEF RunJoinFailed, Loops, hostVars, Plain, Executes
  <2>2. active' = active
    BY <2>1 DEF taskVars
  <2> QED
    BY <1>0, <2>1, <2>2, RunningStep, ZenonT(40) DEF TaskMove
<1>11. ASSUME NEW call \in Calls, RunCall(call) PROVE TaskMove /\ BoundaryInv'
  BY <1>11, RunCallStep
<1> QED
  BY <1>1, <1>2, <1>3, <1>4, <1>5, <1>6, <1>7, <1>8, <1>9, <1>10, <1>11, Zenon DEF GuestRuns

LEMMA SessionStep ==
  ASSUME BoundaryInv, IdleInv, active \in Tasks \cup {None}, SessionNext
  PROVE  TaskMove /\ BoundaryInv'
<1>1. CASE Start
  <2>1. StartRoot /\ UNCHANGED <<preparing, replies, reading, nextId>> /\ pending' = pending
    BY <1>1 DEF Start, hostVars
  <2>2. active' # None
    BY <2>1 DEF StartRoot, ROOT, None
  <2> QED
    BY <2>1, <2>2, RunningStep, Zenon DEF TaskMove, TasksNext
<1>2. CASE Advance \/ EndSlice
  <2>1. /\ UNCHANGED taskVars /\ UNCHANGED <<preparing, replies, reading, nextId>>
        /\ pending' = pending /\ phase' # "run"
    BY <1>2 DEF Advance, EndSlice, hostVars
  <2> QED
    BY <2>1, RunningStep, Zenon DEF TaskMove
<1>3. CASE StartRun
  <2>1. /\ UNCHANGED taskVars /\ UNCHANGED <<preparing, replies, reading, nextId>>
        /\ pending' = pending /\ active # None
    BY <1>3 DEF StartRun, hostVars
  <2>2. active' = active
    BY <2>1 DEF taskVars
  <2> QED
    BY <2>1, <2>2, RunningStep, Zenon DEF TaskMove
<1>4. CASE TakeReply
  BY <1>4, TakeReplyStep
<1>5. CASE ReadSlice
  BY <1>5, ReadSliceStep
<1>6. CASE PrepareSlice
  BY <1>6, PrepareSliceStep, SMTT(30)
<1>7. CASE GuestRuns
  BY <1>7, GuestStep
<1>8. ASSUME NEW p \in pending, NEW v \in Answers, Resume(p, v) PROVE TaskMove /\ BoundaryInv'
  BY <1>8, ResumeStep
<1> QED
  BY <1>1, <1>2, <1>3, <1>4, <1>5, <1>6, <1>7, <1>8, Zenon DEF SessionNext

\* A response begins only when none is being read.
LEMMA BegunIdle ==
  ASSUME reading = {}, NEW t, NEW id, NEW result, BeginReading(t, id, result), active' = active
  PROVE  active' = None => \A r \in reading' : r.back = None
<1>1. reading' = {} \/ reading' = {Response(t, id, result)}
  BY Zenon DEF BeginReading
<1>2. Response(t, id, result).back = active
  BY DEF Response
<1> QED
  BY <1>1, <1>2, Zenon

\* The steps that neither read nor run.
LEMMA QuietIdle ==
  ASSUME IdleInv, UNCHANGED <<active, frames, reading>>, phase' # "run"
  PROVE  IdleInv'
BY DEF IdleInv

LEMMA IdleStep ==
  ASSUME IdleInv, SessionNext
  PROVE  IdleInv'
<1>1. CASE Start
  <2>1. active' # None /\ reading' = reading /\ phase' = phase
    BY <1>1 DEF Start, StartRoot, ROOT, None, hostVars
  <2> QED
    BY <2>1, Zenon DEF IdleInv
<1>2. CASE Advance \/ EndSlice
  <2>1. UNCHANGED <<active, frames, reading>> /\ phase' # "run"
    BY <1>2 DEF Advance, EndSlice, hostVars, frameVars, taskVars
  <2> QED
    BY <2>1, QuietIdle, Zenon
<1>3. CASE StartRun
  <2>1. reading = {} /\ reading' = reading
    BY <1>3 DEF StartRun, Slice, hostVars
  <2> QED
    BY <2>1, Zenon DEF IdleInv
<1>4. CASE TakeReply
  <2>1. phase' # "run" /\ reading = {}
    BY <1>4, Zenon DEF TakeReply, Going
  <2>2. \/ reading' = reading
        \/ \E t, id, result : BeginReading(t, id, result) /\ UNCHANGED taskVars
    BY <1>4, Zenon DEF TakeReply
  <2>3. UNCHANGED taskVars => active' = active
    BY DEF taskVars
  <2> QED
    BY <2>1, <2>2, <2>3, BegunIdle, Zenon DEF IdleInv
<1>5. CASE CollectorDone
  <2>1. /\ phase' = "idle" /\ frames' = frames
        /\ reading' = reading \/ reading' = {[r EXCEPT !.tried = TRUE] : r \in reading}
    BY <1>5 DEF CollectorDone, frameVars
  <2>2. active' = active
    BY <1>5 DEF CollectorDone, Fault, Faulted, taskVars, schedVars
  <2>3. ASSUME NEW r \in reading PROVE [r EXCEPT !.tried = TRUE].back = r.back
    OBVIOUS
  <2>4. \A x \in reading' : \E r \in reading : x.back = r.back
    <3>1. CASE reading' = reading
      BY <3>1, Zenon
    <3>2. CASE reading' = {[r EXCEPT !.tried = TRUE] : r \in reading}
      <4>1. ASSUME NEW x \in reading' PROVE \E r \in reading : x.back = r.back
        <5>1. PICK r \in reading : x = [r EXCEPT !.tried = TRUE]
          BY <3>2, <4>1, Zenon
        <5> QED
          BY <2>3, <5>1, Zenon
      <4> QED
        BY <4>1, Zenon
    <3> QED
      BY <2>1, <3>1, <3>2, Zenon
  <2> QED
    BY <2>1, <2>2, <2>4 DEF IdleInv
<1>6. CASE ReadSlice /\ ~CollectorDone
  <2>1. PICK r \in reading :
          \/ /\ reading' = {[r EXCEPT !.left = @ - 1, !.tried = FALSE]}
             /\ UNCHANGED <<taskVars, frameVars>>
          \/ FinishReading
          \/ UNCHANGED <<taskVars, frameVars, reading>>
          \/ Fault /\ UNCHANGED <<frameVars, reading>>
    BY <1>6, ZenonT(40) DEF ReadSlice
  <2>2. phase' = "idle"
    BY <1>6, Zenon DEF ReadSlice
  <2>3. CASE /\ reading' = {[r EXCEPT !.left = @ - 1, !.tried = FALSE]}
             /\ UNCHANGED <<taskVars, frameVars>>
    <3>1. UNCHANGED <<active, frames>>
      BY <2>3 DEF taskVars, frameVars
    <3>2. [r EXCEPT !.left = @ - 1, !.tried = FALSE].back = r.back
      OBVIOUS
    <3> QED
      BY <2>2, <2>3, <3>1, <3>2 DEF IdleInv
  <2>4. CASE FinishReading
    <3>1. CASE reading' = {}
      BY <2>2, <3>1 DEF IdleInv
    <3>2. CASE Fault /\ UNCHANGED <<frameVars, reading>>
      <4>1. UNCHANGED <<active, frames, reading>>
        BY <3>2 DEF Fault, Faulted, schedVars, frameVars
      <4> QED
        BY <2>2, <4>1, QuietIdle
    <3> QED
      BY <2>4, <3>1, <3>2, ZenonT(40) DEF FinishReading
  <2>5. CASE \/ UNCHANGED <<taskVars, frameVars, reading>>
             \/ Fault /\ UNCHANGED <<frameVars, reading>>
    <3>1. UNCHANGED <<active, frames, reading>>
      BY <2>5 DEF taskVars, Fault, Faulted, schedVars, frameVars
    <3> QED
      BY <2>2, <3>1, QuietIdle
  <2> QED
    BY <2>1, <2>3, <2>4, <2>5, Zenon
<1>7. CASE PrepareSlice
  <2>1. phase' = "idle"
    BY <1>7, Zenon DEF PrepareSlice
  <2>2. CASE PrepareRefused
    <3>1. UNCHANGED <<active, frames, reading>>
      BY <2>2 DEF PrepareRefused, taskVars, frameVars, hostVars
    <3> QED
      BY <2>1, <3>1, QuietIdle
  <2>3. CASE PrepareLast
    <3>1. PICK p \in preparing : Publish(p.id, p.task, p.call)
      BY <2>3, Zenon DEF PrepareLast
    <3>2. reading' = reading
      BY <2>3, Zenon DEF PrepareLast
    <3>3. CASE UNCHANGED <<taskVars, frames>>
      <4>1. UNCHANGED <<active, frames, reading>>
        BY <3>2, <3>3 DEF taskVars
      <4> QED
        BY <2>1, <4>1, QuietIdle
    <3>4. CASE active' = None => frames' = None
      BY <2>1, <3>2, <3>4, Zenon DEF IdleInv
    <3>5. UNCHANGED <<taskVars, frames>> \/ (active' = None => frames' = None)
      BY <3>1 DEF Publish, Activated
    <3> QED
      BY <3>3, <3>4, <3>5
  <2> QED
    BY <1>7, <2>2, <2>3, Zenon DEF PrepareSlice
<1>8. CASE GuestRuns /\ ~RunCollector
  <2>1. ASSUME Loops PROVE reading' = reading
    BY <2>1 DEF Loops, hostVars
  <2>2. ASSUME NEW sv, Switched(sv) PROVE reading' = reading
    BY <2>2 DEF Switched
  <2>3. phase = "run" /\ reading' = reading
    <3>1. CASE RunRaise \/ RunException
      BY <3>1 DEF RunRaise, RunException, hostVars
    <3>2. CASE RunSpawn \/ RunThrow \/ \E t \in Tasks : RunJoin(t) \/ RunJoinFailed(t)
      BY <2>1, <2>2, <3>2, ZenonT(40) DEF RunSpawn, RunThrow, RunJoin, RunJoinFailed, Plain, Executes
    <3>3. CASE RunReturn
      BY <2>2, <3>3 DEF RunReturn, Plain, Executes
    <3>4. CASE RunCollects \/ RunFault
      BY <3>4 DEF RunCollects, RunFault, Plain, Executes, hostVars
    <3>5. CASE \E call \in Calls : RunCall(call)
      BY <3>5, Zenon DEF RunCall, Executes
    <3> QED
      BY <1>8, <3>1, <3>2, <3>3, <3>4, <3>5, Zenon DEF GuestRuns
  <2> QED
    BY <2>3, Zenon DEF IdleInv
<1>9. ASSUME NEW p \in pending, NEW v \in Answers, Resume(p, v) PROVE IdleInv'
  <2>1. phase' = "idle"
    BY <1>9, Zenon DEF Resume
  <2>2. CASE ResumeCancelled(p) \/ ResumeQueued(p, v)
    <3>1. UNCHANGED <<active, frames, reading>>
      BY <2>2 DEF ResumeCancelled, ResumeQueued, taskVars, frameVars
    <3> QED
      BY <2>1, <3>1, QuietIdle
  <2>3. CASE ResumeDirect(p, v)
    <3>1. reading = {}
      BY <2>3, Zenon DEF ResumeDirect, Direct
    <3>2. \/ reading' = reading
          \/ BeginReading(p.task, p.id, "string") /\ UNCHANGED taskVars
      BY <2>3, Zenon DEF ResumeDirect
    <3>3. UNCHANGED taskVars => active' = active
      BY DEF taskVars
    <3> QED
      BY <2>1, <3>1, <3>2, <3>3, BegunIdle, Zenon DEF IdleInv
  <2> QED
    BY <1>9, <2>2, <2>3, Zenon DEF Resume
<1> QED
  BY <1>1, <1>2, <1>3, <1>4, <1>5, <1>6, <1>7, <1>8, <1>9, Zenon DEF SessionNext, RunCollector

\* The scheduler inside a session only does what GuestTasks allows, whatever the host
\* answers and when, and however responses, failures, exceptions and collections come
\* between (session.rs: advance, resume_for; machine.rs).
LEMMA SessionsRefineTasks == SessionSpec => TasksSpec
<1> DEFINE Inv == TasksInv /\ BoundaryInv /\ IdleInv
<1>1. SessionInit => TasksInit /\ Inv
  <2> SUFFICES ASSUME SessionInit PROVE TasksInit /\ BoundaryInv /\ IdleInv
    BY InitInv, Zenon
  <2> QED
    BY DEF SessionInit, BoundaryInv, IdleInv
<1>2. Inv /\ [SessionNext]_vars => Inv' /\ [TasksNext]_taskVars
  <2> SUFFICES ASSUME TasksInv, BoundaryInv, IdleInv, [SessionNext]_vars
               PROVE  TasksInv' /\ BoundaryInv' /\ IdleInv' /\ [TasksNext]_taskVars
    BY Zenon
  <2>1. CASE SessionNext
    <3>1. active \in Tasks \cup {None}
      BY Zenon DEF TasksInv, TasksTypeOK
    <3>2. TaskMove /\ BoundaryInv'
      BY <2>1, <3>1, SessionStep, Zenon
    <3>3. [TasksNext]_taskVars
      BY <3>2, Zenon DEF TaskMove
    <3>4. IdleInv'
      BY <2>1, IdleStep
    <3> QED
      BY <3>2, <3>3, <3>4, TasksKept, Zenon
  <2>2. CASE UNCHANGED vars
    <3>1. UNCHANGED taskVars
      BY <2>2, ZenonT(40) DEF vars
    <3>2. /\ UNCHANGED <<preparing, replies, reading, nextId>> /\ pending' = pending
          /\ phase' = phase /\ active' = active /\ frames' = frames
      BY <2>2 DEF vars, sessionVars, taskVars
    <3>3. BoundaryInv' /\ IdleInv'
      BY <3>2 DEF BoundaryInv, IdleInv
    <3>4. [TasksNext]_taskVars
      BY <3>1, Zenon
    <3> QED
      BY <3>3, <3>4, TasksKept, Zenon
  <2> QED
    BY <2>1, <2>2, Zenon
<1> QED
  BY <1>1, <1>2, PTL DEF SessionSpec, TasksSpec

\* So what is proved of the tasks holds of the tasks of every session.
THEOREM SessionsKeepTheirTasks ==
  SessionSpec => [](TasksRestorable /\ NoLostWakeup /\ FifoDelivery)
BY SessionsRefineTasks, CheckpointsRestorable, TasksNeverWaitInVain, ChannelsDeliverInOrder,
   PTL
=============================================================================
