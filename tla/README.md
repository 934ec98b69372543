# Formal model of the Compukter VM

TLA+ specifications of the Compukter VM (the Rust workspace in `src/`), the TLC
instances that check them and TLAPS proofs of what holds for every instance.
`PROJECT.json` is the machine-readable index: which definition stands for which
lines, which run checks which property, and which hazard of the code each
property is about.

## The system

The VM runs guest programs on behalf of a host (a game server). Its parts:

| Part | Code | What it does | Modules |
|---|---|---|---|
| Artifact loading | `src/src/artifact`, `decode`, `verify`, `bytes.rs` | decodes and verifies a program image | `Artifact`, `Decoder`, `Verifier` |
| Interpreter | `src/src/execution/machine.rs`, `image.rs`, `frame.rs`, `numeric.rs`, ... | admits the image and runs it, one instruction at a time | `Loading` |
| Tasks and channels | `src/src/execution/task.rs`, `channel.rs` | cooperative tasks, joins, channel waiters | `GuestTasks` |
| Heap and collector | `src/src/execution/heap.rs`, `gc.rs`, `external_roots.rs`, `record.rs`, `text.rs` | managed objects, incremental collection | `Heap`, `GuestHeap` |
| Session | `src/src/execution/session.rs`, `requests.rs`, `host.rs` | slices, host requests and their replies | `GuestSession` |
| Computer | `src/src/computer.rs`, `process.rs`, `deployment.rs` | a stack of processes, routing of requests, compilation, events | `Computer` |
| Devices | `src/src/stdio.rs`, `redstone.rs`, `terminal/` | standard streams, redstone, the terminal and its replication | `Devices` |
| Filesystem | `src/src/filesystem/tree.rs`, `path.rs`, `quota.rs`, `handle.rs`, `rom.rs`, `src/src/computer_filesystem.rs` | a computer's tree in memory, and what programs and hosts do to it | `FileTree`, `FileMap`, `FileTransfers` |
| Persistence queue | `src/src/filesystem/worker.rs` | admits mutations, one worker makes them durable | `PersistenceGate` |
| World store | `src/src/filesystem/store.rs`, `filesystem/persistence/` | disk layout, recovery, collection, close | `WorldStore`, `DurableLog` |
| Execution checkpoints | `src/src/checkpoint`, `src/src/execution/checkpoint` | a suspended computer as bytes | operators of the modules above |
| Foreign interface | `src/ffi`, `src/jni` | handle tables, wire codec, JNI | `HandleTable`, `Bridge` |
| Tools | `src/tools` | release tooling, crash fixture | |

Computers run on threads of the host ("carriers"), one thread inside a computer
at a time. Real concurrency is in two places. Every computer's filesystem
publishes mutations to one queue, one worker thread persists them, other threads
flush, tombstone, collect and close. And the host's threads enter the foreign
interface at any time, with handles that other threads may be closing. Inside a
computer the interleaving is of another kind: tasks of a program, events of the
host, replies to requests, and programs started by programs.

## Modules

| Module | Models | Built on |
|---|---|---|
| `PersistenceGate` | the queue, its worker and every thread that waits on its condition variable (`filesystem/worker.rs`, the locking of `store.rs`) | |
| `PersistenceGateProofs` | theorems about it: types, bounds, order, no loss, close | `PersistenceGate` |
| `DurableLog` | what the store promises a computer: a log of which a growing prefix is durable | |
| `WorldStore` | the gate together with the disk: write order, recovery, checkpoints, tombstones, collection, close, crash and restart | `PersistenceGate`; refines `DurableLog` |
| `WorldStoreProofs` | the store's inductive invariant: replay, the gate inside the store, types, stages, the journals against what was published, the disk of a reliable store | `WorldStore`, `PersistenceGateProofs` |
| `WorldStoreCollectionProofs` | collection, and the theorems about the store | `WorldStoreProofs` |
| `GuestTasks` | the task scheduler and the channels (`task.rs`, `channel.rs`) | |
| `GuestTasksProofs` | theorems about it: wake-ups, order of delivery, that a checkpoint of tasks and channels is accepted, and that they hold of the tasks of a session | `GuestSession` |
| `GuestSession` | `advance()`, `resume_for`, requests, replies, exceptions and the movement of frames (`session.rs`, `requests.rs`, `machine.rs`) | `GuestTasks`, which it also refines |
| `Heap` | the allocator, as operators from heap to heap (`heap.rs`) | |
| `GuestHeap` | tasks that allocate, responses, and the incremental collector (`gc.rs`, `machine.rs`, `heap_ops.rs`) | `Heap` |
| `FileMap` | what a computer's filesystem promises: a map from paths to contents, changed by one whole operation at a time | |
| `FileTree` | the tree, its quota, objects, handles and journal records (`filesystem/tree.rs`, `quota.rs`, `handle.rs`, `persistence/recovery.rs`) | |
| `FileTransfers` | snapshots, drafts, listings and moves of programs, the compiler, deployment and inspection (`computer_filesystem.rs`, `computer.rs`) | `FileTree`; refines `FileMap` |
| `FileTreeProofs` | lemmas about paths, moved subtrees, the object store, recovery and the handle slots | `FileTree` |
| `FileTransfersProofs` | theorems about the files of a running computer, the refinement of `FileMap` included | `FileTransfers`, `FileTreeProofs` |
| `Devices` | standard streams, redstone and the terminal's input queue, as operators (`stdio.rs`, `redstone.rs`, `terminal/input.rs`) | |
| `Computer` | the process stack, `advance`, routes, Ctrl+C, compilation, what a restored checkpoint must satisfy (`computer.rs`, `checkpoint/computer.rs`) | `Devices` |
| `Artifact` | the tables of an artifact and how symbols resolve in them (`artifact/mod.rs`, `verify`, `execution/image.rs`) | |
| `Decoder` | what the decoder accepts (`decode/records.rs`, `decode/code.rs`) | `Artifact` |
| `Verifier` | module, type, exception and function verification, the data flow one block at a time (`verify/`) | `Decoder` |
| `Loading` | admission and execution of what was verified (`execution/image.rs`, `machine.rs`) | `Verifier` |
| `HandleTable` | the table behind the host's handles (`ffi/src/handle_table.rs`) | |
| `HandleTableProofs` | theorems about it, and what its users rely on | `HandleTable` |
| `Bridge` | the exported calls over three such tables (`ffi/src/bridge.rs`, `ffi_api.rs`) | `HandleTable` |
| `BridgeProofs` | theorems about it | `Bridge`, `HandleTableProofs` |
| `MC...` | the constants of the TLC instances | |

### How state and actions correspond to the code

**PersistenceGate.** The variables are the fields of `GateState` (`health`,
`queue`, `queued_bytes`, `reserved_records`, `reserved_bytes`, `admitted`,
`durable`, `stop_enqueued`) and the program counters of the threads: a carrier
per computer, callers, the worker, the closer. One action is one critical
section of the gate's mutex. `sleeping` is the set of threads blocked on the
condition variable, so that a missing `notify_all` is a real loss. Persisting a
command is one step that succeeds or fails.

**WorldStore** conjoins each action of the gate with what happens on disk.
Reopening reads the journal, confirms its tail and registers the computer in one
step, in which the open may also fail after the confirmation. The module
splits persisting into the files in the order they are written (object, journal
record, `confirmed`). A computer's namespace is one file whose content is the
last mutation's object. `Crash` drops all memory between any two steps; `Reopen`
follows a complete close. `log` and `reported` are history variables, the ones
`DurableLog` speaks about.

**GuestTasks.** A slot's state, what it waits on, the ready ring, the active
task; per channel its room, buffer and two waiter lists. Each instruction that
can switch tasks is one action, with the wake-ups and the activation it causes.
The internal error returns (`CorruptQueue`, `WrongWait`) are kept as
`life = "corrupt"`, which `TasksRestorable` excludes. Values on a channel are
their serial numbers.

**GuestSession.** A call of `advance()` is a sequence of steps: take one queued
reply, run one slice of one kind, end. Frames are identified by the task they
belong to, so `FramesInPlace` can say that a task's frames are where its next
step looks for them. What an instruction computes is not modelled; whether it
calls the host, throws, allocates or switches tasks is. Error returns keep their
difference: a scalar that the frames do not take is refused and the request stays
pending, an empty String or a queued reply that they do not take ends the session, a
materialised value that they do not take is a fault of the machine, and a copy of
arguments that finds another call's frames returns `NotRunnable` and stays half done.

**Heap and GuestHeap.** A heap is a record of block headers, free lists, hint
and counters. The doubly linked lists are sequences and the bitmaps are the
non-empty lists. The header word that holds the predecessor's size and, during
marking, the link of the gray queue is one field, as in the code. `GuestHeap`
has the frames of every task, loaded or saved, the object graph, at most one
pending allocation and one response, and a collector that takes one action per
unit of budget. Static fields, external handles and the operands of pending
instructions are roots that no step can move during a collection, as a caller's
registers are, and are represented by those.

**FileTree and FileTransfers.** A path is the sequence of its components and a
tree a function from paths to nodes; a file's object is its bytes, SHA-256 being
taken as injective. Every successful call is one action, with its changes to the
tree, the quota ledger, the object references and the handles, and the record it
publishes; a refused call is a stutter. `recovered` is what `recover()` builds
from the records. Reads, drafts, listings, moves, compilations, deployments and
inspections remember a generation and act later; their ghost field `seen` holds
what their owner saw.

**Computer and Devices.** One call of the host is one action: `Advance` with the
whole of its order (termination, the end of a process, one slice, fresh external
requests, one internal request), the keyboard, redstone input, answers to
external requests, compilations taken and completed. A session is its pending
requests; what its tasks ask for next is a choice within `Programs`. Ids and
tokens, which the code never uses twice, are the least ones nobody holds. The
counters saturate at `MaxCounter`.

**Artifact, Decoder, Verifier, Loading.** An artifact is a record of tables. The
phases of loading are steps: decode, modules, exceptions, then for each function
the data flow, one block of the work queue per step, the entry, admission. Then
the machine runs, one instruction, initializer, raised exception or unwound frame
per step. A value is its kind and, for a reference, its object, so every branch,
bounds check and division may go either way. An instruction is a record of
opcode, form, registers and symbol; the table of operand kinds (`ShapeOf`)
replaces one branch of `verify_instruction` per opcode.

**HandleTable and Bridge.** A call of the host is the sequence of the table
accesses it makes: resolve a handle under the table's mutex, try the mutex of the
cell, work, leave; some calls enter a second table while inside the first, some
enter one table twice. `Bridge` extends `HandleTable` for the sessions and
instantiates it for stores and candidates. A panic inside a call poisons the cell.

## Runs

`tlc -config X.cfg M` for each row. All of them pass except `HeapLostRoot`, which
is the finding.

| Run | Module | States | What it shows |
|---|---|---|---|
| `Gate` | `MCPersistenceGate` | 227 000 | generations in order, nothing published is lost before a fault; published mutations become durable, flushes and opens return, control calls and close return unless the store faults |
| `StoreCrash` | `MCWorldStore` | 953 000 | with up to two crashes anywhere, every computer stays recoverable and the store implements `DurableLog` |
| `StoreFaults` | `MCWorldStore` | 301 000 | with disk errors anywhere: what was reported is on disk, close drains, an execution checkpoint is never ahead of the recoverable filesystem |
| `Tasks` | `MCGuestTasks` | 341 000 | a checkpoint of scheduler and channels would be accepted at every point, so ready ring, waiter lists and task states agree and no join closes a ring; no task sleeps while its channel operation could proceed; values arrive in order; ready tasks run |
| `SessionReferences` | `MCGuestSession` | 151 000 | frames stay with their tasks, every waiting task is owed exactly one response, no spurious fault, accepted answers are delivered |
| `SessionFailures` | `MCGuestSession` | 430 000 | failures are raised where they happened, a call is published once, a checkpoint of the session would be accepted, and the arguments of a request are copied from the call that made it, whatever records arrive meanwhile |
| `Heap` | `MCGuestHeap` | 1 560 000 | blocks tile the arena, free lists, tags and cursors are what restoring accepts, collections keep exactly what is reachable and take bounded work, exhaustion is reported only when nothing fits |
| `HeapLostRoot` | `MCGuestHeap` | | *violated:* `NoLostObject` |
| `Files` | `MCFiles` | 385 000 | replaying the journal gives the tree the programs saw; quota, references and handles are exact and restorable; no draft, move, deployment, compilation or inspection acts on what its owner has not seen; the whole implements `FileMap` |
| `Computer` | `MCComputer` | 97 000 | between any two calls of the host the machine is in a state that restoring accepts; no answer, wake-up or compilation misses its request; execution units are neither lost nor counted twice; Ctrl+C ends the command and calls to the host are published |
| `Loading` | `MCLoading` | 252 000 | of 15 192 programs, those that decoding, verification and admission let through never reach a typing fault, read no unwritten register and keep every place well typed; the data flow is exact; verifier and image resolve alike; initializers run once and in order |
| `Bridge` | `MCBridge` | 548 000 | a candidate is installed at most once, a checkpoint is written by the session that owns the identity in that store, a compilation handed out stays answerable; each table behaves as `HandleTable` says; no call waits for another |

`GateMore` checks the remaining invariants of the gate on the same instance: types,
bounds, `CarrierAgrees` and `DurableNeverRegresses`, which are also proved, and the
byte counters (`BytesAccounted`, in `MCPersistenceGate`), which are not.

The same properties hold in stronger parts than one name shows: `TasksRestorable`,
`SessionRestorable`, `HeapRestorable`, `SnapshotAccepted` and `CheckpointAccepted`
are the conditions that the code restoring a checkpoint checks, translated from
`checkpoint/`. That they are invariants means that a checkpoint taken at any point
is accepted, and since those conditions are about the agreement of queues, waiters,
tables and counters, they are also the structural invariants of each part.

### Bounds

* `Gate`: two computers, since they meet only in the shared queue; one caller;
  two generations each, so that one can be queued behind another; two records
  and three bytes of queue, so that both limits bind, and the cost of a control
  command differs from a mutation's. `MaxGeneration` is the only bound on how
  long a behaviour runs.
* `StoreCrash`, `StoreFaults`: one computer (its disk state is its own), one
  object, so that two mutations can share it and a collection can meet it, up to
  three generations and two restarts. Faults and crashes are separate runs
  because together they reach `StoreGap`.
* `Tasks`: three tasks make the shortest chain of joins that is not a pair and
  let two tasks wait on one channel; two channels; capacities of none, one, and
  one too large for the storage.
* `Session...`: three tasks and four host calls: an active task, one being
  answered, one more waiting. The two passing instances differ in the calls they
  make, because some combinations are known to fail (next section).
* `Heap`: 400 bytes hold two objects of 136 bytes and one response of 128, so
  that the third object needs a collection; the rest of 128 bytes is in the size
  class of a request for 136 without fitting it, the case the hint is for; two
  tasks of two frames.
* `Files`: three mutations over six paths, two names at each of two levels;
  programs write one byte at a time and the ROM has a file of two, against limits
  of two bytes a file and three in all, five
  nodes, two entries a directory, one handle with two generations, one byte per
  read, so that each limit is reached; two process frames; one transfer or
  transaction open at a time beside the tree's other users.
* `Computer`: six root programs, each a scenario: a shell over an editor, host
  calls in parent and child, redstone, a compiler run by a builder and by a make,
  and a program that runs itself to the depth and start limits. Two tasks, three
  frames, counters that saturate at two. Scenarios start in different initial
  states, so that they add up instead of multiplying.
* `Loading`: main has an entry, a protected block, a handler, a landing, a join
  and, in half of the family, a loop; each place takes instructions from a pool
  most of which are right only in some contexts. Two modules, two classes and an
  interface, seven libraries of which six are wrong or different in one place.
  Five objects and three frames: exhaustion and overflow happen.
* `Bridge`: two threads and six calls, two sessions, two stores and a candidate:
  enough to close an object and reuse its slot between two steps of another call.
  A table with `Width = 8` cannot wrap within that.

Deadlock is not checked except in `Bridge`: a program that has ended, a store that
is closed, and a behaviour that has used up its bound all stop rightly.

### Fairness

`Gate`: a thread inside a call that is not asleep keeps running; nobody is
obliged to start a call. `Tasks`: the host keeps advancing the machine and
answers every request, and the guest's steps between two yields are finite.
`SessionReferences`: the host keeps calling `advance()`, and slices that end with
an exhausted budget get further ones often enough to finish (strong fairness of
the step that completes the work). `Computer`: the host keeps calling `advance`;
it owes no answer. `Bridge`: a thread inside a call keeps running, whatever the
other threads do; the property is about one thread, the threads being alike. The
heap's progress is stated without fairness: every action of the collector lowers a
measure (`CollectionBounded`).

## Known deviations

Each of these is what the code does; the configuration shows the shortest
behaviour. The passing runs are set up to leave out the cause of each, as the
last column says, so that they show what holds otherwise.

| Configuration | Property | What happens | Left out elsewhere by |
|---|---|---|---|
| `GateCloseHang` | `CloseReturns` | a worker fault drains a queued `Stop`; no second one is queued and `close()` joins for ever | `Gate` asks for return or fault |
| `GateCloseHang` | `ControlCallsReturn` | a control command published after the worker has stopped is never completed | `Gate` asks for return or fault |
| `StoreGap` | `AlwaysRecoverable` | a reservation published after a fault is persisted beyond the generations the fault dropped | `StoreCrash` has no disk errors |
| `StoreResurrect` | `KeepsPromise` | after a crash such a record is replayed behind newer mutations | as above |
| `StoreCollectRace` | `AlwaysRecoverable` | an object is removed that a mutation published after the scan refers to | `QuiescentCollection` |
| `SessionForeignFrames` | `FramesInPlace` | a String response loads its task's frames while another task's arguments are being copied out: `advance()` goes on copying first (`session.rs:376`), reads the rest of them through the loaded call and saves the loaded frames as those of the wrong task; if that call has no such argument, it returns `NotRunnable` on every further call | `SessionReferences` makes no calls with text; `SessionFailures` has no String or ByteArray responses |
| `SessionFailureTwice` | `RaisedWhereItHappened` | a task activated by the uncaught exception of another repeats its failed call (`machine.rs:3045`; "raises at the original host-call PC", `docs/architecture/host-neutral-session-api.md:51`) | no "failure" and "uncaught" together |
| `HeapLostRoot` | `NoLostObject` | a response during the root phase moves frames past the collector's cursors | `RepliesDuring` |
| `FilesDeepRename` | `ReplayAgrees` | a directory moved one level down takes its contents past `maximum_components`, which `rename` does not check and replay does (`tree.rs:717`, `persistence/recovery.rs:362`) | `MCPaths` has no path to move it to |
| `ComputerOrphanWaiter` | `AnswersReachTheirRequest` | a redstone input arrives while a child is on top: the wake-up of its parent's wait goes to the child's session (`computer.rs:570`) | the sensor program runs no other |
| `ComputerStarved` | `InternalCallsAreServed` | with host calls answered at once, fresh external requests go first on every slice and an internal one is never served, where the comment says "service the internal request on the following slice" (`computer.rs:1217`) | `NothingStarves` is about external calls and Ctrl+C |

Further points met while translating, without a configuration of their own:

* A string response during another task's concatenation collection faults the
  session (`machine.rs:3995`); `SessionReferences` has no "concat" collections.
* After `QuotaExhausted` for host requests the machine runs on and consumes request
  ids (`session.rs:992`).
* A checkpoint taken while arguments are copied out of frames that a response has
  put aside is not accepted (`checkpoint/session.rs:274`), nor one whose collector
  has a cursor beyond the frames a response has loaded (`checkpoint/gc.rs:52`).
  `SessionRestorable` and `HeapRestorable` leave those two cases out.
* A response that collects while a block is reserved makes the sweep report
  `CorruptHeap`; in `Heap` that is the outcome "fault".
* Three coroutines that failed to run a program leave more diagnostics than the
  checkpoint accepts (`checkpoint/computer.rs:431`, `computer.rs:2522`); `Computer`
  has two tasks.
* Several requests are outstanding at once, where
  `docs/architecture/host-neutral-session-api.md:35` says one.
* Removing a missing file, on recovery without a tombstone or a second collection,
  faults the store (`worker.rs:658`; part of `StoreFaults`).
  `register_computer` does not refuse a second registration (`worker.rs:322`).
* After a failed initializer the next use of its class ends the machine with
  `CorruptLifecycle` (`machine.rs:3018`, `3097`). In `Loading` that is the outcome
  "failed type", not a typing fault.
* The verifier accepts structurally equal array types where the machine compares
  names (`verify/functions.rs:2124`); imports of fields are compared by name and
  signature in one place and by name in the other (`image.rs:1967`). The family of
  `Loading` has one array type and distinct field names.
* A compilation that a child asked for stays pending when the child ends
  (`computer.rs:2185`); the host may complete it, and nobody is told.
* In the foreign interface: a panic inside a call poisons the cell, so its handle
  can no longer be closed (`ffi_api.rs:1702`); `store_close` enters its table twice
  and may answer busy or stale after closing (`bridge.rs:872`).

## Proofs

`tlapm M.tla` checks each of the eight proof modules. Every theorem is for all
values of the constants that satisfy the named assumptions of the modules; no
bound of a TLC instance is one of them.

| Theorem | States | Module |
|---|---|---|
| `GateTypeCorrect`, `QueueStaysBounded` | `GateTypeOK`, `QueueBounded` | `PersistenceGateProofs` |
| `PublishedNeverLost`, `GenerationsOrdered`, `CarriersAgree` | `NoAdmittedLoss`, `GenerationOrder`, `CarrierAgrees` | |
| `DurableMonotone` | the action property `DurableNeverRegresses` | |
| `CloseLeavesNothing` | a store that closed without a fault has everything durable | |
| `StoreAlwaysRecoverable` | `AlwaysRecoverable`, if `Reliable` | `WorldStoreCollectionProofs` |
| `StoreReportsWhatIsOnDisk`, `StoreExecutionNeverAhead` | `ReportedIsOnDisk`, `ExecutionNeverAhead`, if `Careful` | |
| `StoreKeepsPromise` | `WorldStore` implements `DurableLog`, if `Careful` | |
| `StoreCloseDrains` | `CloseDrains`, without conditions | |
| `TasksNeverWaitInVain`, `ChannelsDeliverInOrder` | `NoLostWakeup`, `FifoDelivery` | `GuestTasksProofs` |
| `CheckpointsRestorable` | `TasksRestorable` | |
| `SessionsKeepTheirTasks` | the three above, of the tasks of any session | |
| `HandlesNameOneObject`, `ClearingIsCertain` | `HandleNamesOneObject`, `ClearIsCertain` | `HandleTableProofs` |
| `StaleHandlesStayStale` | the action property `StaleStaysStale` | |
| `BridgeImplementsTables` | `TablesBehave`: `Bridge` implements `HandleTable` three times | `BridgeProofs` |
| `CandidatesDeployOnce`, `CheckpointsComeFromOwners`, `CompilationsStayAnswerable` | `DeployedOnce`, `CheckpointFromOwner`, `CompilationAnswerable` | |
| `BridgeTypesCorrect` | `BridgeTypeOK` | |
| `FilesImplementFileMap` | `ImplementsFileMap`: `FileTransfers` implements `FileMap` | `FileTransfersProofs` |
| `LateActionsSeeWhatTheySawHolds` | `LateActionsSeeWhatTheySaw` | |
| `RecoveryAndReferencesExact` | `RecoveryIsExact`, `ReferencesExact` | |
| `StaleHandlesNeverResolve` | `StaleHandlesStayStale`, a part of `SnapshotAccepted` | |

### The persistence gate

The assumptions say that limits and costs are natural numbers and that computers
and callers are finitely many. Order and loss are one induction on
`OrderInv == GenerationOrder /\ NoAdmittedLoss /\ CarrierAgrees`. The first two are
not inductive: publishing appends generation `carrier.gen + 1`, which is in order
only if the carrier's generation is the admitted one, and reopening overwrites
`admitted` and `durable`, which loses nothing only if all that was admitted is
durable. `CarrierAgrees` says both. That close leaves nothing behind needs three
more layers: every control command on its way has its own waiting caller,
`reserved_records` is the number of threads that hold a reservation, and `Stop` is
the last command of the queue. The invariant is shown for the steps of any user of
the gate (recovery may yield any generation that is not below the durable one), so
that the store can use it.

### The world store

`StoreInv` has a layer per question: `GateInv` for the gate inside the store,
`StoreTypeOK`, `StageInv` (the order of object, record and `confirmed`), `LogInv`
(journals have no gap and hold what was published; what was reported is in them),
`DiskInv` (the newest object of every computer exists) and `CollectInv` (a
collection past its flush meets a store at rest, and what it asks to remove no
computer needs). `AlwaysRecoverable` alone is not inductive: that replay succeeds
after the next write depends on what the worker holds and on what collections have
already decided to remove.

Two conditions are hypotheses of the theorems that need them. `Reliable`: the disk
returns no errors, tombstones are not used, objects are collected only while no
computer is open, and the scan limit admits a whole journal. `Careful`: the store
is reliable, or it is not restarted. They are not stronger than the code requires:
`StoreGap`, `StoreResurrect` and `StoreCollectRace` show what happens without them,
and taking back a tombstone that is not there faults the store (`worker.rs:658`).
Crashes at any step are part of both.

The refinement has one step per action. Publishing is `Mutate`, the end of
persisting is `Report`, registering a recovered computer keeps a prefix that
contains all that was reported, and every other step, a crash included, stutters.

### Tasks and channels

`TasksInv` says that the ready ring holds ready tasks, each once, that a task on a
waiter list waits for that channel and for what the list is of, and how buffers,
waiters and serial numbers relate. Without the part about the lists a step could
wake or park a listed task a second time, and neither `NoLostWakeup` nor
`FifoDelivery` would be kept. `RestoreInv` adds the converse directions, which
restoring also checks: every ready task is on the ring, every task that waits for a
channel is on one of its lists, the channels share out the value storage without
gaps, and the walk along the joins from a waiting task ends. That `join` keeps the
last one is the argument that the cycle check of `task.rs:158` is sufficient. Since
`life = "corrupt"` is excluded, the scheduler's internal errors are unreachable.

A session moves frames and tasks by its own rules, so that its tasks keep those
invariants is a statement of its own (`SessionsKeepTheirTasks`). It rests on the
lemma that every step of `advance()` and `resume_for` is one step of `GuestTasks` or
none, which needs two things of the session's state. `BoundaryInv`: every request,
reply and response at the boundary names a task, and Guest code runs only while a
task is active. `IdleInv`: Guest code runs only while no response is read, and once
the task that was active when a response began is suspended and no other is left, no
frames are loaded. Without the second, `finish_task_host_response`, which remembers
the active task from the beginning of the response, could leave a ready task behind
with nothing active; as it is, the value then has no frame to be written to and the
machine faults first.

### Handle tables and the foreign interface

`TableAssumption` says that fewer objects are ever inserted than a generation has
values (2^32 in the code), so no generation wraps; after a wrap an old handle would
name a new object. `TableInv` adds to the properties that no handle is ahead of its
slot and a handle of an empty slot is behind it (`IssuedInv`), that slots and issued
handles agree (`SlotsInv`), and that a cell which has its value, or whose value a
call holds, is the one its slot holds (`FullInv`). `ClearInv` is the interesting
step: emptying a slot moves its generation past every handle issued for it.

`BridgeAssumption` is the same for the tables of stores and candidates, and that the
host may pass any handle it was issued. `BridgeProofs` first shows that every step
of an exported function is, in each table, a step of that table or none
(`SessionSteps`, `StoreSteps`, `CandidateSteps`), so the theorems about a table hold
of the sessions, the stores and the candidates. On top of it, `ThreadInv` says what
a thread knows in the middle of a function: the tables it can be in, that the
session it is saving is still the one it compared with the store's handle, and that
a function that has installed a candidate is inside both cells. `InstallsInv` then
says that an installed candidate is gone from its cell and only the deployment that
installed it is still inside; that is what makes a second installation impossible.

### The files of a computer

The assumptions are about the constants only: the ROM is a finite set of nodes
(`RomIsATree`), paths are sequences of names that parse (`PathsParse`),
contents are bytes, and limits are natural numbers. First it is shown that every
call, whichever of the actions it is, does one of five things (`TreeStep`):
it makes a directory, stores a file, removes a node with nothing below it, moves a
subtree, or leaves the tree alone. Everything about trees is then shown of those
five steps. `TreeInv` is the invariant they keep: the tree is closed under parents
and its parents are directories (`TreeOK`), nodes of the same generation are equal
and none is ahead of the tree's (`Versions`), recovery either refuses the records or has
rebuilt the tree (`RecoveryExact`), and the object store counts the references of
tree and ROM (`ObjectsExact`). The hard step is the move: where every node of the
moved tree comes from (`MovedFrom`) takes the algebra of rebased paths, and the
object store takes counting the references before and after.

`LateInv` adds what the owners of late actions rely on. Each draft, compilation,
deployment and inspection remembers a generation, and the node its owner saw; if any
node carries that generation now, or ever again, it is that node. This is not
inductive without `Versions`: the next version gets a generation no node and no
memory has. `LateActionsSeeWhatTheySaw` follows, because `replace_file_if_revision`
and the commit of a draft compare generations. For handles, `HandleInv` says that a
closed handle is behind the generation of its slot, or its slot is retired; a reboot
starts an empty table and a restore keeps the table, so no old handle meets a slot
again.

The refinement is one lemma per kind of step (`PutStep`, `DeleteStep`, `MoveStep`):
since the store holds the object of every node, what can be read back is the tree
itself, and a step of the tree is the step of `FileMap` with the same name. Reads,
drafts, transfers, processes, restarts and refused calls stutter.

`ReplayAgrees` itself is not a theorem: with a tree as deep as `maximum_components`
a rename can publish a record that recovery refuses (`FilesDeepRename`). What is
proved is the rest of it, that recovery never rebuilds another tree.

### Model-checked only

* Liveness (`AdmittedBecomesDurable`, `CallsReturnOrFault`, `ReadyRuns`,
  `AcceptedIsDelivered`, `NothingStarves`, `CallsReturn`): fairness and `ENABLED`
  are out of the provers' reach.
* `BytesAccounted` sums over finite sets, which needs induction over data.
* `Loading` and the modules below it use recursive operators (the walk through
  control flow and types), as the verifier does.
* `ReplayAgrees` and the parts of `SnapshotAccepted` that depend on it (the depth of
  paths), for the reason above, and `AccountsExact`, whose quota is a sum over the
  tree.
* The invariants of `GuestHeap` (reachability of objects and sums of block sizes,
  which need induction over data), and `UnitsAccounted` of `Computer`.
* `AnswersReachTheirRequest` and what rests on it in `Computer`, and several
  invariants of `GuestSession`: they hold for the programs of the instances and not
  for all (`ComputerOrphanWaiter`, `SessionForeignFrames`, `SessionFailureTwice`).

## Not modelled

* Bytes and their codecs: the artifact container and its cursors (`bytes.rs`,
  `decode/container.rs`), the formats of journal, object and checkpoint files
  (`persistence/codec.rs`, `checkpoint/envelope.rs`), the wire format and the
  marshalling of arguments (`ffi/src/wire.rs`, `src/jni`). The models take what
  they return.
* What instructions compute (`numeric.rs`, `math.rs`, `matrix.rs`, text
  conversion), the physical shape of inline registers (`verify/functions.rs:53`)
  and the safepoint tables.
* The contents of the screen and their replication to clients (`terminal/state.rs`,
  `terminal/replication.rs`).
* The payload bytes, the two header formats and aborted reservations of the heap;
  the layout of strings and records.
* Requests that are merged before they are published (`reduce_last_write_wins`).
* Loss of directory entries by a power failure (`worker.rs:781`): a crash of the
  process happens anywhere in `WorldStore`, and what was renamed stays. Journals are
  never compacted (`store.rs:550`), so their limit is a bound of the instance.
* The benchmark harness and the release tooling.
