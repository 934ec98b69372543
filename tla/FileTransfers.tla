--------------------------- MODULE FileTransfers ---------------------------
(***************************************************************************)
(* The file operations of a running computer (computer_filesystem.rs and   *)
(* the file handlers of computer.rs): each process frame owns transfers,   *)
(* that is read snapshots, replacement drafts, directory listings and      *)
(* pending moves; the compiler and the host install executables; the host  *)
(* inspects files in chunks.  All of them remember a generation of a node  *)
(* and act later, when other processes may have changed the tree: the      *)
(* properties say that no such late action overwrites, moves or reports    *)
(* what its owner has not seen.                                            *)
(*                                                                         *)
(* The execution checkpoint of the file system and of the transfers is     *)
(* modelled by what restore accepts.                                       *)
(***************************************************************************)
EXTENDS FileTree

CONSTANTS
    InitialCapability, \* ComputerMachine.initial_file_capability
    Contents,          \* byte sequences the programs write
    SourceFiles,       \* paths whose name ends in .kt
    NameBytes,         \* bytes a directory listing retains for each name
    MaxDepth,          \* ProcessLimits.maximum_depth
    MaxTransferId,     \* i32::MAX of FileTransfers.next_id
    MaxPending         \* bound: handles, transfers and transactions open at once

VARIABLES
    frames,      \* the process stack: each frame's FileTransfers
    compilation, \* ComputerMachine.pending_compilation, at most one
    deployment,  \* the host's executable_revision, at most one
    inspection   \* the host's reading of one file in chunks, at most one

ASSUME ContentsAreBytes == Contents \subseteq Seq(Nat)

transferVars == <<frames, compilation, deployment, inspection>>
vars == <<treeVars, transferVars>>

NoTransfers == [next |-> 1, open |-> << >>]

\* What a path shows: the node itself, or nothing (ghost part of every late action).
Shown(p) == IF p \in DOMAIN home THEN {home[p]} ELSE {}

ReadTransfer(p, bytes) == [kind |-> "read", path |-> p, bytes |-> bytes, at |-> 0]
WriteTransfer(p) ==
    [kind |-> "write", path |-> p, bytes |-> << >>, capacity |-> 0, poisoned |-> FALSE,
     revision |-> Revision(p), seen |-> Shown(p)]
DirectoryTransfer(p, names) == [kind |-> "directory", path |-> p, names |-> names, at |-> 0]
MoveTransfer(p, g) == [kind |-> "move", path |-> p, gen |-> g, seen |-> Shown(p)]

\* FileTransfer::retained_bytes.
Retained(t) ==
    CASE t.kind = "read" -> Len(t.bytes)
      [] t.kind = "write" -> t.capacity
      [] t.kind = "directory" -> NameBytes * Len(t.names)
      [] OTHER -> 0

FrameRetained(f) == MapThenSumSet(LAMBDA id : Retained(f.open[id]), DOMAIN f.open)
FrameHandles(f) == Cardinality(DOMAIN f.open)
\* Mutant: the bytes about to be retained are not counted.
TransferCapacityBefore(bytes, newHandle) ==
    MapThenSumSet(LAMBDA i : FrameRetained(frames[i]), DOMAIN frames) <= MaxLogicalBytes

\* ComputerMachine::transfer_capacity: one budget for the whole process stack.
TransferCapacity(bytes, newHandle) ==
    /\ newHandle =>
           MapThenSumSet(LAMBDA i : FrameHandles(frames[i]), DOMAIN frames) < MaxHandles
    /\ MapThenSumSet(LAMBDA i : FrameRetained(frames[i]), DOMAIN frames) + bytes <= MaxLogicalBytes

Pending ==
    MapThenSumSet(LAMBDA i : FrameHandles(frames[i]), DOMAIN frames) + Cardinality(Handles)
        + Cardinality(compilation) + Cardinality(deployment) + Cardinality(inspection)

Active == Last(frames)
WithActive(f) == [frames EXCEPT ![Len(frames)] = f]
Transfer(id) == Active.open[id]
Open_(kind) == {id \in DOMAIN Active.open : Active.open[id].kind = kind}

\* FileTransfers::insert, at the end of every open.
Insert(t) ==
    /\ Pending < MaxPending
    /\ Active.next < MaxTransferId
    /\ frames' = WithActive([next |-> Active.next + 1,
                             open |-> Extended(Active.open, Active.next, t)])
    /\ UNCHANGED <<treeVars, compilation, deployment, inspection>>

Closed(f, id) == [f EXCEPT !.open = [i \in DOMAIN f.open \ {id} |-> f.open[i]]]

---------------------------------------------------------------------------
(* Transfers of the active process. *)

OpenRead(p) ==
    /\ Permits(InitialCapability, p, {"read"})
    /\ Len(p) >= 2 /\ IsFile(TreeOf(p), p)
    /\ Size(TreeOf(p)[p]) <= MaxFileBytes
    /\ TransferCapacity(Size(TreeOf(p)[p]), TRUE)
    /\ Insert(ReadTransfer(p, BytesOf(TreeOf(p)[p])))

ReadChunk(id, maximum) ==
    /\ maximum \in 1..MaxIo
    /\ Transfer(id).at < Len(Transfer(id).bytes)
    /\ frames' = WithActive([Active EXCEPT !.open[id].at =
                                Min({@ + maximum, Len(Transfer(id).bytes)})])
    /\ UNCHANGED <<treeVars, compilation, deployment, inspection>>

OpenWrite(p) ==
    /\ CanReplace(InitialCapability, p)
    /\ TransferCapacity(0, TRUE)
    /\ Insert(WriteTransfer(p))

\* append_transfer_chunk: the capacity the draft needs.
Target(t, input) ==
    LET required == Len(t.bytes) + Len(input)
    IN  IF required <= t.capacity THEN t.capacity
        ELSE Min({Max({required, 2 * t.capacity}), MaxFileBytes})

AppendFits(t, input) ==
    /\ Len(input) <= MaxIo
    /\ ~t.poisoned
    /\ Len(t.bytes) + Len(input) <= MaxFileBytes
    /\ TransferCapacity(Target(t, input) - t.capacity, FALSE)

\* append_transfer: a chunk that does not fit poisons the draft for good.
AppendChunk(id, input) ==
    LET t == Transfer(id) IN
    /\ frames' = WithActive([Active EXCEPT !.open[id] =
            IF AppendFits(t, input)
            THEN [t EXCEPT !.bytes = @ \o input, !.capacity = Target(t, input)]
            ELSE [t EXCEPT !.poisoned = TRUE]])
    /\ UNCHANGED <<treeVars, compilation, deployment, inspection>>

CommitTransfer(id) ==
    LET t == Transfer(id) IN
    /\ ~t.poisoned
    /\ ReplaceIfRevision(InitialCapability, t.path, t.bytes, t.revision, FALSE)
    /\ frames' = WithActive(Closed(Active, id))
    /\ UNCHANGED <<slots, stale, compilation, deployment, inspection>>

CloseTransfer(id) ==
    /\ frames' = WithActive(Closed(Active, id))
    /\ UNCHANGED <<treeVars, compilation, deployment, inspection>>

\* Any listing of a finite set.
Listing(names) ==
    CHOOSE list \in [1..Cardinality(names) -> names] : {list[i] : i \in DOMAIN list} = names

ListNames(p) ==
    IF p = << >> THEN {"home", "rom"} ELSE {Last(q) : q \in Children(TreeOf(p), p)}

\* The listing is pinned in name order; the order itself plays no part here.
OpenDirectory(p) ==
    /\ Permits(InitialCapability, p, {"list"})
    /\ p # << >> => IsDirectory(TreeOf(p), p)
    /\ TransferCapacity(NameBytes * Cardinality(ListNames(p)), TRUE)
    /\ Insert(DirectoryTransfer(p, Listing(ListNames(p))))

NextEntry(id) ==
    /\ Transfer(id).at < Len(Transfer(id).names)
    /\ frames' = WithActive([Active EXCEPT !.open[id].at = @ + 1])
    /\ UNCHANGED <<treeVars, compilation, deployment, inspection>>

\* ComputerFileSystem::stat's generation: the mounts and the ROM are always at 0.
StatGeneration(p) == IF Len(p) <= 1 THEN 0 ELSE TreeOf(p)[p].gen
Exists(p) == Len(p) > 1 => p \in DOMAIN TreeOf(p)

OpenMove(p) ==
    /\ Permits(InitialCapability, p, {"rename", "inspect"})
    /\ Exists(p)
    /\ TransferCapacity(0, TRUE)
    /\ Insert(MoveTransfer(p, StatGeneration(p)))

\* move_transfer: Busy when the node is not the one opened; the handle stays open.
MoveOpened(id, to, replace) ==
    LET t == Transfer(id) IN
    /\ Exists(t.path) /\ StatGeneration(t.path) = t.gen
    /\ Rename(InitialCapability, t.path, to, replace)
    /\ UNCHANGED transferVars

---------------------------------------------------------------------------
(* The process stack, the compiler, the host. *)

\* handle_process_request pushes a frame; finish_child pops one and drops its transfers.
EnterProcess ==
    /\ Len(frames) < MaxDepth
    /\ frames' = Append(frames, NoTransfers)
    /\ UNCHANGED <<treeVars, compilation, deployment, inspection>>

FinishChild ==
    /\ Len(frames) > 1
    /\ frames' = Front(frames)
    /\ UNCHANGED <<treeVars, compilation, deployment, inspection>>

\* handle_compiler_request: both revisions are taken before the host compiles.
RequestCompilation(source, output) ==
    /\ compilation = {} /\ Pending < MaxPending
    /\ source \in SourceFiles /\ output # source
    /\ Permits(InitialCapability, source, {"inspect", "read"})
    /\ IsFile(TreeOf(source), source)
    /\ CanReplace(InitialCapability, output)
    /\ compilation' = {[owner |-> Len(frames), source |-> source, output |-> output,
                        bytes |-> BytesOf(TreeOf(source)[source]),
                        sourceGen |-> StatGeneration(source),
                        outputRevision |-> Revision(output), seen |-> Shown(output)]}
    /\ UNCHANGED <<treeVars, frames, deployment, inspection>>

SourceIsCurrent(c) ==
    /\ IsFile(TreeOf(c.source), c.source)
    /\ StatGeneration(c.source) = c.sourceGen

\* complete_compilation_success: installed only over what was there, from what is there.
CompilationInstalled(artifact) ==
    \E c \in compilation :
        /\ c.owner = Len(frames)
        /\ SourceIsCurrent(c)
        /\ ReplaceIfRevision(InitialCapability, c.output, artifact, c.outputRevision, TRUE)
        /\ compilation' = {}
        /\ UNCHANGED <<slots, stale, frames, deployment, inspection>>

\* Every other completion (stale, rejected, not installable) only ends the transaction.
CompilationEnded ==
    /\ \E c \in compilation : c.owner = Len(frames)
    /\ compilation' = {}
    /\ UNCHANGED <<treeVars, frames, deployment, inspection>>

\* executable_revision, then deploy.
AskRevision(p) ==
    /\ Pending < MaxPending /\ CanReplace(InitialCapability, p)
    /\ deployment' = {[path |-> p, revision |-> Revision(p), seen |-> Shown(p)]}
    /\ UNCHANGED <<treeVars, frames, compilation, inspection>>

Deploy(artifact) ==
    \E d \in deployment :
        /\ ReplaceIfRevision(InitialCapability, d.path, artifact, d.revision, TRUE)
        /\ deployment' = {}
        /\ UNCHANGED <<slots, stale, frames, compilation, inspection>>

\* filesystem_stat and the first filesystem_read of a file.
InspectStart(p) ==
    /\ Len(p) >= 2 /\ IsFile(TreeOf(p), p) /\ Pending < MaxPending
    /\ inspection' = {[path |-> p, gen |-> StatGeneration(p), got |-> << >>,
                       bytes |-> BytesOf(TreeOf(p)[p])]}
    /\ UNCHANGED <<treeVars, frames, compilation, deployment>>
\* filesystem_read: a chunk of the file the generation names, or StaleGeneration.
InspectChunk(maximum) ==
    \E i \in inspection :
        /\ IsFile(TreeOf(i.path), i.path)
        /\ StatGeneration(i.path) = i.gen
        /\ LET bytes == BytesOf(TreeOf(i.path)[i.path])
               end == Min({Len(i.got) + maximum, Len(bytes)})
           IN  /\ Len(i.got) < Len(bytes)
               /\ inspection' = {[i EXCEPT !.got = @ \o SubSeq(bytes, Len(@) + 1, end)]}
        /\ UNCHANGED <<treeVars, frames, compilation, deployment>>

---------------------------------------------------------------------------
(* Restart, with and without an execution checkpoint. *)

\* The computer boots again from the store: nothing of the execution survives.
Reboot ==
    /\ Reopen
    /\ frames' = <<NoTransfers>>
    /\ compilation' = {} /\ deployment' = {} /\ inspection' = {}

\* HandleTable::validate_checkpoint.
HandlesAccepted ==
    /\ Len(slots) <= MaxHandles
    /\ \A i \in DOMAIN slots :
        /\ slots[i].retired => slots[i].gen = MaxHandleGeneration /\ slots[i].file = {}
        /\ \A f \in slots[i].file :
            /\ Parses(f.path)
            /\ "write" \in f.mode => f.path[1] # "rom"

\* FileTransfers::read_with_limits and validate, for one transfer.
TransferAccepted(t) ==
    /\ Parses(t.path)
    /\ CASE t.kind = "read" ->
              /\ Len(t.bytes) <= MaxFileBytes /\ t.at <= Len(t.bytes)
              /\ Permits(InitialCapability, t.path, {"read"})
         [] t.kind = "write" ->
              /\ Len(t.bytes) <= MaxFileBytes
              /\ t.path[1] = "home" /\ t.revision # {0}
              /\ Permits(InitialCapability, t.path,
                         IF t.revision = {} THEN {"write", "create"} ELSE {"write"})
         [] t.kind = "directory" ->
              /\ Len(t.names) <= MaxEntries /\ t.at <= Len(t.names)
              /\ \A i \in DOMAIN t.names : Parses(Append(t.path, t.names[i]))
              /\ Permits(InitialCapability, t.path, {"list"})
         [] t.kind = "move" ->
              Permits(InitialCapability, t.path, {"rename", "inspect"})

FrameAccepted(f) ==
    /\ f.next > 0
    /\ FrameHandles(f) <= MaxHandles
    /\ FrameRetained(f) <= MaxLogicalBytes
    /\ \A id \in DOMAIN f.open : id < f.next /\ TransferAccepted(f.open[id])

\* read_checkpoint_state of the tree: the namespace decodes and replays, the objects are
\* there, the accounts agree, and the store attached holds exactly this tree.
TreeAccepted ==
    /\ CheckpointCanonical(home, generation)
    /\ WithinLimits(home)
    /\ \A p \in DOMAIN home : home[p].object \subseteq DOMAIN objects
    /\ quota = [bytes |-> LogicalBytes(home), nodes |-> 2 + Cardinality(DOMAIN home)]
    /\ recovered = [ok |-> TRUE, gen |-> generation, nodes |-> home]

\* A restored draft holds exactly its bytes.
Restored(f) ==
    [f EXCEPT !.open = [id \in DOMAIN f.open |->
        IF f.open[id].kind = "write" THEN [f.open[id] EXCEPT !.capacity = Len(f.open[id].bytes)]
        ELSE f.open[id]]]

\* Save, restart and restore: the handles, drafts and transactions live on.
Restore ==
    /\ TreeAccepted /\ HandlesAccepted
    /\ \A i \in DOMAIN frames : FrameAccepted(frames[i])
    /\ home' = recovered.nodes
    /\ objects' = StoreFor(recovered.nodes)
    /\ frames' = [i \in DOMAIN frames |-> Restored(frames[i])]
    /\ UNCHANGED <<quota, generation, slots, recovered, stale,
                   compilation, deployment, inspection>>

---------------------------------------------------------------------------
Init ==
    /\ TreeInit
    /\ frames = <<NoTransfers>>
    /\ compilation = {} /\ deployment = {} /\ inspection = {}

GuestCall ==
    /\ generation < MaxGeneration
    /\ \/ \E p \in Paths : \/ CreateDirectory(InitialCapability, p)
                           \/ RemoveEntry(InitialCapability, p)
       \/ \E p \in Paths, bytes \in Contents :
             WriteFile(InitialCapability, p, bytes, FALSE) /\ UNCHANGED <<slots, stale>>
       \/ \E p \in Paths, to \in Paths : Rename(InitialCapability, p, to, FALSE)
       \/ \E source \in DOMAIN Rom, p \in Paths :
             InstallFromRom(InitialCapability, source, p) /\ UNCHANGED <<slots, stale>>

HandleCall ==
    \/ /\ Pending < MaxPending
       /\ \E cap \in Capabilities, p \in Paths, mode \in {{"read"}, {"write"}, {"read", "write"}} :
             Open(cap, p, mode)
    \/ \E h \in Handles :
          \/ Close(h)
          \/ \E offset \in 0..MaxFileBytes, bytes \in Contents : Write(h, offset, bytes)
          \/ \E size \in 0..MaxFileBytes : Truncate(h, size)

TransferCall ==
    \/ /\ Pending < MaxPending
       /\ \E p \in Paths : OpenRead(p) \/ OpenWrite(p) \/ OpenDirectory(p) \/ OpenMove(p)
    \/ \E id \in Open_("read"), n \in 1..MaxIo : ReadChunk(id, n)
    \/ \E id \in Open_("write") :
          CommitTransfer(id) \/ \E bytes \in Contents : AppendChunk(id, bytes)
    \/ \E id \in Open_("directory") : NextEntry(id)
    \/ \E id \in Open_("move"), to \in Paths, replace \in BOOLEAN : MoveOpened(id, to, replace)
    \/ \E id \in DOMAIN Active.open : CloseTransfer(id)

MachineStep ==
    \/ EnterProcess \/ FinishChild
    \/ \E source \in SourceFiles, output \in Paths : RequestCompilation(source, output)
    \/ CompilationEnded
    \/ Pending < MaxPending /\ \E p \in Paths : AskRevision(p) \/ InspectStart(p)
    \/ \E bytes \in Contents : CompilationInstalled(bytes) \/ Deploy(bytes)
    \/ \E n \in 1..MaxIo : InspectChunk(n)
    \/ Reboot \/ Restore

Next ==
    \/ (GuestCall \/ HandleCall) /\ UNCHANGED transferVars
    \/ TransferCall
    \/ MachineStep

Spec == Init /\ [][Next]_vars

---------------------------------------------------------------------------
(* Properties. *)

\* recover() rebuilds, from the records the mutations published, exactly the tree the
\* programs see: same paths, bytes, flags and generations (tree.rs against recovery.rs).
ReplayAgrees == recovered = [ok |-> TRUE, gen |-> generation, nodes |-> home]

\* The quota ledger and the object references, kept incrementally by every mutation of
\* tree.rs, are what a count over the tree gives, and stay within the limits.
AccountsExact ==
    /\ quota = [bytes |-> LogicalBytes(home), nodes |-> 2 + Cardinality(DOMAIN home)]
    /\ quota.bytes <= MaxLogicalBytes /\ quota.nodes <= MaxNodes
    /\ objects = StoreFor(home)

\* A generation names one version of one node for ever: whatever node later carries it has
\* the same bytes.  Drafts, moves, compilations and inspections all rest on this.
GenerationPinsContent ==
    [][\A p \in DOMAIN home, q \in DOMAIN home' :
          home[p].gen = home'[q].gen => home[p] = home'[q]]_home

\* The chunks the host has read of one file are a prefix of one version of it
\* (filesystem_read checks the generation on every chunk).
InspectionIsOneVersion == \A i \in inspection : IsPrefix(i.got, i.bytes)

\* A draft, a compilation or a deployment that ends in a step that changes the tree finds at
\* its path the very node its owner saw when it began.
EndsOnWhatItSaw ==
    /\ \A id \in DOMAIN Active.open :
          (/\ Active.open[id].kind = "write"
           /\ Len(frames') = Len(frames)
           /\ id \notin DOMAIN frames'[Len(frames)].open
           /\ home' # home)
             => Shown(Active.open[id].path) = Active.open[id].seen
    /\ \A c \in compilation : (compilation' = {} /\ home' # home) => Shown(c.output) = c.seen
    /\ \A d \in deployment : (deployment' = {} /\ home' # home) => Shown(d.path) = d.seen

\* A draft, a compilation or a deployment that takes effect finds at its path the very
\* node its owner saw when it began, however late it comes (replace_file_if_revision);
\* and what an inspection gathers over several calls is one version of a file.
LateActionsSeeWhatTheySaw ==
    /\ GenerationPinsContent
    /\ []InspectionIsOneVersion
    /\ [][EndsOnWhatItSaw]_vars

\* A handle that was closed never resolves again, however its slot is reused
\* (handle.rs: the table never aliases a stale handle after reuse).
StaleHandlesStayStale == \A h \in stale : ~Resolves(h)

\* Whatever the processes have open, the execution checkpoint that would be written now
\* is one that restore accepts (checkpoint/filesystem_tree.rs, FileTransfers::validate):
\* the accounts are exact and no handle that was closed resolves.
SnapshotAccepted ==
    /\ AccountsExact
    /\ StaleHandlesStayStale
    /\ TreeAccepted
    /\ HandlesAccepted
    /\ \A i \in DOMAIN frames : FrameAccepted(frames[i])

\* What the programs see of the tree, its bytes fetched from the object store.
Visible ==
    [p \in DOMAIN home |->
        [kind |-> home[p].kind, bytes |-> home[p].object, exec |-> home[p].exec,
         readable |-> home[p].object \subseteq DOMAIN objects]]

FileMapView == INSTANCE FileMap WITH map <- Visible

\* The tree with its object store, handles, drafts and restarts implements FileMap: one
\* whole operation at a time, and nothing lost in between.
ImplementsFileMap == FileMapView!MapSpec
=============================================================================
