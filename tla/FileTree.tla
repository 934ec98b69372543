------------------------------ MODULE FileTree ------------------------------
(***************************************************************************)
(* One computer's file system (filesystem/tree.rs): the writable tree      *)
(* /home over a content-addressed object store, the read-only tree /rom,   *)
(* the quota ledger, the handle table, and the journal record that every   *)
(* successful mutation publishes.  The model keeps, beside the tree, what  *)
(* recover() (filesystem/persistence/recovery.rs) rebuilds from those      *)
(* records, so that "a restart yields the tree the program saw" is an      *)
(* invariant and not a hope.                                               *)
(*                                                                         *)
(* A path is the sequence of its components, mount first.  A tree is a     *)
(* function from paths to nodes.  The SHA-256 object identifier is taken   *)
(* to be injective: the identifier of a file's bytes is the bytes.  A call *)
(* that fails changes nothing and is a stuttering step, so every action    *)
(* below is a successful call.                                             *)
(***************************************************************************)
EXTENDS Integers, Sequences, FiniteSetsExt

CONSTANTS
    Paths,               \* the parsed paths callers pass
    Rom,                 \* the ROM image: a function from /rom paths to nodes
    Capabilities,        \* file capabilities in circulation
    MaxComponents,       \* FileSystemLimits.maximum_components
    MaxFileBytes,        \* FileSystemLimits.maximum_file_bytes
    MaxLogicalBytes,     \* FileSystemLimits.maximum_logical_bytes
    MaxNodes,            \* FileSystemLimits.maximum_nodes, the two mounts included
    MaxEntries,          \* FileSystemLimits.maximum_directory_entries
    MaxHandles,          \* FileSystemLimits.maximum_open_handles
    MaxIo,               \* FileSystemLimits.maximum_io_bytes
    MaxHandleGeneration, \* u32::MAX of a handle slot's generation
    MaxGeneration        \* bound: mutations explored

VARIABLES
    home,       \* the nodes of /home, without the mount itself
    objects,    \* references of each stored object
    quota,      \* QuotaLedger: logical bytes and nodes
    generation, \* ComputerFileSystem.generation
    slots,      \* HandleTable.slots
    recovered,  \* what recover() yields from the published records
    stale       \* ghost: handles that have been closed

treeVars == <<home, objects, quota, generation, slots, recovered, stale>>

---------------------------------------------------------------------------
(* Sequences.  These are the library's operators, stated here because the  *)
(* proofs carry every definition in scope through each of their steps.     *)

IsPrefix(s, t) == Len(s) <= Len(t) /\ SubSeq(s, 1, Len(s)) = SubSeq(t, 1, Len(s))
Front(s) == SubSeq(s, 1, Len(s) - 1)
Last(s) == s[Len(s)]

---------------------------------------------------------------------------
(* Paths, capabilities, nodes. *)

\* VirtualPath::parse_utf8: a path that a textual path may denote.
Parses(p) ==
    /\ Len(p) <= MaxComponents
    /\ \A i \in DOMAIN p : p[i] \notin {"", ".", ".."}

HomeRoot == <<"home">>
IsWithin(p, root) == IsPrefix(root, p)
Parent(p) == Front(p)

\* A path that names a node of /home (writable_path, split_name).
HomeDescendant(p) == Len(p) >= 2 /\ p[1] = "home"

\* FileCapability::permits.
Permits(cap, p, rights) == IsWithin(p, cap.root) /\ rights \subseteq cap.rights

\* A directory has no object; a file has exactly one.
DirectoryNode(g) == [kind |-> "directory", gen |-> g, object |-> {}, exec |-> FALSE]
FileNode(bytes, g, exec) == [kind |-> "file", gen |-> g, object |-> {bytes}, exec |-> exec]
Size(node) == SumSet({Len(o) : o \in node.object})
BytesOf(node) == CHOOSE o \in node.object : TRUE
IsNode(node) ==
    /\ node \in [kind : {"directory", "file"}, gen : Nat, object : SUBSET Seq(Nat), exec : BOOLEAN]
    /\ node.object = IF node.kind = "file" THEN {BytesOf(node)} ELSE {}

\* A function with x bound to y.
Extended(f, x, y) == [z \in DOMAIN f \cup {x} |-> IF z = x THEN y ELSE f[z]]

Subtree(tree, p) == {q \in DOMAIN tree : IsWithin(q, p)}
Children(tree, p) == {q \in DOMAIN tree : Len(q) = Len(p) + 1 /\ IsWithin(q, p)}
IsDirectory(tree, p) ==
    Len(p) # 1 => p \in DOMAIN tree /\ tree[p].kind = "directory"
IsFile(tree, p) == p \in DOMAIN tree /\ tree[p].kind = "file"
EmptyDirectory(tree, p) == Children(tree, p) = {}

\* ComputerFileSystem::directory.
TreeOf(p) == IF p[1] = "rom" THEN Rom ELSE home

LogicalBytes(tree) == MapThenSumSet(LAMBDA p : Size(tree[p]), DOMAIN tree)

\* RomImage::admit: every entry below /rom, its parent before it, within the limits.
RomAdmitted ==
    /\ Cardinality(DOMAIN Rom) <= MaxNodes - 2
    /\ \A p \in DOMAIN Rom :
        /\ Parses(p) /\ Len(p) >= 2 /\ p[1] = "rom"
        /\ IsDirectory(Rom, Parent(p))
        /\ Size(Rom[p]) <= MaxFileBytes
        /\ Rom[p].gen = 0
        /\ Rom[p].exec => Rom[p].kind = "file"

ASSUME RomIsAdmitted == RomAdmitted
ASSUME RomIsATree == IsFiniteSet(DOMAIN Rom) /\ \A p \in DOMAIN Rom : IsNode(Rom[p])
\* admit() does not bound the entries of a ROM directory; the images shipped do fit.
ASSUME RomDirectoriesFit ==
    \A p \in DOMAIN Rom : Cardinality(Children(Rom, Parent(p))) <= MaxEntries
ASSUME PathsParse == \A p \in Paths : p \in Seq(STRING) /\ Parses(p)
ASSUME Bounds ==
    /\ MaxComponents >= 2 /\ MaxNodes >= 2 /\ MaxGeneration >= 1
    /\ MaxFileBytes \in Nat /\ MaxIo \in Nat /\ MaxHandleGeneration \in Nat \ {0}

---------------------------------------------------------------------------
(* The object store and the quota ledger. *)
\* Mutant: the first removal drops an object that other files still share.
ObjectRemovedAtOnce(store, o) == [x \in DOMAIN store \ {o} |-> store[x]]

\* ObjectStore::remove: the last reference removes the object.
ObjectRemoved(store, o) ==
    IF store[o] = 1 THEN [x \in DOMAIN store \ {o} |-> store[x]]
    ELSE [store EXCEPT ![o] = @ - 1]

\* ObjectStore::replace; `previous` holds at most one object.
ObjectReplaced(store, previous, next) ==
    IF previous = {next} THEN store
    ELSE LET count == IF next \in DOMAIN store THEN store[next] ELSE 0
             added == Extended(store, next, count + 1)
         IN  IF previous = {} THEN added
             ELSE ObjectRemoved(added, CHOOSE o \in previous : TRUE)

\* The references the nodes of a tree hold on an object.
References(tree, o) == Cardinality({p \in DOMAIN tree : o \in tree[p].object})

\* The object store a set of trees needs.
StoreFor(tree) ==
    [o \in (UNION {tree[p].object : p \in DOMAIN tree})
              \cup (UNION {Rom[p].object : p \in DOMAIN Rom})
        |-> References(tree, o) + References(Rom, o)]

\* QuotaLedger::reserve succeeds.
CanReserve(bytes, nodes) ==
    quota.bytes + bytes <= MaxLogicalBytes /\ quota.nodes + nodes <= MaxNodes

Grown(size, previous) == IF size > previous THEN size - previous ELSE 0

---------------------------------------------------------------------------
(* The journal: what a mutation publishes, and what recover() makes of it. *)

MakeDirectory(p) == [op |-> "mkdir", path |-> p]
PutFile(p, bytes, exec) == [op |-> "put", path |-> p, bytes |-> bytes, exec |-> exec]
RemoveNode(p) == [op |-> "remove", path |-> p]
RenameNode(p, to, replace) == [op |-> "rename", path |-> p, to |-> to, replace |-> replace]

\* JournalRecord::new and decode accept the record.
Canonical(op) ==
    /\ HomeDescendant(op.path) /\ Parses(op.path)
    /\ op.op = "put" => Len(op.bytes) <= MaxFileBytes
    /\ op.op = "rename" => /\ HomeDescendant(op.to) /\ Parses(op.to)
                           /\ op.to # op.path

\* recovery.rs rebase: the path of a node below `from` once `from` is `to`.
Rebase(p, from, to) == to \o SubSeq(p, Len(from) + 1, Len(p))

\* recovery.rs apply and rename: may the record be applied to these nodes?
Applicable(nodes, op) ==
    CASE op.op = "mkdir" ->
           IsDirectory(nodes, Parent(op.path)) /\ op.path \notin DOMAIN nodes
      [] op.op = "put" ->
           IsDirectory(nodes, Parent(op.path)) /\ ~IsDirectory(nodes, op.path)
      [] op.op = "remove" ->
           op.path \in DOMAIN nodes /\ Subtree(nodes, op.path) = {op.path}
      [] op.op = "rename" ->
           /\ ~IsWithin(op.to, op.path)
           /\ IsDirectory(nodes, Parent(op.to))
           /\ op.path \in DOMAIN nodes
           /\ op.to \in DOMAIN nodes =>
                /\ op.replace
                /\ nodes[op.to].kind = nodes[op.path].kind
                /\ Subtree(nodes, op.to) = {op.to}
           /\ \A p \in Subtree(nodes, op.path) : Parses(Rebase(p, op.path, op.to))

\* A subtree moved: only its root takes the new generation.
Moved(tree, from, to, g) ==
    LET moving == Subtree(tree, from)
        kept == DOMAIN tree \ (moving \cup {to})
    IN  [p \in kept \cup {Rebase(q, from, to) : q \in moving} |->
            IF p = to THEN [tree[from] EXCEPT !.gen = g]
            ELSE IF IsWithin(p, to) THEN tree[Rebase(p, to, from)]
            ELSE tree[p]]

Applied(nodes, op, g) ==
    CASE op.op = "mkdir" -> Extended(nodes, op.path, DirectoryNode(g))
      [] op.op = "put" -> Extended(nodes, op.path, FileNode(op.bytes, g, op.exec))
      [] op.op = "remove" -> [p \in DOMAIN nodes \ {op.path} |-> nodes[p]]
      [] op.op = "rename" -> Moved(nodes, op.path, op.to, g)

\* recovery.rs validate_state.
WithinLimits(nodes) ==
    /\ Cardinality(DOMAIN nodes) <= MaxNodes - 2
    /\ LogicalBytes(nodes) <= MaxLogicalBytes
    /\ \A p \in DOMAIN nodes : Cardinality(Children(nodes, Parent(p))) <= MaxEntries

\* One record of recover(): a record it cannot apply is a confirmed corruption.
Replayed(state, op, g) ==
    IF /\ state.ok /\ g = state.gen + 1 /\ Canonical(op)
       /\ Applicable(state.nodes, op)
       /\ WithinLimits(Applied(state.nodes, op, g))
    THEN [ok |-> TRUE, gen |-> g, nodes |-> Applied(state.nodes, op, g)]
    ELSE [state EXCEPT !.ok = FALSE]

\* next_generation, prepare_persistence and publish at the end of every mutation.
Publish(op) ==
    /\ generation < MaxGeneration
    /\ generation' = generation + 1
    /\ recovered' = Replayed(recovered, op, generation + 1)

\* persistence/checkpoint.rs validate_nodes and Checkpoint::encode: the nodes can be
\* written as a compacted checkpoint of the store.
CheckpointCanonical(nodes, g) ==
    /\ Cardinality(DOMAIN nodes) <= MaxNodes - 2
    /\ \A p \in DOMAIN nodes :
        /\ HomeDescendant(p) /\ Parses(p)
        /\ nodes[p].gen <= g
        /\ IsDirectory(nodes, Parent(p))
        /\ Size(nodes[p]) <= MaxFileBytes

---------------------------------------------------------------------------
(* Mutations of the tree. *)

TreeInit ==
    /\ home = << >>
    /\ objects = StoreFor(<< >>)
    /\ quota = [bytes |-> 0, nodes |-> 2]
    /\ generation = 0
    /\ slots = << >>
    /\ recovered = [ok |-> TRUE, gen |-> 0, nodes |-> << >>]
    /\ stale = {}

HasRoom(p) == Cardinality(Children(home, p)) < MaxEntries

CreateDirectory(cap, p) ==
    /\ HomeDescendant(p) /\ Permits(cap, p, {"create"})
    /\ IsDirectory(home, Parent(p)) /\ p \notin DOMAIN home
    /\ HasRoom(Parent(p))
    /\ CanReserve(0, 1)
    /\ home' = Extended(home, p, DirectoryNode(generation + 1))
    /\ quota' = [quota EXCEPT !.nodes = @ + 1]
    /\ Publish(MakeDirectory(p))
    /\ UNCHANGED <<objects, slots, stale>>
\* What write_file and replace_existing share: the file at p becomes `bytes`.
StoreFile(p, bytes, exec) ==
    LET isNew == p \notin DOMAIN home
        previous == IF isNew THEN {} ELSE home[p].object
        size0 == IF isNew THEN 0 ELSE Size(home[p])
    IN  /\ Len(bytes) <= MaxFileBytes
        /\ CanReserve(Grown(Len(bytes), size0), IF isNew THEN 1 ELSE 0)
        /\ home' = Extended(home, p, FileNode(bytes, generation + 1, exec))
        /\ objects' = ObjectReplaced(objects, previous, bytes)
        /\ quota' = [bytes |-> quota.bytes + Grown(Len(bytes), size0)
                                           - Grown(size0, Len(bytes)),
                     nodes |-> quota.nodes + IF isNew THEN 1 ELSE 0]
        /\ Publish(PutFile(p, bytes, exec))

\* replacement_revision succeeds: p can be written, and is absent or a file.
CanReplace(cap, p) ==
    /\ HomeDescendant(p) /\ IsDirectory(home, Parent(p))
    /\ ~IsDirectory(home, p)
    /\ IF p \in DOMAIN home THEN Permits(cap, p, {"write"})
       ELSE Permits(cap, p, {"create", "write"}) /\ HasRoom(Parent(p))

\* ExecutableRevision: the generation present at p, or none.
Revision(p) == IF p \in DOMAIN home THEN {home[p].gen} ELSE {}

WriteFile(cap, p, bytes, exec) ==
    CanReplace(cap, p) /\ StoreFile(p, bytes, exec)
\* Mutant: the revision is not compared.
ReplaceAnyRevision(cap, p, bytes, expected, exec) ==
    CanReplace(cap, p) /\ StoreFile(p, bytes, exec)

\* replace_file_if_revision: Busy when the destination is not the revision expected.
ReplaceIfRevision(cap, p, bytes, expected, exec) ==
    CanReplace(cap, p) /\ Revision(p) = expected /\ StoreFile(p, bytes, exec)

InstallFromRom(cap, source, p) ==
    /\ IsFile(Rom, source) /\ Rom[source].exec
    /\ HomeDescendant(p) /\ p \notin DOMAIN home
    /\ WriteFile(cap, p, BytesOf(Rom[source]), TRUE)
\* The node at p leaves the accounts: its object, its bytes, its place.
Released(p) ==
    /\ objects' = IF home[p].object = {} THEN objects
                  ELSE ObjectRemoved(objects, BytesOf(home[p]))
    /\ quota' = [bytes |-> quota.bytes - Size(home[p]), nodes |-> quota.nodes - 1]

RemoveEntry(cap, p) ==
    /\ HomeDescendant(p) /\ Permits(cap, p, {"delete"})
    /\ p \in DOMAIN home /\ EmptyDirectory(home, p)
    /\ home' = [q \in DOMAIN home \ {p} |-> home[q]]
    /\ Released(p)
    /\ Publish(RemoveNode(p))
    /\ UNCHANGED <<slots, stale>>

\* rename checks the moved node's own path, and no path below it.
RenameAllowed(cap, p, to, replace) ==
    /\ HomeDescendant(p) /\ HomeDescendant(to)
    /\ Permits(cap, p, {"rename"}) /\ Permits(cap, to, {"rename"})
    /\ ~IsWithin(to, p)
    /\ p \in DOMAIN home
    /\ IsDirectory(home, Parent(to))
    /\ IF to \in DOMAIN home
       THEN /\ replace
            /\ EmptyDirectory(home, to)
            /\ home[to].kind = home[p].kind
       ELSE HasRoom(Parent(to))
\* Mutant: the moved node keeps its generation.
RenameKeepingGeneration(cap, p, to, replace) ==
    /\ RenameAllowed(cap, p, to, replace)
    /\ home' = Moved(home, p, to, home[p].gen)
    /\ IF to \in DOMAIN home THEN Released(to) ELSE UNCHANGED <<objects, quota>>
    /\ Publish(RenameNode(p, to, replace))
    /\ UNCHANGED <<slots, stale>>

Rename(cap, p, to, replace) ==
    /\ RenameAllowed(cap, p, to, replace)
    /\ home' = Moved(home, p, to, generation + 1)
    /\ IF to \in DOMAIN home THEN Released(to) ELSE UNCHANGED <<objects, quota>>
    /\ Publish(RenameNode(p, to, replace))
    /\ UNCHANGED <<slots, stale>>

---------------------------------------------------------------------------
(* Open handles. *)

ModeRights(mode) == {"inspect"} \cup mode

\* HandleTable::get: the slot is in use by this very handle.
Resolves(h) ==
    /\ h.slot \in DOMAIN slots
    /\ slots[h.slot].gen = h.gen
    /\ slots[h.slot].file # {}

FileOf(h) == CHOOSE f \in slots[h.slot].file : TRUE
Handles == {[slot |-> i, gen |-> slots[i].gen] : i \in {j \in DOMAIN slots : slots[j].file # {}}}

FreeSlots == {i \in DOMAIN slots : slots[i].file = {} /\ ~slots[i].retired}

\* HandleTable::open: the first free slot, or a new one while the table may grow.
OpenSlot(file) ==
    IF FreeSlots # {}
    THEN slots' = [slots EXCEPT ![Min(FreeSlots)].file = {file}]
    ELSE /\ Len(slots) < MaxHandles
         /\ slots' = Append(slots, [gen |-> 1, file |-> {file}, retired |-> FALSE])

Open(cap, p, mode) ==
    /\ Permits(cap, p, ModeRights(mode))
    /\ p # << >> /\ IsFile(TreeOf(p), p)
    /\ OpenSlot([path |-> p, mode |-> mode])
    /\ UNCHANGED <<home, objects, quota, generation, recovered, stale>>
\* HandleTable::close: the generation moves on, or the slot retires at its last one.
Close(h) ==
    LET s == slots[h.slot] IN
    /\ Resolves(h)
    /\ slots' = [slots EXCEPT ![h.slot] =
            IF s.gen = MaxHandleGeneration THEN [s EXCEPT !.file = {}, !.retired = TRUE]
            ELSE [s EXCEPT !.file = {}, !.gen = s.gen + 1]]
    /\ stale' = stale \cup {h}
    /\ UNCHANGED <<home, objects, quota, generation, recovered>>

\* Bytes resized to n, new ones zero.
Resized(bytes, n) == [i \in 1..n |-> IF i <= Len(bytes) THEN bytes[i] ELSE 0]

\* ComputerFileSystem::write: at most MaxIo bytes, the gap before them zero.
Write(h, offset, bytes) ==
    LET f == FileOf(h)
        accepted == Min({Len(bytes), MaxIo})
        end == offset + accepted
        old == BytesOf(home[f.path])
        base == Resized(old, Max({Len(old), end}))
    IN  /\ Resolves(h) /\ "write" \in f.mode
        /\ accepted > 0 /\ end <= MaxFileBytes
        /\ HomeDescendant(f.path) /\ IsFile(home, f.path)
        /\ StoreFile(f.path,
                     [i \in DOMAIN base |-> IF i \in offset + 1 .. end
                                            THEN bytes[i - offset] ELSE base[i]],
                     home[f.path].exec)
        /\ UNCHANGED <<slots, stale>>

Truncate(h, size) ==
    LET f == FileOf(h) IN
    /\ Resolves(h) /\ "write" \in f.mode
    /\ size <= MaxFileBytes
    /\ HomeDescendant(f.path) /\ IsFile(home, f.path)
    /\ size # Size(home[f.path])
    /\ StoreFile(f.path, Resized(BytesOf(home[f.path]), size), home[f.path].exec)
    /\ UNCHANGED <<slots, stale>>

---------------------------------------------------------------------------
(* Restart: open_computer recovers the tree from what was published. *)

\* restore_recovered into an empty tree.
Reopen ==
    /\ recovered.ok
    /\ LogicalBytes(recovered.nodes) <= MaxLogicalBytes
    /\ 2 + Cardinality(DOMAIN recovered.nodes) <= MaxNodes
    /\ home' = recovered.nodes
    /\ objects' = StoreFor(recovered.nodes)
    /\ quota' = [bytes |-> LogicalBytes(recovered.nodes),
                 nodes |-> 2 + Cardinality(DOMAIN recovered.nodes)]
    /\ generation' = recovered.gen
    /\ slots' = << >>
    /\ stale' = {}
    /\ UNCHANGED recovered

=============================================================================
