--------------------------- MODULE FileTransfersProofs ---------------------------
(***************************************************************************)
(* Proofs about the file operations of a running computer, for any paths,  *)
(* limits, process stacks and sequences of calls.                          *)
(***************************************************************************)
EXTENDS FileTransfers, FileTreeProofs

--------------------------------------------------------------------------------
(* The calls that only change the tree *)

LEMMA GuestSteps ==
    ASSUME TreeOK(home), GuestCall
    PROVE  TreeStep
<1>1. ASSUME NEW p \in Paths, CreateDirectory(InitialCapability, p) PROVE TreeStep
  <2>1. MadeDirectory(p)
    BY <1>1, PathsArePaths DEF CreateDirectory, MadeDirectory
  <2> QED
    BY <2>1, Zenon DEF TreeStep
<1>2. ASSUME NEW p \in Paths, RemoveEntry(InitialCapability, p) PROVE TreeStep
  <2>1. Removed(p)
    BY <1>2, Zenon DEF RemoveEntry, Removed, Released, Dropped
  <2> QED
    BY <2>1, Zenon DEF TreeStep
<1>3. ASSUME NEW p \in Paths, NEW bytes \in Contents, WriteFile(InitialCapability, p, bytes, FALSE)
      PROVE  TreeStep
  <2>1. p \in Path /\ bytes \in Seq(Nat) /\ FALSE \in BOOLEAN
    BY PathsArePaths, ContentsAreBytes
  <2> QED
    BY <1>3, <2>1, ReplaceSteps, Zenon DEF WriteFile
<1>4. ASSUME NEW p \in Paths, NEW to \in Paths, Rename(InitialCapability, p, to, FALSE)
      PROVE  TreeStep
  BY <1>4, PathsArePaths, RenameSteps, Zenon
<1>5. ASSUME NEW source \in DOMAIN Rom, NEW p \in Paths, InstallFromRom(InitialCapability, source, p)
      PROVE  TreeStep
  <2>1. IsNode(Rom[source]) /\ Rom[source].kind = "file"
    BY <1>5, RomIsATree DEF InstallFromRom, IsFile
  <2>2. p \in Path /\ BytesOf(Rom[source]) \in Seq(Nat) /\ TRUE \in BOOLEAN
    BY <2>1, PathsArePaths, FileBytes
  <2> QED
    BY <1>5, <2>2, ReplaceSteps, Zenon DEF InstallFromRom, WriteFile
<1> QED
  BY <1>1, <1>2, <1>3, <1>4, <1>5, Zenon DEF GuestCall

LEMMA HandleSteps ==
    ASSUME TreeOK(home), HandleCall
    PROVE  TreeStep
<1>1. ASSUME NEW cap, NEW p, NEW mode, Open(cap, p, mode) PROVE TreeStep
  BY <1>1, Zenon DEF Open, TreeStep, Unmoved
<1>2. ASSUME NEW h \in Handles, Close(h) PROVE TreeStep
  BY <1>2, Zenon DEF Close, TreeStep, Unmoved
<1>3. ASSUME NEW p, IsFile(home, p), HomeDescendant(p)
      PROVE  /\ p \in Path /\ IsDirectory(home, Parent(p)) /\ home[p].kind = "file"
             /\ BytesOf(home[p]) \in Seq(Nat) /\ home[p].exec \in BOOLEAN
  <2>1. p \in DOMAIN home /\ home[p].kind = "file" /\ IsNode(home[p]) /\ p \in Path
    BY <1>3 DEF IsFile, TreeOK
  <2>2. IsDirectory(home, Parent(p))
    BY <2>1, ParentIsDirectory
  <2> QED
    BY <2>1, <2>2, FileBytes
<1>4. ASSUME NEW h \in Handles, NEW offset \in 0 .. MaxFileBytes, NEW bytes \in Contents,
             Write(h, offset, bytes)
      PROVE  TreeStep
  <2> DEFINE p == FileOf(h).path
             accepted == Min({Len(bytes), MaxIo})
             end == offset + accepted
             old == BytesOf(home[p])
             base == Resized(old, Max({Len(old), end}))
             next == [i \in DOMAIN base |-> IF i \in offset + 1 .. end THEN bytes[i - offset] ELSE base[i]]
  <2>1. HomeDescendant(p) /\ IsFile(home, p) /\ StoreFile(p, next, home[p].exec)
    BY <1>4, Zenon DEF Write
  <2>2. /\ p \in Path /\ IsDirectory(home, Parent(p)) /\ home[p].kind = "file"
        /\ old \in Seq(Nat) /\ home[p].exec \in BOOLEAN
    BY <1>3, <2>1
  <2>3. bytes \in Seq(Nat) /\ Len(bytes) \in Nat /\ Len(old) \in Nat /\ MaxIo \in Nat
        /\ offset \in Nat
    BY <2>2, ContentsAreBytes, LenProperties, Bounds, SMTT(30)
  <2>4. accepted \in Nat /\ accepted <= Len(bytes) /\ end \in Nat
    BY <2>3, MinOfTwo, SMTT(30)
  <2>5. Max({Len(old), end}) \in Nat
    <3> HIDE DEF p, accepted, old, end
    <3> QED
      BY <2>3, <2>4, MaxOfTwo, SMTT(30)
  <2> HIDE DEF p, accepted, old
  <2>6. \E n \in Nat : DOMAIN base = 1 .. n /\ \A i \in 1 .. n : base[i] \in Nat
    <3> DEFINE n == Max({Len(old), end})
    <3> HIDE DEF n
    <3>1. n \in Nat
      BY <2>5 DEF n
    <3>2. DOMAIN Resized(old, n) = 1 .. n /\ \A i \in 1 .. n : Resized(old, n)[i] \in Nat
      BY <2>2, <3>1, ResizedBytes, Zenon
    <3> QED
      BY <3>1, <3>2, Zenon DEF n
  <2> HIDE DEF base
  <2>7. ASSUME NEW i \in offset + 1 .. end PROVE bytes[i - offset] \in Nat
    <3>1. i - offset \in 1 .. Len(bytes)
      BY <2>3, <2>4
    <3> QED
      BY <2>3, <3>1, ElementOfSeq
  <2>8. next \in Seq(Nat)
    <3>1. PICK n \in Nat : DOMAIN base = 1 .. n /\ \A i \in 1 .. n : base[i] \in Nat
      BY <2>6
    <3>2. next \in [1 .. n -> Nat]
      BY <2>7, <3>1
    <3> HIDE DEF next
    <3> QED
      BY <3>1, <3>2
  <2> HIDE DEF next
  <2> QED
    BY <2>1, <2>2, <2>8, StoreFileSteps
<1>5. ASSUME NEW h \in Handles, NEW size \in 0 .. MaxFileBytes, Truncate(h, size) PROVE TreeStep
  <2> DEFINE p == FileOf(h).path
  <2>1. HomeDescendant(p) /\ IsFile(home, p)
        /\ StoreFile(p, Resized(BytesOf(home[p]), size), home[p].exec)
    BY <1>5, Zenon DEF Truncate
  <2> HIDE DEF p
  <2>2. /\ p \in Path /\ IsDirectory(home, Parent(p)) /\ home[p].kind = "file"
        /\ BytesOf(home[p]) \in Seq(Nat) /\ home[p].exec \in BOOLEAN
    BY <1>3, <2>1
  <2>3. size \in Nat
    BY Bounds
  <2>4. Resized(BytesOf(home[p]), size) \in Seq(Nat)
    BY <2>2, <2>3, ResizedBytes
  <2> QED
    BY <2>1, <2>2, <2>4, StoreFileSteps, SMTT(30)
<1> QED
  BY <1>1, <1>2, <1>4, <1>5, Zenon DEF HandleCall

--------------------------------------------------------------------------------
(* What late actions remember *)

\* The tree and generation (tree2, g2) came after (tree, g): every version in it is of the
\* earlier tree, or was made since.
Later(tree, g, tree2, g2) ==
    /\ g \in Nat /\ g2 \in Nat /\ g <= g2
    /\ \A q \in DOMAIN tree2 : \/ tree2[q].gen \in Nat /\ tree2[q].gen > g
                               \/ \E x \in DOMAIN tree : tree2[q] = tree[x]

\* A generation g0 can, from now on, only be the one of this node.
Pins(tree, g, node) ==
    /\ node.gen \in Nat /\ node.gen <= g
    /\ \A q \in DOMAIN tree : tree[q].gen = node.gen => tree[q] = node

\* A revision and what its owner saw when it was taken.
Saw(tree, g, revision, seen) ==
    /\ revision = {node.gen : node \in seen}
    /\ \A node \in seen : Pins(tree, g, node)

LEMMA TreeStepLater ==
    ASSUME TreeInv, TreeStep
    PROVE  Later(home, generation, home', generation')
<1>1. TreeOK(home) /\ generation \in Nat
  BY DEF TreeInv, Versions
<1>2. OneNew /\ generation' \in {generation, generation + 1}
  BY <1>1, OneIsNew
<1>3. generation' \in Nat /\ generation <= generation' /\ generation + 1 \in Nat /\ generation + 1 > generation
  BY <1>1, <1>2
<1>4. PICK node : \A q \in DOMAIN home' :
        \/ home'[q] = node /\ node.gen = generation + 1 /\ generation' = generation + 1
        \/ \E x \in DOMAIN home : home'[q] = home[x]
  BY <1>2 DEF OneNew
<1>5. \A q \in DOMAIN home' : \/ home'[q].gen \in Nat /\ home'[q].gen > generation
                              \/ \E x \in DOMAIN home : home'[q] = home[x]
  BY <1>3, <1>4
<1> QED
  BY <1>1, <1>3, <1>5 DEF Later

LEMMA PinsLater ==
    ASSUME NEW tree, NEW g, NEW tree2, NEW g2, Later(tree, g, tree2, g2),
           NEW node, Pins(tree, g, node)
    PROVE  Pins(tree2, g2, node)
<1>1. node.gen \in Nat /\ node.gen <= g /\ g \in Nat /\ g2 \in Nat /\ g <= g2
  BY DEF Pins, Later
<1>2. ASSUME NEW q \in DOMAIN tree2, tree2[q].gen = node.gen PROVE tree2[q] = node
  <2>1. ~(tree2[q].gen \in Nat /\ tree2[q].gen > g)
    BY <1>1, <1>2
  <2>2. PICK x \in DOMAIN tree : tree2[q] = tree[x]
    BY <2>1 DEF Later
  <2> QED
    BY <1>2, <2>2 DEF Pins
<1>3. node.gen <= g2
  BY <1>1
<1> QED
  BY <1>1, <1>2, <1>3 DEF Pins

LEMMA SawLater ==
    ASSUME NEW tree, NEW g, NEW tree2, NEW g2, Later(tree, g, tree2, g2),
           NEW revision, NEW seen, Saw(tree, g, revision, seen)
    PROVE  Saw(tree2, g2, revision, seen)
BY PinsLater, Zenon DEF Saw

LEMMA SawNow ==
    ASSUME TreeInv, NEW p
    PROVE  Saw(home, generation, Revision(p), Shown(p))
<1>1. Revision(p) = {node.gen : node \in Shown(p)}
  BY DEF Revision, Shown
<1>2. ASSUME p \in DOMAIN home PROVE Pins(home, generation, home[p])
  <2>1. IsNode(home[p]) /\ Versions
    BY <1>2, Zenon DEF TreeInv, TreeOK
  <2>2. home[p].gen \in Nat
    BY <2>1 DEF IsNode
  <2> QED
    BY <1>2, <2>1, <2>2, Zenon DEF Versions, Pins
<1> QED
  BY <1>1, <1>2 DEF Saw, Shown

\* The revision still there is what was seen.
LEMMA SawStill ==
    ASSUME NEW p, NEW seen, Saw(home, generation, Revision(p), seen)
    PROVE  Shown(p) = seen
<1>1. Revision(p) = {node.gen : node \in seen}
  BY DEF Saw
<1>2. CASE p \notin DOMAIN home
  <2>1. Revision(p) = {} /\ Shown(p) = {}
    BY <1>2 DEF Revision, Shown
  <2> QED
    BY <1>1, <2>1
<1>3. CASE p \in DOMAIN home
  <2>1. Revision(p) = {home[p].gen} /\ Shown(p) = {home[p]}
    BY <1>3 DEF Revision, Shown
  <2>2. \A node \in seen : node.gen = home[p].gen
    BY <1>1, <2>1
  <2>3. \A node \in seen : node = home[p]
    BY <1>3, <2>2 DEF Saw, Pins
  <2>4. seen # {}
    BY <1>1, <2>1
  <2> QED
    BY <2>1, <2>3, <2>4
<1> QED
  BY <1>2, <1>3

--------------------------------------------------------------------------------
(* Transfers *)

WriteIn(t, tree, g) ==
    /\ t = [kind |-> "write", path |-> t.path, bytes |-> t.bytes, capacity |-> t.capacity,
            poisoned |-> t.poisoned, revision |-> t.revision, seen |-> t.seen]
    /\ t.path \in Path /\ t.bytes \in Seq(Nat)
    /\ Saw(tree, g, t.revision, t.seen)

TransferIn(t, tree, g) ==
    \/ t = [kind |-> "read", path |-> t.path, bytes |-> t.bytes, at |-> t.at]
    \/ t = [kind |-> "directory", path |-> t.path, names |-> t.names, at |-> t.at]
    \/ t = [kind |-> "move", path |-> t.path, gen |-> t.gen, seen |-> t.seen]
    \/ WriteIn(t, tree, g)

FrameIn(f, tree, g) ==
    /\ f = [next |-> f.next, open |-> f.open]
    /\ \A id \in DOMAIN f.open : TransferIn(f.open[id], tree, g)

FramesIn(fs, tree, g) ==
    \E S : fs \in Seq(S) /\ fs # << >> /\ \A f \in S : FrameIn(f, tree, g)

LEMMA KindOfTransfer ==
    ASSUME NEW t, NEW tree, NEW g, TransferIn(t, tree, g)
    PROVE  /\ t.kind = "read" => t = [kind |-> "read", path |-> t.path, bytes |-> t.bytes, at |-> t.at]
           /\ t.kind = "directory" =>
                 t = [kind |-> "directory", path |-> t.path, names |-> t.names, at |-> t.at]
           /\ t.kind = "write" => WriteIn(t, tree, g)
<1>1. CASE t = [kind |-> "read", path |-> t.path, bytes |-> t.bytes, at |-> t.at]
  <2>1. t.kind = "read"
    BY <1>1
  <2> QED
    BY <1>1, <2>1
<1>2. CASE t = [kind |-> "directory", path |-> t.path, names |-> t.names, at |-> t.at]
  <2>1. t.kind = "directory"
    BY <1>2
  <2> QED
    BY <1>2, <2>1
<1>3. CASE t = [kind |-> "move", path |-> t.path, gen |-> t.gen, seen |-> t.seen]
  <2>1. t.kind = "move"
    BY <1>3
  <2> QED
    BY <2>1
<1>4. CASE WriteIn(t, tree, g)
  <2>1. t = [kind |-> "write", path |-> t.path, bytes |-> t.bytes, capacity |-> t.capacity,
             poisoned |-> t.poisoned, revision |-> t.revision, seen |-> t.seen]
    BY <1>4 DEF WriteIn
  <2>2. t.kind = "write"
    BY <2>1
  <2> QED
    BY <1>4, <2>2
<1> QED
  BY <1>1, <1>2, <1>3, <1>4 DEF TransferIn

LEMMA FramesLater ==
    ASSUME NEW tree, NEW g, NEW tree2, NEW g2, Later(tree, g, tree2, g2),
           NEW fs, FramesIn(fs, tree, g)
    PROVE  FramesIn(fs, tree2, g2)
<1>1. ASSUME NEW t, TransferIn(t, tree, g) PROVE TransferIn(t, tree2, g2)
  <2>1. ASSUME WriteIn(t, tree, g) PROVE WriteIn(t, tree2, g2)
    BY <2>1, SawLater, Zenon DEF WriteIn
  <2> QED
    BY <1>1, <2>1, Zenon DEF TransferIn
<1>2. ASSUME NEW f, FrameIn(f, tree, g) PROVE FrameIn(f, tree2, g2)
  BY <1>1, <1>2, Zenon DEF FrameIn
<1> QED
  BY <1>2, Zenon DEF FramesIn

\* The active frame, and the stack with another one in its place.
LEMMA ActiveFrame ==
    ASSUME NEW tree, NEW g, FramesIn(frames, tree, g)
    PROVE  /\ Len(frames) \in Nat /\ Len(frames) >= 1 /\ Len(frames) \in DOMAIN frames
           /\ Active = frames[Len(frames)] /\ FrameIn(Active, tree, g)
           /\ \A f : Len(WithActive(f)) = Len(frames) /\ WithActive(f)[Len(frames)] = f
           /\ \A f : FrameIn(f, tree, g) => FramesIn(WithActive(f), tree, g)
<1>1. PICK S : frames \in Seq(S) /\ frames # << >> /\ \A f \in S : FrameIn(f, tree, g)
  BY DEF FramesIn
<1> DEFINE n == Len(frames)
<1>2. n \in Nat /\ n >= 1 /\ n \in DOMAIN frames /\ DOMAIN frames = 1 .. n /\ frames \in [1 .. n -> S]
  BY <1>1, LenProperties, EmptySeq
<1>3. Active = frames[n] /\ frames[n] \in S
  BY <1>1, <1>2, SMTT(30) DEF Active, Last
<1>4. ASSUME NEW f
      PROVE  /\ WithActive(f) \in Seq(S \cup {f}) /\ Len(WithActive(f)) = n
             /\ WithActive(f)[n] = f
  <2>1. WithActive(f) = [frames EXCEPT ![n] = f]
    BY DEF WithActive
  <2> HIDE DEF n
  <2>2. WithActive(f) \in [1 .. n -> S \cup {f}] /\ WithActive(f)[n] = f
    BY <1>2, <2>1, SMTT(30)
  <2>3. WithActive(f) \in Seq(S \cup {f})
    BY <1>2, <2>2, SMTT(30)
  <2>4. Len(WithActive(f)) = n
    BY <1>2, <2>2, <2>3, LenProperties, SMTT(30)
  <2> QED
    BY <2>2, <2>3, <2>4, SMTT(30)
<1>5. ASSUME NEW f, FrameIn(f, tree, g) PROVE FramesIn(WithActive(f), tree, g)
  <2>a. Len(<< >>) = 0
    OBVIOUS
  <2>b. n # 0
    BY <1>2
  <2>c. Len(WithActive(f)) = n
    BY <1>4, Zenon
  <2>1. WithActive(f) # << >>
    BY <2>a, <2>b, <2>c, Zenon
  <2>2. \A x \in S \cup {f} : FrameIn(x, tree, g)
    BY <1>1, <1>5
  <2> QED
    BY <1>4, <2>1, <2>2, Zenon DEF FramesIn
<1> QED
  BY <1>1, <1>2, <1>3, <1>4, <1>5, Zenon

--------------------------------------------------------------------------------
(* The stack of frames under every action *)

FramesOK == FramesIn(frames, home, generation)

LEMMA NewFrame ==
    ASSUME NEW tree, NEW g
    PROVE  FrameIn(NoTransfers, tree, g) /\ FramesIn(<<NoTransfers>>, tree, g)
<1>1. NoTransfers = [next |-> NoTransfers.next, open |-> NoTransfers.open]
      /\ NoTransfers.open = << >>
  BY DEF NoTransfers
<1>2. FrameIn(NoTransfers, tree, g)
  BY <1>1 DEF FrameIn
<1> DEFINE fs == <<NoTransfers>>
           one == {NoTransfers}
<1>3. fs \in Seq(one) /\ fs # << >>
  OBVIOUS
<1>4. \A f \in one : FrameIn(f, tree, g)
  BY <1>2
<1> HIDE DEF fs, one
<1> QED
  <2>1. FramesIn(fs, tree, g)
    BY <1>3, <1>4, Zenon DEF FramesIn
  <2> QED
    BY <1>2, <2>1 DEF fs

LEMMA PushedFrame ==
    ASSUME NEW tree, NEW g, FramesIn(frames, tree, g)
    PROVE  FramesIn(Append(frames, NoTransfers), tree, g)
<1>1. PICK S : frames \in Seq(S) /\ frames # << >> /\ \A f \in S : FrameIn(f, tree, g)
  BY DEF FramesIn
<1>2. frames \in Seq(S \cup {NoTransfers}) /\ NoTransfers \in S \cup {NoTransfers}
  BY <1>1
<1>3. Append(frames, NoTransfers) \in Seq(S \cup {NoTransfers}) /\ Append(frames, NoTransfers) # << >>
  BY <1>2, AppendProperties
<1>4. \A f \in S \cup {NoTransfers} : FrameIn(f, tree, g)
  BY <1>1, NewFrame
<1> QED
  BY <1>3, <1>4, Zenon DEF FramesIn

LEMMA PoppedFrame ==
    ASSUME NEW tree, NEW g, FramesIn(frames, tree, g), Len(frames) > 1
    PROVE  FramesIn(Front(frames), tree, g)
<1>1. PICK S : frames \in Seq(S) /\ frames # << >> /\ \A f \in S : FrameIn(f, tree, g)
  BY DEF FramesIn
<1>2. Len(frames) \in Nat
  BY <1>1, LenProperties
<1>3. Front(frames) = SubSeq(frames, 1, Len(frames) - 1)
  BY DEF Front
<1>4. Front(frames) \in Seq(S) /\ Len(Front(frames)) = Len(frames) - 1
  <2>1. 1 \in Int /\ Len(frames) - 1 \in Int
    BY <1>2
  <2>2. \A i \in 1 .. Len(frames) - 1 : frames[i] \in S
    BY <1>1, <1>2, ElementOfSeq, SMTT(30)
  <2>3. /\ SubSeq(frames, 1, Len(frames) - 1) \in Seq(S)
        /\ Len(SubSeq(frames, 1, Len(frames) - 1)) =
              IF 1 <= Len(frames) - 1 THEN (Len(frames) - 1) - 1 + 1 ELSE 0
    BY <1>1, <2>1, <2>2, SubSeqProperties, SMTT(30)
  <2> QED
    BY <1>2, <1>3, <2>3, SMTT(30)
<1>a. Len(<< >>) = 0
  OBVIOUS
<1>b. Len(frames) - 1 # 0
  BY <1>2
<1>5. Len(Front(frames)) # 0
  BY <1>4, <1>b, Zenon
<1>6. Front(frames) # << >>
  BY <1>a, <1>5, Zenon
<1> QED
  BY <1>1, <1>4, <1>6, Zenon DEF FramesIn

\* A frame with one transfer opened, changed or closed.
LEMMA FrameWith ==
    ASSUME NEW tree, NEW g, NEW f, FrameIn(f, tree, g), NEW t, TransferIn(t, tree, g), NEW id, NEW next
    PROVE  /\ FrameIn([next |-> next, open |-> Extended(f.open, id, t)], tree, g)
           /\ FrameIn([f EXCEPT !.open[id] = t], tree, g)
           /\ FrameIn(Closed(f, id), tree, g)
           /\ DOMAIN Closed(f, id).open = DOMAIN f.open \ {id}
           /\ DOMAIN [f EXCEPT !.open[id] = t].open = DOMAIN f.open
<1>1. \A i \in DOMAIN Extended(f.open, id, t) : TransferIn(Extended(f.open, id, t)[i], tree, g)
  BY DEF Extended, FrameIn
<1>2. \A i \in DOMAIN [f.open EXCEPT ![id] = t] : TransferIn([f.open EXCEPT ![id] = t][i], tree, g)
  BY DEF FrameIn
<1>3. f = [next |-> f.next, open |-> f.open]
  BY DEF FrameIn
<1> DEFINE other == [f.open EXCEPT ![id] = t]
           fewer == [i \in DOMAIN f.open \ {id} |-> f.open[i]]
           more == Extended(f.open, id, t)
<1>4. [f EXCEPT !.open[id] = t] = [next |-> f.next, open |-> other]
  BY <1>3
<1>5. Closed(f, id) = [next |-> f.next, open |-> fewer]
  BY <1>3 DEF Closed
<1>6. \A i \in DOMAIN fewer : TransferIn(fewer[i], tree, g)
  BY DEF FrameIn
<1>7. DOMAIN fewer = DOMAIN f.open \ {id} /\ DOMAIN other = DOMAIN f.open
  OBVIOUS
<1> HIDE DEF other, fewer, more
<1>8. ASSUME NEW next0, NEW open0, \A i \in DOMAIN open0 : TransferIn(open0[i], tree, g)
      PROVE  /\ FrameIn([next |-> next0, open |-> open0], tree, g)
             /\ [next |-> next0, open |-> open0].open = open0
  <2> DEFINE r == [next |-> next0, open |-> open0]
  <2>1. r.open = open0 /\ r = [next |-> r.next, open |-> r.open]
    OBVIOUS
  <2> HIDE DEF r
  <2>2. FrameIn(r, tree, g)
    BY <1>8, <2>1, Zenon DEF FrameIn
  <2> QED
    BY <2>1, <2>2, SMTT(30) DEF r
<1>9. FrameIn([next |-> next, open |-> more], tree, g)
  BY <1>1, <1>8 DEF more
<1>10. FrameIn([f EXCEPT !.open[id] = t], tree, g) /\ DOMAIN [f EXCEPT !.open[id] = t].open = DOMAIN f.open
  <2>1. \A i \in DOMAIN other : TransferIn(other[i], tree, g)
    BY <1>2 DEF other
  <2>2. /\ FrameIn([next |-> f.next, open |-> other], tree, g)
        /\ [next |-> f.next, open |-> other].open = other
    BY <1>8, <2>1
  <2> QED
    BY <1>4, <1>7, <2>2, Zenon
<1>11. FrameIn(Closed(f, id), tree, g) /\ DOMAIN Closed(f, id).open = DOMAIN f.open \ {id}
  <2>1. /\ FrameIn([next |-> f.next, open |-> fewer], tree, g)
        /\ [next |-> f.next, open |-> fewer].open = fewer
    BY <1>6, <1>8
  <2> QED
    BY <1>5, <1>7, <2>1, ZenonT(40)
<1> QED
  BY <1>9, <1>10, <1>11, ZenonT(40) DEF more

\* Inserting a transfer: nothing else changes.
LEMMA Inserted ==
    ASSUME FramesOK, NEW t, TransferIn(t, home, generation), Insert(t)
    PROVE  FramesIn(frames', home, generation) /\ UNCHANGED treeVars
           /\ UNCHANGED <<compilation, deployment, inspection>>
<1>1. FrameIn(Active, home, generation)
      /\ \A f : FrameIn(f, home, generation) => FramesIn(WithActive(f), home, generation)
  BY ActiveFrame DEF FramesOK
<1>2. frames' = WithActive([next |-> Active.next + 1, open |-> Extended(Active.open, Active.next, t)])
      /\ UNCHANGED <<treeVars, compilation, deployment, inspection>>
  BY Zenon DEF Insert
<1>3. FrameIn([next |-> Active.next + 1, open |-> Extended(Active.open, Active.next, t)], home, generation)
  BY <1>1, FrameWith, Zenon
<1> QED
  BY <1>1, <1>2, <1>3

LEMMA RestoredFrames ==
    ASSUME NEW tree, NEW g, FramesIn(frames, tree, g)
    PROVE  FramesIn([i \in DOMAIN frames |-> Restored(frames[i])], tree, g)
<1>1. PICK S : frames \in Seq(S) /\ frames # << >> /\ \A f \in S : FrameIn(f, tree, g)
  BY DEF FramesIn
<1> DEFINE fs == [i \in DOMAIN frames |-> Restored(frames[i])]
           T == {Restored(f) : f \in S}
<1>2. /\ Len(frames) \in Nat /\ DOMAIN frames = 1 .. Len(frames) /\ Len(frames) # 0
      /\ \A i \in 1 .. Len(frames) : frames[i] \in S
  BY <1>1, LenProperties, EmptySeq, ElementOfSeq
<1>3. fs \in [1 .. Len(frames) -> T]
  BY <1>2
<1>4. fs \in Seq(T) /\ Len(fs) = Len(frames)
  <2> HIDE DEF fs, T
  <2>1. fs \in Seq(T)
    BY <1>2, <1>3
  <2> QED
    BY <1>2, <1>3, <2>1, LenProperties, SMTT(30)
<1>5. Len(<< >>) = 0
  OBVIOUS
<1>6. ASSUME NEW f \in S PROVE FrameIn(Restored(f), tree, g)
  <2>1. FrameIn(f, tree, g) /\ f = [next |-> f.next, open |-> f.open]
    BY <1>1 DEF FrameIn
  <2> DEFINE full(t) == IF t.kind = "write" THEN [t EXCEPT !.capacity = Len(t.bytes)] ELSE t
             all == [id \in DOMAIN f.open |-> full(f.open[id])]
  <2>2. Restored(f) = [next |-> f.next, open |-> all]
    BY <2>1 DEF Restored
  <2>3. ASSUME NEW t, TransferIn(t, tree, g) PROVE TransferIn(full(t), tree, g)
    <3>1. CASE t.kind # "write"
      BY <2>3, <3>1
    <3>2. CASE t.kind = "write"
      <4>1. WriteIn(t, tree, g)
        BY <2>3, <3>2, KindOfTransfer, SMTT(30)
      <4> DEFINE u == [t EXCEPT !.capacity = Len(t.bytes)]
      <4>2. /\ u = [kind |-> "write", path |-> u.path, bytes |-> u.bytes, capacity |-> u.capacity,
                    poisoned |-> u.poisoned, revision |-> u.revision, seen |-> u.seen]
            /\ u.path = t.path /\ u.bytes = t.bytes /\ u.revision = t.revision /\ u.seen = t.seen
        BY <4>1 DEF WriteIn
      <4> HIDE DEF u
      <4>3. WriteIn(u, tree, g)
        BY <4>1, <4>2, Zenon DEF WriteIn
      <4> QED
        BY <3>2, <4>3, Zenon DEF TransferIn, u
    <3> QED
      BY <3>1, <3>2
  <2>4. \A id \in DOMAIN all : TransferIn(all[id], tree, g)
    <3>1. \A id \in DOMAIN f.open : TransferIn(full(f.open[id]), tree, g)
      BY <2>1, <2>3, Zenon DEF FrameIn
    <3> HIDE DEF full
    <3> QED
      BY <3>1
  <2> HIDE DEF all
  <2>5. Restored(f).open = all /\ Restored(f) = [next |-> Restored(f).next, open |-> Restored(f).open]
    BY <2>2
  <2> QED
    BY <2>4, <2>5, Zenon DEF FrameIn
<1>7. \A f \in T : FrameIn(f, tree, g)
  BY <1>6
<1> HIDE DEF fs, T
<1>8. fs # << >>
  BY <1>2, <1>4, <1>5, Zenon
<1>9. FramesIn(fs, tree, g)
  BY <1>4, <1>7, <1>8, Zenon DEF FramesIn
<1> QED
  BY <1>9 DEF fs

--------------------------------------------------------------------------------
(* Late actions *)

LateIn(cs, ds, tree, g) ==
    /\ \A c \in cs : c.output \in Path /\ Saw(tree, g, c.outputRevision, c.seen)
    /\ \A d \in ds : d.path \in Path /\ Saw(tree, g, d.revision, d.seen)
    /\ \A c, c2 \in cs : c = c2
    /\ \A d, d2 \in ds : d = d2

\* The file an inspection is about, as long as its generation is there.
InspectedIn(i, tree, g) ==
    /\ i = [path |-> i.path, gen |-> i.gen, got |-> i.got, bytes |-> i.bytes]
    /\ i.path \in Path /\ Len(i.path) >= 2
    /\ i.bytes \in Seq(Nat) /\ i.got \in Seq(Nat) /\ IsPrefix(i.got, i.bytes)
    /\ i.path[1] = "rom" => i.bytes = BytesOf(Rom[i.path])
    /\ i.path[1] # "rom" =>
          /\ i.gen \in Nat /\ i.gen <= g
          /\ \A q \in DOMAIN tree : tree[q].gen = i.gen => BytesOf(tree[q]) = i.bytes

LateInv ==
    /\ TreeInv /\ FramesOK
    /\ LateIn(compilation, deployment, home, generation)
    /\ \A i \in inspection : InspectedIn(i, home, generation)

\* What every step does: a step of the tree, and what is remembered after it is sound for
\* the tree before it.
LateStep ==
    /\ TreeStep
    /\ FramesIn(frames', home, generation)
    /\ LateIn(compilation', deployment', home, generation)
    /\ \A i \in inspection' : InspectedIn(i, home, generation)
    /\ EndsOnWhatItSaw

LEMMA QuietTree ==
    ASSUME home' = home
    PROVE  EndsOnWhatItSaw
BY Zenon DEF EndsOnWhatItSaw

LEMMA QuietStep ==
    ASSUME LateInv, UNCHANGED treeVars, FramesIn(frames', home, generation),
           LateIn(compilation', deployment', home, generation),
           \A i \in inspection' : InspectedIn(i, home, generation)
    PROVE  LateStep
<1>1. home' = home
  BY DEF treeVars
<1> QED
  BY <1>1, QuietTree, SameTree, Zenon DEF LateStep

LEMMA OnlyTree ==
    ASSUME LateInv, UNCHANGED transferVars, TreeStep
    PROVE  LateStep
<1>1. /\ frames' = frames /\ compilation' = compilation /\ deployment' = deployment
      /\ inspection' = inspection
  BY DEF transferVars
<1>2. Active = frames[Len(frames)]
  BY ActiveFrame DEF LateInv, FramesOK
<1>3. EndsOnWhatItSaw
  BY <1>1, <1>2, Zenon DEF EndsOnWhatItSaw
<1> QED
  BY <1>1, <1>3, Zenon DEF LateStep, LateInv, FramesOK

LEMMA OpenedTransfer ==
    ASSUME LateInv, NEW t, TransferIn(t, home, generation), Insert(t)
    PROVE  LateStep
<1>1. /\ FramesIn(frames', home, generation) /\ UNCHANGED treeVars
      /\ UNCHANGED <<compilation, deployment, inspection>>
  BY Inserted DEF LateInv
<1>2. compilation' = compilation /\ deployment' = deployment /\ inspection' = inspection
  BY <1>1
<1> QED
  BY <1>1, <1>2, QuietStep, Zenon DEF LateInv

\* One transfer of the active frame changes, or is closed.
LEMMA ChangedTransfer ==
    ASSUME LateInv, UNCHANGED <<treeVars, compilation, deployment, inspection>>,
           NEW f, FrameIn(f, home, generation), frames' = WithActive(f)
    PROVE  LateStep
<1>1. FramesIn(frames', home, generation)
  BY ActiveFrame DEF LateInv, FramesOK
<1>2. /\ UNCHANGED treeVars /\ compilation' = compilation /\ deployment' = deployment
      /\ inspection' = inspection
  OBVIOUS
<1> QED
  BY <1>1, <1>2, QuietStep, Zenon DEF LateInv

LEMMA OpeningSteps ==
    ASSUME LateInv, NEW p \in Paths,
           OpenRead(p) \/ OpenWrite(p) \/ OpenDirectory(p) \/ OpenMove(p)
    PROVE  LateStep
<1>1. ASSUME NEW bytes PROVE TransferIn(ReadTransfer(p, bytes), home, generation)
  <2> DEFINE t == ReadTransfer(p, bytes)
  <2>1. t = [kind |-> "read", path |-> t.path, bytes |-> t.bytes, at |-> t.at]
    BY DEF ReadTransfer
  <2> HIDE DEF t
  <2> QED
    BY <2>1, Zenon DEF TransferIn, t
<1>2. ASSUME NEW names PROVE TransferIn(DirectoryTransfer(p, names), home, generation)
  <2> DEFINE t == DirectoryTransfer(p, names)
  <2>1. t = [kind |-> "directory", path |-> t.path, names |-> t.names, at |-> t.at]
    BY DEF DirectoryTransfer
  <2> HIDE DEF t
  <2> QED
    BY <2>1, Zenon DEF TransferIn, t
<1>3. ASSUME NEW g PROVE TransferIn(MoveTransfer(p, g), home, generation)
  <2> DEFINE t == MoveTransfer(p, g)
  <2>1. t = [kind |-> "move", path |-> t.path, gen |-> t.gen, seen |-> t.seen]
    BY DEF MoveTransfer
  <2> HIDE DEF t
  <2> QED
    BY <2>1, Zenon DEF TransferIn, t
<1>4. TransferIn(WriteTransfer(p), home, generation)
  <2> DEFINE t == WriteTransfer(p)
  <2>1. /\ t = [kind |-> "write", path |-> t.path, bytes |-> t.bytes, capacity |-> t.capacity,
                poisoned |-> t.poisoned, revision |-> t.revision, seen |-> t.seen]
        /\ t.path = p /\ t.bytes = << >> /\ t.revision = Revision(p) /\ t.seen = Shown(p)
    BY DEF WriteTransfer
  <2>2. Saw(home, generation, Revision(p), Shown(p)) /\ p \in Path
    BY SawNow, PathsArePaths, SMTT(30) DEF LateInv
  <2>3. << >> \in Seq(Nat)
    OBVIOUS
  <2> HIDE DEF t
  <2>4. WriteIn(t, home, generation)
    BY <2>1, <2>2, <2>3, ZenonT(40) DEF WriteIn
  <2> QED
    BY <2>4, Zenon DEF TransferIn, t
<1>5. CASE OpenRead(p)
  BY <1>1, <1>5, OpenedTransfer, Zenon DEF OpenRead
<1>6. CASE OpenWrite(p)
  BY <1>4, <1>6, OpenedTransfer, Zenon DEF OpenWrite
<1>7. CASE OpenDirectory(p)
  BY <1>2, <1>7, OpenedTransfer, Zenon DEF OpenDirectory
<1>8. CASE OpenMove(p)
  BY <1>3, <1>8, OpenedTransfer, Zenon DEF OpenMove
<1> QED
  BY <1>5, <1>6, <1>7, <1>8, SMTT(30)

\* A read or a listing moves on.
LEMMA MovedOn ==
    ASSUME LateInv, NEW id \in DOMAIN Active.open, Active.open[id].kind \in {"read", "directory"},
           NEW at
    PROVE  FrameIn([Active EXCEPT !.open[id].at = at], home, generation)
<1> DEFINE t == Active.open[id]
           u == [t EXCEPT !.at = at]
<1>1. FrameIn(Active, home, generation) /\ Active = [next |-> Active.next, open |-> Active.open]
      /\ TransferIn(t, home, generation)
  BY ActiveFrame DEF LateInv, FramesOK, FrameIn
<1>2. TransferIn(u, home, generation)
  <2>1. CASE t.kind = "read"
    <3>1. t = [kind |-> "read", path |-> t.path, bytes |-> t.bytes, at |-> t.at]
      BY <1>1, <2>1, KindOfTransfer, SMTT(30)
    <3> HIDE DEF t
    <3>2. u = [kind |-> "read", path |-> u.path, bytes |-> u.bytes, at |-> u.at]
      BY <3>1
    <3> HIDE DEF u
    <3> QED
      BY <3>2, Zenon DEF TransferIn
  <2>2. CASE t.kind = "directory"
    <3>1. t = [kind |-> "directory", path |-> t.path, names |-> t.names, at |-> t.at]
      BY <1>1, <2>2, KindOfTransfer, SMTT(30)
    <3> HIDE DEF t
    <3>2. u = [kind |-> "directory", path |-> u.path, names |-> u.names, at |-> u.at]
      BY <3>1
    <3> HIDE DEF u
    <3> QED
      BY <3>2, Zenon DEF TransferIn
  <2> QED
    BY <2>1, <2>2
<1>3. [Active EXCEPT !.open[id].at = at] = [Active EXCEPT !.open[id] = u]
  OBVIOUS
<1>4. FrameIn([Active EXCEPT !.open[id] = u], home, generation)
  <2> HIDE DEF u
  <2> QED
    BY <1>1, <1>2, FrameWith, ZenonT(30)
<1> QED
  BY <1>3, <1>4, Zenon

\* The drafts that append_transfer makes of a draft.
LEMMA DraftRecord ==
    ASSUME NEW t,
           t = [kind |-> "write", path |-> t.path, bytes |-> t.bytes, capacity |-> t.capacity,
                poisoned |-> t.poisoned, revision |-> t.revision, seen |-> t.seen]
    PROVE  /\ \A b2, c2 : [t EXCEPT !.bytes = b2, !.capacity = c2] =
                 [kind |-> "write", path |-> t.path, bytes |-> b2, capacity |-> c2,
                  poisoned |-> t.poisoned, revision |-> t.revision, seen |-> t.seen]
           /\ \A x2 : [t EXCEPT !.poisoned = x2] =
                 [kind |-> "write", path |-> t.path, bytes |-> t.bytes, capacity |-> t.capacity,
                  poisoned |-> x2, revision |-> t.revision, seen |-> t.seen]
<1>3. ASSUME NEW b2, NEW c2
      PROVE  [t EXCEPT !.bytes = b2, !.capacity = c2] =
                 [kind |-> "write", path |-> t.path, bytes |-> b2, capacity |-> c2,
                  poisoned |-> t.poisoned, revision |-> t.revision, seen |-> t.seen]
  <2>1. [t EXCEPT !.bytes = b2, !.capacity = c2] = [[t EXCEPT !.bytes = b2] EXCEPT !.capacity = c2]
    BY Zenon
  <2>2. [t EXCEPT !.bytes = b2] =
                 [kind |-> "write", path |-> t.path, bytes |-> b2, capacity |-> t.capacity,
                  poisoned |-> t.poisoned, revision |-> t.revision, seen |-> t.seen]
    BY SMTT(30)
  <2>3. [[kind |-> "write", path |-> t.path, bytes |-> b2, capacity |-> t.capacity,
          poisoned |-> t.poisoned, revision |-> t.revision, seen |-> t.seen] EXCEPT !.capacity = c2]
        = [kind |-> "write", path |-> t.path, bytes |-> b2, capacity |-> c2,
           poisoned |-> t.poisoned, revision |-> t.revision, seen |-> t.seen]
    BY SMTT(30)
  <2> QED
    BY <2>1, <2>2, <2>3, Zenon
<1>4. ASSUME NEW x2
      PROVE  [t EXCEPT !.poisoned = x2] =
                 [kind |-> "write", path |-> t.path, bytes |-> t.bytes, capacity |-> t.capacity,
                  poisoned |-> x2, revision |-> t.revision, seen |-> t.seen]
  BY SMTT(30)
<1> QED
  BY <1>3, <1>4, Zenon

\* A record of these fields is a draft.
LEMMA DraftIn ==
    ASSUME NEW tree, NEW g, NEW p \in Path, NEW b \in Seq(Nat), NEW c, NEW x, NEW r, NEW s,
           Saw(tree, g, r, s)
    PROVE  WriteIn([kind |-> "write", path |-> p, bytes |-> b, capacity |-> c, poisoned |-> x,
                    revision |-> r, seen |-> s], tree, g)
<1> DEFINE t == [kind |-> "write", path |-> p, bytes |-> b, capacity |-> c, poisoned |-> x,
                 revision |-> r, seen |-> s]
<1>1. t.path = p /\ t.bytes = b /\ t.capacity = c /\ t.poisoned = x /\ t.revision = r /\ t.seen = s
  OBVIOUS
<1>2. t = [kind |-> "write", path |-> t.path, bytes |-> t.bytes, capacity |-> t.capacity,
           poisoned |-> t.poisoned, revision |-> t.revision, seen |-> t.seen]
  BY <1>1, Zenon
<1> HIDE DEF t
<1>3. WriteIn(t, tree, g)
  BY <1>1, <1>2, Zenon DEF WriteIn
<1> QED
  BY <1>3 DEF t

\* A chunk is appended to a draft, or poisons it.
LEMMA AppendedTransfer ==
    ASSUME LateInv, NEW id \in Open_("write"), NEW input \in Seq(Nat), AppendChunk(id, input)
    PROVE  LateStep
<1> DEFINE t == Active.open[id]
           longer == [t EXCEPT !.bytes = t.bytes \o input, !.capacity = Target(t, input)]
           spoilt == [t EXCEPT !.poisoned = TRUE]
           u == IF AppendFits(t, input) THEN longer ELSE spoilt
<1>1. FrameIn(Active, home, generation) /\ id \in DOMAIN Active.open /\ t.kind = "write"
      /\ TransferIn(t, home, generation)
  BY ActiveFrame DEF LateInv, FramesOK, FrameIn, Open_
<1>2. WriteIn(t, home, generation)
  BY <1>1, KindOfTransfer
<1>3. frames' = WithActive([Active EXCEPT !.open[id] = u])
      /\ UNCHANGED <<treeVars, compilation, deployment, inspection>>
  BY Zenon DEF AppendChunk, Transfer
<1>4. WriteIn(longer, home, generation)
  <2> DEFINE target == Target(t, input)
  <2>1. t = [kind |-> "write", path |-> t.path, bytes |-> t.bytes, capacity |-> t.capacity,
             poisoned |-> t.poisoned, revision |-> t.revision, seen |-> t.seen]
        /\ t.bytes \in Seq(Nat)
    BY <1>2, Zenon DEF WriteIn
  <2> HIDE DEF t, target
  <2>2. t.bytes \o input \in Seq(Nat)
    BY <2>1
  <2>a. \A b2, c2 : [t EXCEPT !.bytes = b2, !.capacity = c2] =
                 [kind |-> "write", path |-> t.path, bytes |-> b2, capacity |-> c2,
                  poisoned |-> t.poisoned, revision |-> t.revision, seen |-> t.seen]
    BY <2>1, DraftRecord, Zenon
  <2>3. longer = [kind |-> "write", path |-> t.path, bytes |-> t.bytes \o input,
                  capacity |-> Target(t, input), poisoned |-> t.poisoned,
                  revision |-> t.revision, seen |-> t.seen]
    BY <2>a, Zenon
  <2> HIDE DEF longer
  <2>4. t.path \in Path /\ Saw(home, generation, t.revision, t.seen)
    BY <1>2 DEF WriteIn
  <2> QED
    BY <2>2, <2>3, <2>4, DraftIn, Zenon
<1>5. WriteIn(spoilt, home, generation)
  <2>1. t = [kind |-> "write", path |-> t.path, bytes |-> t.bytes, capacity |-> t.capacity,
             poisoned |-> t.poisoned, revision |-> t.revision, seen |-> t.seen]
    BY <1>2, Zenon DEF WriteIn
  <2> HIDE DEF t
  <2>2. spoilt = [kind |-> "write", path |-> t.path, bytes |-> t.bytes, capacity |-> t.capacity,
                  poisoned |-> TRUE, revision |-> t.revision, seen |-> t.seen]
    BY <2>1, DraftRecord, Zenon
  <2> HIDE DEF spoilt
  <2>3. t.path \in Path /\ t.bytes \in Seq(Nat) /\ Saw(home, generation, t.revision, t.seen)
    BY <1>2 DEF WriteIn
  <2> QED
    BY <2>2, <2>3, DraftIn, Zenon
<1> HIDE DEF longer, spoilt
<1>6. TransferIn(u, home, generation)
  BY <1>4, <1>5, Zenon DEF TransferIn
<1> HIDE DEF u
<1>7. FrameIn([Active EXCEPT !.open[id] = u], home, generation)
  BY <1>1, <1>6, FrameWith, Zenon
<1> QED
  BY <1>3, <1>7, ChangedTransfer, SMTT(30)

\* What is open once a transfer is closed.
LEMMA ClosedOpen ==
    ASSUME NEW tree, NEW g, NEW f, FrameIn(f, tree, g), NEW id
    PROVE  DOMAIN Closed(f, id).open = DOMAIN f.open \ {id}
<1> DEFINE fewer == [i \in DOMAIN f.open \ {id} |-> f.open[i]]
<1>1. f = [next |-> f.next, open |-> f.open]
  BY DEF FrameIn
<1>2. Closed(f, id) = [f EXCEPT !.open = fewer]
  BY Zenon DEF Closed
<1>3. DOMAIN fewer = DOMAIN f.open \ {id}
  OBVIOUS
<1> HIDE DEF fewer
<1>4. [f EXCEPT !.open = fewer].open = fewer
  BY <1>1
<1> QED
  BY <1>2, <1>3, <1>4, Zenon

\* A draft is committed: only over what its owner saw.
LEMMA CommittedTransfer ==
    ASSUME LateInv, NEW id \in Open_("write"), CommitTransfer(id)
    PROVE  LateStep
<1> DEFINE t == Active.open[id]
<1>1. FrameIn(Active, home, generation) /\ id \in DOMAIN Active.open /\ t.kind = "write"
      /\ TransferIn(t, home, generation)
  BY ActiveFrame DEF LateInv, FramesOK, FrameIn, Open_
<1>2. WriteIn(t, home, generation)
  BY <1>1, KindOfTransfer
<1>3. /\ ReplaceIfRevision(InitialCapability, t.path, t.bytes, t.revision, FALSE)
      /\ frames' = WithActive(Closed(Active, id))
      /\ compilation' = compilation /\ deployment' = deployment /\ inspection' = inspection
  BY Zenon DEF CommitTransfer, Transfer
<1>4. /\ t.path \in Path /\ t.bytes \in Seq(Nat) /\ FALSE \in BOOLEAN
      /\ Saw(home, generation, t.revision, t.seen)
  BY <1>2 DEF WriteIn
<1>5. /\ CanReplace(InitialCapability, t.path) /\ StoreFile(t.path, t.bytes, FALSE)
      /\ Revision(t.path) = t.revision
  BY <1>3, Zenon DEF ReplaceIfRevision
<1> HIDE DEF t
<1>6. TreeStep
  <2>1. TreeOK(home)
    BY Zenon DEF LateInv, TreeInv
  <2>2. t.path \in Path /\ t.bytes \in Seq(Nat) /\ FALSE \in BOOLEAN
    BY <1>4
  <2> HIDE DEF t
  <2> QED
    BY <2>1, <2>2, <1>5, ReplaceSteps, Zenon
<1>7. Shown(t.path) = t.seen
  BY <1>4, <1>5, SawStill, SMTT(30)
<1>a. FrameIn(Active, home, generation) /\ TransferIn(t, home, generation)
  BY <1>1, Zenon
<1>8. /\ FrameIn(Closed(Active, id), home, generation)
      /\ DOMAIN Closed(Active, id).open = DOMAIN Active.open \ {id}
  <2>1. FrameIn(Closed(Active, id), home, generation)
    BY <1>a, FrameWith, Zenon
  <2>2. DOMAIN Closed(Active, id).open = DOMAIN Active.open \ {id}
    BY <1>a, ClosedOpen
  <2> QED
    BY <2>1, <2>2, SMTT(30)
<1>9. FramesIn(frames', home, generation) /\ frames'[Len(frames)] = Closed(Active, id)
  BY <1>3, <1>8, ActiveFrame DEF LateInv, FramesOK
<1>10. EndsOnWhatItSaw
  <2>1. ASSUME NEW x \in DOMAIN Active.open, x \notin DOMAIN frames'[Len(frames)].open
        PROVE  Shown(Active.open[x].path) = Active.open[x].seen
    <3>1. x = id
      BY <1>8, <1>9, <2>1, SMTT(30)
    <3> QED
      BY <1>7, <3>1, SMTT(30) DEF t
  <2> QED
    BY <1>3, <2>1, Zenon DEF EndsOnWhatItSaw
<1> QED
  BY <1>3, <1>6, <1>9, <1>10, Zenon DEF LateStep, LateInv

LEMMA TransferSteps ==
    ASSUME LateInv, TransferCall
    PROVE  LateStep
<1>1. ASSUME NEW p \in Paths, OpenRead(p) \/ OpenWrite(p) \/ OpenDirectory(p) \/ OpenMove(p)
      PROVE  LateStep
  BY <1>1, OpeningSteps
<1>2. ASSUME NEW id \in Open_("read"), NEW n, ReadChunk(id, n) PROVE LateStep
  <2>1. id \in DOMAIN Active.open /\ Active.open[id].kind \in {"read", "directory"}
    BY DEF Open_
  <2> DEFINE at == Min({Active.open[id].at + n, Len(Transfer(id).bytes)})
  <2>2. frames' = WithActive([Active EXCEPT !.open[id].at = at])
        /\ UNCHANGED <<treeVars, compilation, deployment, inspection>>
    BY <1>2, Zenon DEF ReadChunk
  <2> HIDE DEF at
  <2>3. FrameIn([Active EXCEPT !.open[id].at = at], home, generation)
    BY <2>1, MovedOn
  <2> QED
    BY <2>2, <2>3, ChangedTransfer, SMTT(30)
<1>3. ASSUME NEW id \in Open_("directory"), NextEntry(id) PROVE LateStep
  <2>1. id \in DOMAIN Active.open /\ Active.open[id].kind \in {"read", "directory"}
    BY DEF Open_
  <2> DEFINE at == Active.open[id].at + 1
  <2>2. frames' = WithActive([Active EXCEPT !.open[id].at = at])
        /\ UNCHANGED <<treeVars, compilation, deployment, inspection>>
    BY <1>3, Zenon DEF NextEntry
  <2> HIDE DEF at
  <2>3. FrameIn([Active EXCEPT !.open[id].at = at], home, generation)
    BY <2>1, MovedOn
  <2> QED
    BY <2>2, <2>3, ChangedTransfer, SMTT(30)
<1>4. ASSUME NEW id \in Open_("write"), CommitTransfer(id) PROVE LateStep
  BY <1>4, CommittedTransfer
<1>5. ASSUME NEW id \in Open_("write"), NEW bytes \in Contents, AppendChunk(id, bytes) PROVE LateStep
  BY <1>5, AppendedTransfer, ContentsAreBytes, SMTT(30)
<1>6. ASSUME NEW id, NEW to \in Paths, NEW replace, MoveOpened(id, to, replace) PROVE LateStep
  <2>1. Rename(InitialCapability, Transfer(id).path, to, replace) /\ UNCHANGED transferVars
    BY <1>6 DEF MoveOpened
  <2> QED
    BY <2>1, PathsArePaths, RenameSteps, OnlyTree, SMTT(30)
<1>7. ASSUME NEW id \in DOMAIN Active.open, CloseTransfer(id) PROVE LateStep
  <2>1. frames' = WithActive(Closed(Active, id))
        /\ UNCHANGED <<treeVars, compilation, deployment, inspection>>
    BY <1>7, SMTT(30) DEF CloseTransfer
  <2>2. FrameIn(Active, home, generation) /\ TransferIn(Active.open[id], home, generation)
    BY ActiveFrame DEF LateInv, FramesOK, FrameIn
  <2>3. FrameIn(Closed(Active, id), home, generation)
    BY <2>2, FrameWith, Zenon
  <2> QED
    BY <2>1, <2>3, ChangedTransfer, SMTT(30)
<1> QED
  BY <1>1, <1>2, <1>3, <1>4, <1>5, <1>6, <1>7, Zenon DEF TransferCall

--------------------------------------------------------------------------------
(* The process stack, the compiler, the host *)

\* The frames change, nothing else.
LEMMA StackSteps ==
    ASSUME LateInv, EnterProcess \/ FinishChild
    PROVE  LateStep
<1>1. FramesIn(frames, home, generation)
  BY Zenon DEF LateInv, FramesOK
<1>2. FramesIn(frames', home, generation)
  <2>1. CASE EnterProcess
    BY <1>1, <2>1, PushedFrame, SMTT(30) DEF EnterProcess
  <2>2. CASE FinishChild
    BY <1>1, <2>2, PoppedFrame DEF FinishChild
  <2> QED
    BY <2>1, <2>2
<1>3. /\ UNCHANGED treeVars /\ compilation' = compilation /\ deployment' = deployment
      /\ inspection' = inspection
  BY Zenon DEF EnterProcess, FinishChild
<1> QED
  BY <1>2, <1>3, QuietStep, Zenon DEF LateInv

LEMMA CompilerRequested ==
    ASSUME LateInv, NEW source \in SourceFiles, NEW output \in Paths,
           RequestCompilation(source, output)
    PROVE  LateStep
<1> DEFINE c == [owner |-> Len(frames), source |-> source, output |-> output,
                 bytes |-> BytesOf(TreeOf(source)[source]),
                 sourceGen |-> StatGeneration(source),
                 outputRevision |-> Revision(output), seen |-> Shown(output)]
<1>1. /\ compilation' = {c} /\ UNCHANGED treeVars /\ frames' = frames
      /\ deployment' = deployment /\ inspection' = inspection
  BY Zenon DEF RequestCompilation
<1>2. c.output = output /\ c.outputRevision = Revision(output) /\ c.seen = Shown(output)
  OBVIOUS
<1> HIDE DEF c
<1>3. Saw(home, generation, c.outputRevision, c.seen)
  BY <1>2, SawNow, Zenon DEF LateInv
<1>4. c.output \in Path
  BY <1>2, PathsArePaths
<1>5. \A x \in {c} : x = c
  OBVIOUS
<1>6. LateIn({c}, deployment, home, generation)
  BY <1>3, <1>4, <1>5, Zenon DEF LateIn, LateInv
<1> QED
  BY <1>1, <1>6, QuietStep, Zenon DEF LateInv, FramesOK

LEMMA RevisionAsked ==
    ASSUME LateInv, NEW p \in Paths, AskRevision(p)
    PROVE  LateStep
<1> DEFINE d == [path |-> p, revision |-> Revision(p), seen |-> Shown(p)]
<1>1. /\ deployment' = {d} /\ UNCHANGED treeVars /\ frames' = frames
      /\ compilation' = compilation /\ inspection' = inspection
  BY Zenon DEF AskRevision
<1>2. d.path = p /\ d.revision = Revision(p) /\ d.seen = Shown(p)
  OBVIOUS
<1> HIDE DEF d
<1>3. Saw(home, generation, d.revision, d.seen)
  BY <1>2, SawNow, Zenon DEF LateInv
<1>4. d.path \in Path
  BY <1>2, PathsArePaths, SMTT(30)
<1>5. \A x \in {d} : x = d
  OBVIOUS
<1>6. LateIn(compilation, {d}, home, generation)
  BY <1>3, <1>4, <1>5, Zenon DEF LateIn, LateInv
<1> QED
  BY <1>1, <1>6, QuietStep, Zenon DEF LateInv, FramesOK

\* An executable is installed over the revision that was seen: by the compiler, by the host.
LEMMA InstalledOver ==
    ASSUME LateInv, NEW p \in Path, NEW bytes \in Seq(Nat), NEW revision, NEW seen,
           Saw(home, generation, revision, seen),
           ReplaceIfRevision(InitialCapability, p, bytes, revision, TRUE)
    PROVE  TreeStep /\ Shown(p) = seen
<1>1. /\ CanReplace(InitialCapability, p) /\ StoreFile(p, bytes, TRUE)
      /\ Revision(p) = revision
  BY Zenon DEF ReplaceIfRevision
<1>2. TreeOK(home) /\ TRUE \in BOOLEAN
  BY Zenon DEF LateInv, TreeInv
<1>3. TreeStep
  BY <1>1, <1>2, ReplaceSteps, Zenon
<1> QED
  BY <1>1, <1>3, SawStill, Zenon

LEMMA CompilerInstalled ==
    ASSUME LateInv, NEW bytes \in Seq(Nat), CompilationInstalled(bytes)
    PROVE  LateStep
<1>1. PICK c \in compilation :
        /\ ReplaceIfRevision(InitialCapability, c.output, bytes, c.outputRevision, TRUE)
        /\ compilation' = {} /\ UNCHANGED <<slots, stale, frames, deployment, inspection>>
  BY Zenon DEF CompilationInstalled
<1>2. /\ c.output \in Path /\ Saw(home, generation, c.outputRevision, c.seen)
      /\ \A x \in compilation : x = c
  BY Zenon DEF LateInv, LateIn
<1>3. TreeStep /\ Shown(c.output) = c.seen
  BY <1>1, <1>2, InstalledOver, Zenon
<1>4. frames' = frames /\ deployment' = deployment /\ inspection' = inspection
  BY <1>1
<1>5. LateIn({}, deployment, home, generation)
  BY Zenon DEF LateInv, LateIn
<1>6. Active = frames[Len(frames)]
  BY ActiveFrame DEF LateInv, FramesOK
<1>7. EndsOnWhatItSaw
  <2>1. \A d \in deployment : deployment # {}
    OBVIOUS
  <2> QED
    BY <1>2, <1>3, <1>4, <1>6, <2>1, Zenon DEF EndsOnWhatItSaw
<1> QED
  BY <1>1, <1>3, <1>4, <1>5, <1>7, Zenon DEF LateStep, LateInv, FramesOK

LEMMA Deployed ==
    ASSUME LateInv, NEW bytes \in Seq(Nat), Deploy(bytes)
    PROVE  LateStep
<1>1. PICK d \in deployment :
        /\ ReplaceIfRevision(InitialCapability, d.path, bytes, d.revision, TRUE)
        /\ deployment' = {} /\ UNCHANGED <<slots, stale, frames, compilation, inspection>>
  BY Zenon DEF Deploy
<1>2. /\ d.path \in Path /\ Saw(home, generation, d.revision, d.seen)
      /\ \A x \in deployment : x = d
  BY Zenon DEF LateInv, LateIn
<1>3. TreeStep /\ Shown(d.path) = d.seen
  BY <1>1, <1>2, InstalledOver, Zenon
<1>4. frames' = frames /\ compilation' = compilation /\ inspection' = inspection
  BY <1>1
<1>5. LateIn(compilation, {}, home, generation)
  BY Zenon DEF LateInv, LateIn
<1>6. Active = frames[Len(frames)]
  BY ActiveFrame DEF LateInv, FramesOK
<1>7. EndsOnWhatItSaw
  <2>1. \A c \in compilation : compilation # {}
    OBVIOUS
  <2> QED
    BY <1>2, <1>3, <1>4, <1>6, <2>1, ZenonT(40) DEF EndsOnWhatItSaw
<1> QED
  BY <1>1, <1>3, <1>4, <1>5, <1>7, Zenon DEF LateStep, LateInv, FramesOK

LEMMA CompilerEnded ==
    ASSUME LateInv, CompilationEnded
    PROVE  LateStep
<1>1. /\ compilation' = {} /\ UNCHANGED treeVars /\ frames' = frames
      /\ deployment' = deployment /\ inspection' = inspection
  BY Zenon DEF CompilationEnded
<1>2. LateIn({}, deployment, home, generation)
  BY Zenon DEF LateInv, LateIn
<1> QED
  BY <1>1, <1>2, QuietStep, Zenon DEF LateInv, FramesOK

--------------------------------------------------------------------------------
(* Inspections *)

\* More of a prefix is a prefix.
LEMMA PrefixGrows ==
    ASSUME NEW b \in Seq(Nat), NEW got \in Seq(Nat), IsPrefix(got, b),
           NEW n \in Nat, Len(got) <= n, n <= Len(b)
    PROVE  /\ got \o SubSeq(b, Len(got) + 1, n) \in Seq(Nat)
           /\ IsPrefix(got \o SubSeq(b, Len(got) + 1, n), b)
<1> DEFINE k == Len(got)
           more == SubSeq(b, k + 1, n)
           all == got \o more
<1>1. k \in Nat /\ Len(b) \in Nat /\ k <= Len(b) /\ \A i \in 1 .. Len(b) : b[i] \in Nat
  BY LenProperties, ElementOfSeq
<1>2. got = SubSeq(got, 1, k) /\ got = SubSeq(b, 1, k)
  BY SubSeqFull DEF IsPrefix
<1> HIDE DEF k
<1>3. /\ more \in Seq(Nat) /\ Len(more) = n - k
      /\ \A i \in 1 .. n - k : more[i] = b[k + i]
  <2>1. \A i \in k + 1 .. n : b[i] \in Nat
    BY <1>1
  <2>2. /\ more \in Seq(Nat)
        /\ Len(more) = IF k + 1 <= n THEN n - (k + 1) + 1 ELSE 0
        /\ \A i \in 1 .. n - (k + 1) + 1 : more[i] = b[(k + 1) + i - 1]
    BY <1>1, <2>1, SubSeqProperties
  <2> QED
    BY <1>1, <2>2 DEF k
<1>4. \A i \in 1 .. k : got[i] = b[i]
  <2>1. \A i \in 1 .. k : b[i] \in Nat
    BY <1>1
  <2>2. \A i \in 1 .. k - 1 + 1 : SubSeq(b, 1, k)[i] = b[1 + i - 1]
    BY <1>1, <2>1, SubSeqProperties, SMTT(30)
  <2>3. \A i \in 1 .. k : SubSeq(b, 1, k)[i] = b[i]
    BY <1>1, <2>2
  <2> QED
    BY <1>2, <2>3, Zenon
<1> HIDE DEF more
<1>5. /\ all \in Seq(Nat) /\ Len(all) = n
      /\ \A i \in 1 .. n : all[i] = b[i]
  <2>1. /\ all \in Seq(Nat) /\ Len(all) = Len(got) + Len(more)
        /\ \A i \in 1 .. Len(got) + Len(more) :
              all[i] = IF i <= Len(got) THEN got[i] ELSE more[i - Len(got)]
    BY <1>3, ConcatProperties
  <2> HIDE DEF all
  <2>2. all \in Seq(Nat) /\ Len(all) = n
    BY <1>1, <1>3, <2>1, SMTT(30) DEF k
  <2>3. ASSUME NEW i \in 1 .. n PROVE all[i] = b[i]
    <3>1. all[i] = IF i <= k THEN got[i] ELSE more[i - k]
      BY <1>1, <1>3, <2>1, SMTT(30) DEF k
    <3> QED
      BY <1>1, <1>3, <1>4, <3>1, SMTT(30)
  <2> QED
    BY <2>2, <2>3, SMTT(30)
<1> HIDE DEF all
<1>6. SubSeq(all, 1, n) = all
  BY <1>5, SubSeqFull, SMTT(30)
<1>7. SubSeq(b, 1, n) = all
  <2>1. \A i \in 1 .. n : b[i] \in Nat
    BY <1>1
  <2>2. /\ SubSeq(b, 1, n) \in Seq(Nat)
        /\ Len(SubSeq(b, 1, n)) = IF 1 <= n THEN n - 1 + 1 ELSE 0
        /\ \A i \in 1 .. n - 1 + 1 : SubSeq(b, 1, n)[i] = b[1 + i - 1]
    BY <1>1, <2>1, SubSeqProperties, SMTT(30)
  <2>3. Len(SubSeq(b, 1, n)) = n /\ \A i \in 1 .. n : SubSeq(b, 1, n)[i] = b[i]
    BY <2>2
  <2> QED
    BY <1>5, <2>2, <2>3, SeqEqual, SMTT(30)
<1>8. IsPrefix(all, b)
  BY <1>1, <1>5, <1>6, <1>7, SMTT(30) DEF IsPrefix
<1> QED
  BY <1>5, <1>8 DEF all, more, k

--------------------------------------------------------------------------------

\* The file at a path, when there is one, as an inspection finds it.
LEMMA FileAt ==
    ASSUME TreeInv, NEW p \in Path, Len(p) >= 2, IsFile(TreeOf(p), p)
    PROVE  /\ BytesOf(TreeOf(p)[p]) \in Seq(Nat)
           /\ StatGeneration(p) = TreeOf(p)[p].gen
           /\ p[1] = "rom" => TreeOf(p) = Rom
           /\ p[1] # "rom" => /\ TreeOf(p) = home /\ home[p].gen \in Nat /\ home[p].gen <= generation
                              /\ p \in DOMAIN home
<1>1. Len(p) \in Nat
  BY LenProperties DEF Path
<1>2. StatGeneration(p) = TreeOf(p)[p].gen
  BY <1>1, SMTT(30) DEF StatGeneration
<1>3. CASE p[1] = "rom"
  <2>1. TreeOf(p) = Rom
    BY <1>3 DEF TreeOf
  <2>2. p \in DOMAIN Rom /\ Rom[p].kind = "file" /\ IsNode(Rom[p])
    BY <2>1, RomIsATree, SMTT(30) DEF IsFile
  <2> QED
    BY <1>2, <1>3, <2>1, <2>2, FileBytes, SMTT(30)
<1>4. CASE p[1] # "rom"
  <2>1. TreeOf(p) = home
    BY <1>4, SMTT(30) DEF TreeOf
  <2>2. p \in DOMAIN home /\ home[p].kind = "file" /\ IsNode(home[p]) /\ home[p].gen <= generation
    BY <2>1 DEF IsFile, TreeInv, TreeOK, Versions
  <2>3. home[p].gen \in Nat
    BY <2>2 DEF IsNode
  <2> QED
    BY <1>2, <1>4, <2>1, <2>2, <2>3, FileBytes, SMTT(30)
<1> QED
  BY <1>3, <1>4, SMTT(30)

LEMMA InspectionStarted ==
    ASSUME LateInv, NEW p \in Paths, InspectStart(p)
    PROVE  LateStep
<1> DEFINE b == BytesOf(TreeOf(p)[p])
           i == [path |-> p, gen |-> StatGeneration(p), got |-> << >>, bytes |-> b]
<1>1. /\ Len(p) >= 2 /\ IsFile(TreeOf(p), p) /\ inspection' = {i}
      /\ UNCHANGED treeVars /\ frames' = frames
      /\ deployment' = deployment /\ compilation' = compilation
  BY Zenon DEF InspectStart
<1>2. /\ i = [path |-> i.path, gen |-> i.gen, got |-> i.got, bytes |-> i.bytes]
      /\ i.path = p /\ i.gen = StatGeneration(p) /\ i.got = << >> /\ i.bytes = b
  OBVIOUS
<1>3. p \in Path /\ TreeInv
  BY PathsArePaths, SMTT(30) DEF LateInv
<1>4. /\ b \in Seq(Nat) /\ StatGeneration(p) = TreeOf(p)[p].gen
      /\ p[1] = "rom" => TreeOf(p) = Rom
      /\ p[1] # "rom" => /\ TreeOf(p) = home /\ home[p].gen \in Nat /\ home[p].gen <= generation
                         /\ p \in DOMAIN home
  BY <1>1, <1>3, FileAt, SMTT(30)
<1>5. p[1] # "rom" => \A q \in DOMAIN home : home[q].gen = StatGeneration(p) => BytesOf(home[q]) = b
  <2>1. ASSUME p[1] # "rom", NEW q \in DOMAIN home, home[q].gen = StatGeneration(p)
        PROVE  home[q] = home[p] /\ b = BytesOf(home[p])
    BY <1>3, <1>4, <2>1, SMTT(30) DEF TreeInv, Versions
  <2> QED
    BY <2>1, Zenon
<1>6. p[1] = "rom" => b = BytesOf(Rom[p])
  BY <1>4, Zenon
<1>7. p[1] # "rom" => StatGeneration(p) \in Nat /\ StatGeneration(p) <= generation
  BY <1>4, Zenon
<1> HIDE DEF b
<1>8. << >> \in Seq(Nat) /\ IsPrefix(<< >>, b)
  <2>1. Len(b) \in Nat /\ Len(<< >>) = 0
    BY <1>4, LenProperties, SMTT(30)
  <2>2. SubSeq(<< >>, 1, 0) = << >> /\ SubSeq(b, 1, 0) = << >>
    BY <1>4
  <2> QED
    BY <2>1, <2>2, SMTT(30) DEF IsPrefix
<1> HIDE DEF i
<1>9. InspectedIn(i, home, generation)
  BY <1>1, <1>2, <1>3, <1>4, <1>5, <1>6, <1>7, <1>8, Zenon DEF InspectedIn
<1>10. \A x \in {i} : x = i
  OBVIOUS
<1> QED
  BY <1>1, <1>9, <1>10, QuietStep, Zenon DEF LateInv, FramesOK

LEMMA InspectionWith ==
    ASSUME NEW i, NEW tree, NEW g, InspectedIn(i, tree, g), NEW got \in Seq(Nat),
           IsPrefix(got, i.bytes)
    PROVE  InspectedIn([i EXCEPT !.got = got], tree, g)
<1> DEFINE j == [i EXCEPT !.got = got]
<1>1. i = [path |-> i.path, gen |-> i.gen, got |-> i.got, bytes |-> i.bytes]
  BY Zenon DEF InspectedIn
<1>2. /\ j = [path |-> j.path, gen |-> j.gen, got |-> j.got, bytes |-> j.bytes]
      /\ j.path = i.path /\ j.gen = i.gen /\ j.bytes = i.bytes /\ j.got = got
  BY <1>1
<1> HIDE DEF j
<1>3. InspectedIn(j, tree, g)
  BY <1>2, Zenon DEF InspectedIn
<1> QED
  BY <1>3 DEF j

LEMMA InspectionAdvanced ==
    ASSUME LateInv, NEW n \in 1 .. MaxIo, InspectChunk(n)
    PROVE  LateStep
<1>1. PICK i \in inspection :
        /\ IsFile(TreeOf(i.path), i.path)
        /\ StatGeneration(i.path) = i.gen
        /\ Len(i.got) < Len(BytesOf(TreeOf(i.path)[i.path]))
        /\ inspection' = {[i EXCEPT !.got = i.got \o SubSeq(BytesOf(TreeOf(i.path)[i.path]),
              Len(i.got) + 1, Min({Len(i.got) + n, Len(BytesOf(TreeOf(i.path)[i.path]))}))]}
        /\ UNCHANGED <<treeVars, frames, compilation, deployment>>
  BY Zenon DEF InspectChunk
<1>2. InspectedIn(i, home, generation) /\ TreeInv
  BY Zenon DEF LateInv
<1>3. /\ i.path \in Path /\ Len(i.path) >= 2 /\ i.bytes \in Seq(Nat) /\ i.got \in Seq(Nat)
      /\ IsPrefix(i.got, i.bytes)
  BY <1>2, Zenon DEF InspectedIn
<1>4. BytesOf(TreeOf(i.path)[i.path]) = i.bytes
  <2>1. /\ StatGeneration(i.path) = TreeOf(i.path)[i.path].gen
        /\ i.path[1] = "rom" => TreeOf(i.path) = Rom
        /\ i.path[1] # "rom" => TreeOf(i.path) = home /\ i.path \in DOMAIN home
    BY <1>1, <1>2, <1>3, FileAt, SMTT(30)
  <2> QED
    BY <1>1, <1>2, <2>1, ZenonT(40) DEF InspectedIn
<1> DEFINE end == Min({Len(i.got) + n, Len(i.bytes)})
           got == i.got \o SubSeq(i.bytes, Len(i.got) + 1, end)
<1>5. Len(i.got) < Len(i.bytes) /\ inspection' = {[i EXCEPT !.got = got]}
  BY <1>1, <1>4, ZenonT(40)
<1>6. end \in Nat /\ Len(i.got) <= end /\ end <= Len(i.bytes)
  <2>1. Len(i.got) \in Nat /\ Len(i.bytes) \in Nat /\ n \in Nat
    BY <1>3, LenProperties, Bounds, SMTT(30)
  <2>2. end = IF Len(i.got) + n <= Len(i.bytes) THEN Len(i.got) + n ELSE Len(i.bytes)
    BY <2>1, MinOfTwo, SMTT(30)
  <2> QED
    BY <1>5, <2>1, <2>2, SMTT(30)
<1> HIDE DEF end
<1>7. got \in Seq(Nat) /\ IsPrefix(got, i.bytes)
  BY <1>3, <1>6, PrefixGrows, SMTT(30)
<1> HIDE DEF got
<1> DEFINE j == [i EXCEPT !.got = got]
<1>8. InspectedIn(j, home, generation)
  BY <1>2, <1>7, InspectionWith, SMTT(30)
<1> HIDE DEF j
<1>9. inspection' = {j} /\ \A x \in {j} : x = j
  BY <1>5 DEF j
<1>10. UNCHANGED treeVars /\ frames' = frames /\ deployment' = deployment /\ compilation' = compilation
  BY <1>1
<1> QED
  BY <1>8, <1>9, <1>10, QuietStep, Zenon DEF LateInv, FramesOK

--------------------------------------------------------------------------------
(* Restarts *)

\* What open_computer rebuilds is the tree there was.
LEMMA SameAgain ==
    ASSUME TreeInv, recovered.ok, home' = recovered.nodes, objects' = StoreFor(recovered.nodes),
           generation' = recovered.gen, recovered' = recovered
    PROVE  TreeStep /\ home' = home
<1>1. recovered.nodes = home /\ recovered.gen = generation /\ objects = StoreFor(home)
  BY Zenon DEF TreeInv, RecoveryExact, ObjectsExact
<1>2. home' = home /\ objects' = objects /\ generation' = generation
  BY <1>1
<1> QED
  BY <1>2 DEF TreeStep, Unmoved

LEMMA Rebooted ==
    ASSUME LateInv, Reboot
    PROVE  LateStep
<1>1. /\ recovered.ok /\ home' = recovered.nodes /\ objects' = StoreFor(recovered.nodes)
      /\ generation' = recovered.gen /\ recovered' = recovered
      /\ frames' = <<NoTransfers>> /\ compilation' = {} /\ deployment' = {} /\ inspection' = {}
  BY Zenon DEF Reboot, Reopen
<1>2. TreeStep /\ home' = home
  BY <1>1, SameAgain DEF LateInv
<1>3. LateIn({}, {}, home, generation)
  BY Zenon DEF LateIn
<1>4. \A i \in {} : InspectedIn(i, home, generation)
  OBVIOUS
<1> QED
  BY <1>1, <1>2, <1>3, <1>4, NewFrame, QuietTree, Zenon DEF LateStep

LEMMA RestoredStep ==
    ASSUME LateInv, Restore
    PROVE  LateStep
<1>1. /\ home' = recovered.nodes /\ objects' = StoreFor(recovered.nodes)
      /\ generation' = generation /\ recovered' = recovered
      /\ frames' = [i \in DOMAIN frames |-> Restored(frames[i])]
      /\ compilation' = compilation /\ deployment' = deployment /\ inspection' = inspection
  BY Zenon DEF Restore
<1>2. recovered = [ok |-> TRUE, gen |-> generation, nodes |-> home]
  BY Zenon DEF Restore, TreeAccepted
<1>3. recovered.ok /\ recovered.gen = generation
  BY <1>2
<1>4. TreeStep /\ home' = home
  BY <1>1, <1>3, SameAgain, SMTT(30) DEF LateInv
<1>5. FramesIn(frames', home, generation)
  BY <1>1, RestoredFrames, SMTT(30) DEF LateInv, FramesOK
<1> QED
  BY <1>1, <1>4, <1>5, QuietTree, Zenon DEF LateStep, LateInv

LEMMA MachineSteps ==
    ASSUME LateInv, MachineStep
    PROVE  LateStep
<1>1. ASSUME NEW source \in SourceFiles, NEW output \in Paths, RequestCompilation(source, output)
      PROVE  LateStep
  BY <1>1, CompilerRequested
<1>2. ASSUME NEW p \in Paths, AskRevision(p) \/ InspectStart(p)
      PROVE  LateStep
  BY <1>2, RevisionAsked, InspectionStarted, SMTT(30)
<1>3. ASSUME NEW bytes \in Contents, CompilationInstalled(bytes) \/ Deploy(bytes)
      PROVE  LateStep
  BY <1>3, CompilerInstalled, Deployed, ContentsAreBytes, SMTT(30)
<1>4. ASSUME NEW n \in 1 .. MaxIo, InspectChunk(n)
      PROVE  LateStep
  BY <1>4, InspectionAdvanced
<1> QED
  BY <1>1, <1>2, <1>3, <1>4, StackSteps, CompilerEnded, Rebooted, RestoredStep, ZenonT(40) DEF MachineStep

--------------------------------------------------------------------------------
(* The invariant, and what it gives *)

LEMMA NextSteps ==
    ASSUME LateInv, Next
    PROVE  LateStep
<1>1. TreeOK(home)
  BY Zenon DEF LateInv, TreeInv
<1>2. CASE (GuestCall \/ HandleCall) /\ UNCHANGED transferVars
  BY <1>1, <1>2, GuestSteps, HandleSteps, OnlyTree, Zenon
<1> QED
  BY <1>2, TransferSteps, MachineSteps, Zenon DEF Next

LEMMA StepKeeps ==
    ASSUME LateInv, LateStep
    PROVE  LateInv'
<1>1. TreeInv' /\ Later(home, generation, home', generation')
  BY TreeInvKept, TreeStepLater, SMTT(30) DEF LateInv, LateStep
<1>2. FramesIn(frames', home', generation')
  BY <1>1, FramesLater, SMTT(30) DEF LateStep
<1>3. \A revision, seen : Saw(home, generation, revision, seen) => Saw(home', generation', revision, seen)
  BY <1>1, SawLater
<1>4. LateIn(compilation', deployment', home', generation')
  BY <1>3, Zenon DEF LateStep, LateIn
<1>5. ASSUME NEW i \in inspection' PROVE InspectedIn(i, home', generation')
  <2>1. InspectedIn(i, home, generation)
    BY <1>5 DEF LateStep
  <2>2. CASE i.path[1] = "rom"
    BY <2>1, <2>2, Zenon DEF InspectedIn
  <2>3. CASE i.path[1] # "rom"
    <3>1. /\ i.gen \in Nat /\ i.gen <= generation
          /\ \A q \in DOMAIN home : home[q].gen = i.gen => BytesOf(home[q]) = i.bytes
      BY <2>1, <2>3, Zenon DEF InspectedIn
    <3>2. /\ generation \in Nat /\ generation' \in Nat /\ generation <= generation'
          /\ \A q \in DOMAIN home' : \/ home'[q].gen \in Nat /\ home'[q].gen > generation
                                     \/ \E x \in DOMAIN home : home'[q] = home[x]
      BY <1>1, Zenon DEF Later
    <3>3. i.gen <= generation'
      BY <3>1, <3>2, SMTT(30)
    <3>4. ASSUME NEW q \in DOMAIN home', home'[q].gen = i.gen PROVE BytesOf(home'[q]) = i.bytes
      <4>1. ~(home'[q].gen > generation)
        BY <3>1, <3>2, <3>4, SMTT(30)
      <4>2. PICK x \in DOMAIN home : home'[q] = home[x]
        BY <3>2, <4>1, SMTT(30)
      <4> QED
        BY <3>1, <3>4, <4>2, ZenonT(40)
    <3> QED
      BY <2>1, <2>3, <3>1, <3>3, <3>4, ZenonT(40) DEF InspectedIn
  <2> QED
    BY <2>2, <2>3, SMTT(30)
<1> QED
  BY <1>1, <1>2, <1>4, <1>5, ZenonT(40) DEF LateInv, FramesOK

LEMMA InitHolds ==
    ASSUME Init
    PROVE  LateInv
<1>1. /\ home = << >> /\ objects = StoreFor(<< >>) /\ generation = 0
      /\ recovered = [ok |-> TRUE, gen |-> 0, nodes |-> << >>]
      /\ frames = <<NoTransfers>> /\ compilation = {} /\ deployment = {} /\ inspection = {}
  BY DEF Init, TreeInit
<1>2. DOMAIN home = {}
  BY <1>1
<1>3. TreeOK(home)
  BY <1>2, SMTT(30) DEF TreeOK
<1>4. Versions
  BY <1>1, <1>2, SMTT(30) DEF Versions
<1>5. RecoveryExact
  BY <1>1, SMTT(30) DEF RecoveryExact
<1>6. ObjectsExact
  BY <1>1, <1>2, FS_EmptySet, SMTT(30) DEF ObjectsExact
<1>7. FramesOK
  BY <1>1, NewFrame, SMTT(30) DEF FramesOK
<1>8. LateIn({}, {}, home, generation) /\ \A i \in {} : InspectedIn(i, home, generation)
  BY Zenon DEF LateIn
<1> QED
  BY <1>1, <1>3, <1>4, <1>5, <1>6, <1>7, <1>8, Zenon DEF LateInv, TreeInv

LEMMA StutterKeeps ==
    ASSUME LateInv, UNCHANGED vars
    PROVE  LateInv' /\ EndsOnWhatItSaw
<1>1. /\ home' = home /\ objects' = objects /\ generation' = generation /\ recovered' = recovered
      /\ frames' = frames /\ compilation' = compilation /\ deployment' = deployment
      /\ inspection' = inspection
  BY DEF vars, treeVars, transferVars
<1>2. EndsOnWhatItSaw
  BY <1>1, QuietTree, SMTT(30)
<1>3. LateStep
  BY <1>1, <1>2, Zenon DEF LateStep, LateInv, FramesOK, TreeStep, Unmoved
<1> QED
  BY <1>2, <1>3, StepKeeps, SMTT(30)

\* LateInv is an invariant: the tree is a tree, no version is ahead of the tree or shared,
\* the records recover() accepts rebuild it, the object store counts exactly its references,
\* and what every draft, compilation, deployment and inspection remembers of a node can only
\* be found again in that very node (tree.rs, computer_filesystem.rs, computer.rs).
THEOREM LateInvariant == Spec => []LateInv
<1>1. Init => LateInv
  BY InitHolds
<1>2. LateInv /\ [Next]_vars => LateInv'
  BY NextSteps, StepKeeps, StutterKeeps, SMTT(30)
<1> QED
  BY <1>1, <1>2, PTL DEF Spec

\* Whatever the sizes of the tree and of the process stack, a generation names one version
\* for ever; a draft, a compilation or a deployment that takes effect finds the node its
\* owner saw; the chunks of an inspection are of one version (replace_file_if_revision,
\* filesystem_read).
THEOREM LateActionsSeeWhatTheySawHolds == Spec => LateActionsSeeWhatTheySaw
<1>1. LateInv => InspectionIsOneVersion
  BY Zenon DEF LateInv, InspectedIn, InspectionIsOneVersion
<1>2. LateInv /\ [Next]_vars => [EndsOnWhatItSaw]_vars
  BY NextSteps, StutterKeeps, Zenon DEF LateStep
<1>3. LateInv /\ [Next]_vars =>
        [\A p \in DOMAIN home, q \in DOMAIN home' :
            home[p].gen = home'[q].gen => home[p] = home'[q]]_home
  <2>1. ASSUME LateInv, Next
        PROVE  \A p \in DOMAIN home, q \in DOMAIN home' :
                  home[p].gen = home'[q].gen => home[p] = home'[q]
    <3>1. TreeOK(home) /\ Versions /\ TreeStep
      BY <2>1, NextSteps, Zenon DEF LateInv, TreeInv, LateStep
    <3> QED
      BY <3>1, VersionsKept, Zenon
  <2>2. UNCHANGED vars => UNCHANGED home
    BY DEF vars, treeVars
  <2> QED
    BY <2>1, <2>2, SMTT(30)
<1> QED
  BY <1>1, <1>2, <1>3, LateInvariant, PTL DEF Spec, LateActionsSeeWhatTheySaw, GenerationPinsContent

\* Recovery never yields another tree: when recover() accepts the published records, it
\* yields exactly the tree, bytes, flags and generations the programs see (recovery.rs).
RecoveryIsExact == recovered.ok => recovered = [ok |-> TRUE, gen |-> generation, nodes |-> home]

\* The object store holds one reference for every node that has the object, and no other
\* object: none is lost under a file that shares it, none leaks (ObjectStore::replace, remove).
ReferencesExact == objects = StoreFor(home)

\* Both hold for every limit and every sequence of calls.
THEOREM RecoveryAndReferencesExact == Spec => [](RecoveryIsExact /\ ReferencesExact)
<1>1. LateInv => RecoveryIsExact /\ ReferencesExact
  <2> SUFFICES ASSUME LateInv PROVE RecoveryIsExact /\ ReferencesExact
    OBVIOUS
  <2>1. RecoveryExact /\ ReferencesExact
    BY DEF LateInv, TreeInv, ObjectsExact, ReferencesExact
  <2>2. ASSUME recovered.ok PROVE recovered = [ok |-> TRUE, gen |-> generation, nodes |-> home]
    <3>1. recovered.gen = generation /\ recovered.nodes = home
      BY <2>1, <2>2, SMTT(30) DEF RecoveryExact
    <3> QED
      BY <2>1, <2>2, <3>1, SMTT(30) DEF RecoveryExact
  <2> QED
    BY <2>1, <2>2 DEF RecoveryIsExact
<1> QED
  BY <1>1, LateInvariant, PTL

LEMMA HandlesMove ==
    ASSUME HandleInv, Next
    PROVE  HandleStep
<1> USE DEF HandleStep
<1>1. ASSUME GuestCall PROVE UNCHANGED <<slots, stale>>
  BY <1>1, Zenon DEF GuestCall, CreateDirectory, RemoveEntry, Rename
<1>2. ASSUME HandleCall PROVE HandleStep
  <2>1. ASSUME NEW cap, NEW p, NEW mode, Open(cap, p, mode) PROVE HandleStep
    <3>1. OpenSlot([path |-> p, mode |-> mode]) /\ stale' = stale
      BY <2>1, Zenon DEF Open
    <3> QED
      BY <3>1, HandleOpened, Zenon
  <2>2. ASSUME NEW h \in Handles, Close(h) PROVE HandleStep
    BY <2>2, HandleClosed, Zenon
  <2>3. ASSUME NEW h, NEW offset, NEW bytes, Write(h, offset, bytes) PROVE UNCHANGED <<slots, stale>>
    BY <2>3, Zenon DEF Write
  <2>4. ASSUME NEW h, NEW size, Truncate(h, size) PROVE UNCHANGED <<slots, stale>>
    BY <2>4, Zenon DEF Truncate
  <2> QED
    BY <1>2, <2>1, <2>2, <2>3, <2>4, Zenon DEF HandleCall
<1>3. ASSUME UNCHANGED treeVars PROVE UNCHANGED <<slots, stale>>
  BY <1>3 DEF treeVars
<1>4. ASSUME TransferCall PROVE UNCHANGED <<slots, stale>>
  <2>1. ASSUME NEW p, OpenRead(p) \/ OpenWrite(p) \/ OpenDirectory(p) \/ OpenMove(p)
        PROVE  UNCHANGED treeVars
    BY <2>1, ZenonT(40) DEF OpenRead, OpenWrite, OpenDirectory, OpenMove, Insert
  <2>2. ASSUME NEW id, NEW n, ReadChunk(id, n) PROVE UNCHANGED treeVars
    BY <2>2, Zenon DEF ReadChunk
  <2>3. ASSUME NEW id, CommitTransfer(id) PROVE UNCHANGED <<slots, stale>>
    BY <2>3, SMTT(30) DEF CommitTransfer
  <2>4. ASSUME NEW id, NEW bytes, AppendChunk(id, bytes) PROVE UNCHANGED treeVars
    BY <2>4, Zenon DEF AppendChunk
  <2>5. ASSUME NEW id, NextEntry(id) PROVE UNCHANGED treeVars
    BY <2>5, Zenon DEF NextEntry
  <2>6. ASSUME NEW id, NEW to, NEW replace, MoveOpened(id, to, replace) PROVE UNCHANGED <<slots, stale>>
    BY <2>6, Zenon DEF MoveOpened, Rename
  <2>7. ASSUME NEW id, CloseTransfer(id) PROVE UNCHANGED treeVars
    BY <2>7, Zenon DEF CloseTransfer
  <2> QED
    BY <1>3, <1>4, <2>1, <2>2, <2>3, <2>4, <2>5, <2>6, <2>7, Zenon DEF TransferCall
<1>5. ASSUME MachineStep PROVE HandleStep
  <2>1. ASSUME EnterProcess \/ FinishChild \/ CompilationEnded PROVE UNCHANGED treeVars
    BY <2>1, Zenon DEF EnterProcess, FinishChild, CompilationEnded
  <2>2. ASSUME NEW source, NEW output, RequestCompilation(source, output) PROVE UNCHANGED treeVars
    BY <2>2, Zenon DEF RequestCompilation
  <2>3. ASSUME NEW p, AskRevision(p) \/ InspectStart(p) PROVE UNCHANGED treeVars
    BY <2>3, Zenon DEF AskRevision, InspectStart
  <2>4. ASSUME NEW bytes, CompilationInstalled(bytes) \/ Deploy(bytes) PROVE UNCHANGED <<slots, stale>>
    <3>1. CASE CompilationInstalled(bytes)
      BY <3>1 DEF CompilationInstalled
    <3>2. CASE Deploy(bytes)
      BY <3>2 DEF Deploy
    <3> QED
      BY <2>4, <3>1, <3>2, SMTT(30)
  <2>5. ASSUME NEW n, InspectChunk(n) PROVE UNCHANGED treeVars
    BY <2>5, Zenon DEF InspectChunk
  <2>6. ASSUME Reboot PROVE slots' = << >> /\ stale' = {}
    BY <2>6, Zenon DEF Reboot, Reopen
  <2>7. ASSUME Restore PROVE UNCHANGED <<slots, stale>>
    BY <2>7 DEF Restore
  <2> QED
    BY <1>3, <1>5, <2>1, <2>2, <2>3, <2>4, <2>5, <2>6, <2>7, Zenon DEF MachineStep
<1> QED
  BY <1>1, <1>2, <1>4, <1>5, ZenonT(40) DEF Next

\* A handle that was closed never resolves again, however long its slot is reused and
\* whatever the last generation of a slot is (HandleTable::close, open, get).
THEOREM StaleHandlesNeverResolve == Spec => []StaleHandlesStayStale
<1>1. Init => HandleInv
  <2>1. << >> \in Seq(Slot({}))
    OBVIOUS
  <2>2. Init => slots = << >> /\ stale = {}
    BY Zenon DEF Init, TreeInit
  <2> QED
    BY <2>1, <2>2, Zenon DEF HandleInv
<1>2. HandleInv /\ [Next]_vars => HandleInv'
  <2>1. ASSUME HandleInv, UNCHANGED vars PROVE HandleInv'
    <3>1. UNCHANGED <<slots, stale>>
      BY <2>1 DEF vars, treeVars
    <3>2. HandleStep
      BY <3>1, Zenon DEF HandleStep
    <3> QED
      BY <2>1, <3>2, HandleStepKeeps, SMTT(30)
  <2> QED
    BY <2>1, HandlesMove, HandleStepKeeps, SMTT(30)
<1>3. HandleInv => StaleHandlesStayStale
  <2> SUFFICES ASSUME HandleInv, NEW h \in stale, Resolves(h) PROVE FALSE
    BY DEF StaleHandlesStayStale
  <2>1. h.gen \in Nat /\ Outlived(slots[h.slot], h.gen)
    BY DEF HandleInv
  <2>2. slots[h.slot].gen = h.gen /\ slots[h.slot].file # {}
    BY DEF Resolves
  <2>3. slots[h.slot].gen > h.gen
    BY <2>1, <2>2 DEF Outlived
  <2> QED
    BY <2>1, <2>2, <2>3, SMTT(30)
<1> QED
  BY <1>1, <1>2, <1>3, PTL DEF Spec

--------------------------------------------------------------------------------
(* The refinement of FileMap *)

Entry(node, readable) ==
    [kind |-> node.kind, bytes |-> node.object, exec |-> node.exec, readable |-> readable]
View(tree) == [p \in DOMAIN tree |-> Entry(tree[p], TRUE)]

\* The bytes of every file are in the store.
LEMMA VisibleIs == TreeInv => Visible = View(home)
<1> SUFFICES ASSUME TreeInv PROVE Visible = View(home)
  OBVIOUS
<1>1. objects = StoreFor(home)
  BY DEF TreeInv, ObjectsExact
<1>2. DOMAIN objects = (UNION {home[p].object : p \in DOMAIN home})
                          \cup (UNION {Rom[p].object : p \in DOMAIN Rom})
  BY <1>1, Zenon DEF StoreFor
<1>3. ASSUME NEW p \in DOMAIN home PROVE (home[p].object \subseteq DOMAIN objects) = TRUE
  BY <1>2, Zenon
<1>4. ASSUME NEW p \in DOMAIN home
      PROVE  [kind |-> home[p].kind, bytes |-> home[p].object, exec |-> home[p].exec,
              readable |-> home[p].object \subseteq DOMAIN objects] = Entry(home[p], TRUE)
  BY <1>3, Zenon DEF Entry
<1> QED
  BY <1>4, Zenon DEF Visible, View

LEMMA EntryFacts ==
    ASSUME NEW node, NEW readable
    PROVE  /\ Entry(node, readable).kind = node.kind
           /\ Entry(node, readable).readable = readable
BY DEF Entry

LEMMA EntryEqual ==
    ASSUME NEW node, NEW other, node.kind = other.kind, node.object = other.object,
           node.exec = other.exec, NEW readable
    PROVE  Entry(node, readable) = Entry(other, readable)
BY Zenon DEF Entry

LEMMA EntryReadable ==
    ASSUME NEW node PROVE Entry(node, TRUE).readable
BY DEF Entry

LEMMA SameFunction ==
    ASSUME NEW f, NEW g, f = [z \in DOMAIN f |-> f[z]], g = [z \in DOMAIN g |-> g[z]],
           DOMAIN f = DOMAIN g, \A z \in DOMAIN g : f[z] = g[z]
    PROVE  f = g
OBVIOUS

LEMMA ViewFacts ==
    ASSUME NEW tree
    PROVE  /\ DOMAIN View(tree) = DOMAIN tree
           /\ \A p \in DOMAIN tree : /\ View(tree)[p] = Entry(tree[p], TRUE)
                                     /\ View(tree)[p].kind = tree[p].kind
                                     /\ View(tree)[p].readable
<1>0. DOMAIN View(tree) = DOMAIN tree
  BY Zenon DEF View
<1>a. ASSUME NEW p \in DOMAIN tree PROVE View(tree)[p] = Entry(tree[p], TRUE)
  BY Zenon DEF View
<1>1. \A p \in DOMAIN tree : View(tree)[p] = Entry(tree[p], TRUE)
  BY <1>a, Zenon
<1>2. \A p \in DOMAIN tree : View(tree)[p].kind = tree[p].kind /\ View(tree)[p].readable
  BY <1>1, EntryFacts, EntryReadable, ZenonT(40)
<1> QED
  BY <1>0, <1>1, <1>2, ZenonT(40)

LEMMA WithinIs ==
    ASSUME NEW p \in Path, NEW q
    PROVE  FileMapView!Within(q, p) <=> IsWithin(q, p)
<1>1. SubSeq(p, 1, Len(p)) = p
  BY SubSeqFull DEF Path
<1> QED
  BY <1>1, Zenon DEF FileMapView!Within, IsWithin, IsPrefix

LEMMA DirectoryIs ==
    ASSUME TreeInv, NEW p, IsDirectory(home, Parent(p))
    PROVE  FileMapView!Directory(FileMapView!Above(p))
<1>1. FileMapView!Above(p) = Parent(p)
  BY Zenon DEF FileMapView!Above, Parent, Front
<1>2. Visible = View(home)
  BY VisibleIs
<1>3. CASE Len(Parent(p)) = 1
  BY <1>1, <1>3, Zenon DEF FileMapView!Directory, FileMapView!Root
<1>4. CASE Len(Parent(p)) # 1
  <2>1. Parent(p) \in DOMAIN home /\ home[Parent(p)].kind = "directory"
    BY <1>4, Zenon DEF IsDirectory
  <2> QED
    BY <1>1, <1>2, <2>1, ViewFacts, Zenon DEF FileMapView!Directory
<1> QED
  BY <1>3, <1>4, SMTT(30)

\* The view of the next state.
LEMMA BothViews ==
    ASSUME TreeInv, TreeInv'
    PROVE  Visible = View(home) /\ Visible' = View(home')
<1>1. (TreeInv => Visible = View(home))'
  BY VisibleIs, PTL
<1> QED
  BY <1>1, VisibleIs, SMTT(30)

\* An entry is put.
LEMMA PutStep ==
    ASSUME TreeInv, TreeInv', NEW p, IsDirectory(home, Parent(p)), NEW node,
           home' = Extended(home, p, node),
           p \in DOMAIN home => home[p].kind = "file" /\ node.kind = "file"
    PROVE  FileMapView!MapNext
<1>1. Visible = View(home) /\ Visible' = View(home')
  BY BothViews
<1>2. /\ DOMAIN home' = DOMAIN home \cup {p} /\ home'[p] = node
      /\ \A q \in DOMAIN home : q # p => home'[q] = home[q]
  BY Zenon DEF Extended
<1>3. FileMapView!Directory(FileMapView!Above(p))
  BY DirectoryIs
<1>4. p \in DOMAIN Visible => Visible[p].kind = "file" /\ Visible'[p].kind = "file"
  <2>1. DOMAIN Visible = DOMAIN home /\ (p \in DOMAIN home => Visible[p].kind = home[p].kind)
    BY <1>1, ViewFacts, Zenon
  <2>2. Visible'[p].kind = node.kind
    <3>1. p \in DOMAIN home'
      BY <1>2, Zenon
    <3>2. View(home')[p].kind = home'[p].kind
      BY <3>1, ViewFacts, Zenon
    <3> QED
      BY <1>1, <1>2, <3>2, Zenon
  <2> QED
    BY <2>1, <2>2, Zenon
<1>5. p \in DOMAIN Visible' /\ Visible'[p].readable
  BY <1>1, <1>2, ViewFacts, Zenon
<1>6. Visible' = FileMapView!Extended(Visible, p, Visible'[p])
  <2> DEFINE W == FileMapView!Extended(Visible, p, Visible'[p])
             V == View(home')
  <2>1. DOMAIN W = DOMAIN Visible \cup {p} /\ W = [z \in DOMAIN W |-> W[z]]
    BY Zenon DEF FileMapView!Extended
  <2>2. W[p] = Visible'[p]
    BY Zenon DEF FileMapView!Extended
  <2>3. ASSUME NEW z \in DOMAIN Visible, z # p PROVE W[z] = Visible[z]
    BY <2>3, Zenon DEF FileMapView!Extended
  <2>4. DOMAIN V = DOMAIN Visible \cup {p}
    BY <1>1, <1>2, ViewFacts, Zenon
  <2>5. V = [z \in DOMAIN V |-> V[z]]
    BY Zenon DEF View
  <2>6. V[p] = Visible'[p]
    BY <1>1, Zenon
  <2>7. ASSUME NEW z \in DOMAIN Visible, z # p PROVE V[z] = Visible[z]
    <3>1. z \in DOMAIN home /\ home'[z] = home[z] /\ z \in DOMAIN home'
      BY <1>1, <1>2, <2>7, ViewFacts, Zenon
    <3>2. View(home')[z] = Entry(home'[z], TRUE) /\ View(home)[z] = Entry(home[z], TRUE)
      BY <3>1, ViewFacts, Zenon
    <3> QED
      BY <1>1, <3>1, <3>2, ZenonT(40)
  <2>8. Visible' = V
    BY <1>1, Zenon
  <2> HIDE DEF W, V
  <2>9. \A z \in DOMAIN W : V[z] = W[z]
    BY <2>1, <2>2, <2>3, <2>6, <2>7, Zenon
  <2>10. V = W
    BY <2>1, <2>4, <2>5, <2>9, SameFunction, Zenon
  <2> QED
    BY <2>8, <2>10, Zenon DEF W
<1>7. FileMapView!Put(p)
  BY <1>3, <1>4, <1>5, <1>6, Zenon DEF FileMapView!Put, FileMapView!Readable
<1> QED
  BY <1>5, <1>7, ZenonT(40) DEF FileMapView!MapNext

\* An entry is deleted.
LEMMA DeleteStep ==
    ASSUME TreeInv, TreeInv', NEW p, Removed(p)
    PROVE  FileMapView!MapNext
<1>1. Visible = View(home) /\ Visible' = View(home')
  BY BothViews
<1>2. /\ p \in DOMAIN home /\ EmptyDirectory(home, p)
      /\ home' = [q \in DOMAIN home \ {p} |-> home[q]]
  BY Zenon DEF Removed
<1>3. TreeOK(home) /\ p \in Path /\ Len(p) >= 2
  BY <1>2, SMTT(30) DEF TreeInv, TreeOK, HomeDescendant
<1>4. \A q \in DOMAIN home : IsWithin(q, p) => q = p
  BY <1>2, <1>3, NothingBelow, SMTT(30)
<1>5. IsWithin(p, p)
  BY <1>3, WithinOrder, SMTT(30)
<1>6. FileMapView!Below(p) = {p}
  <2>1. \A q : FileMapView!Within(q, p) <=> IsWithin(q, p)
    BY <1>3, WithinIs, SMTT(30)
  <2>2. DOMAIN Visible = DOMAIN home
    BY <1>1, ViewFacts, Zenon
  <2> QED
    BY <1>2, <1>4, <1>5, <2>1, <2>2, SMTT(30) DEF FileMapView!Below
<1>7. Visible' = [q \in DOMAIN Visible \ {p} |-> Visible[q]]
  <2> DEFINE W == [q \in DOMAIN Visible \ {p} |-> Visible[q]]
             V == View(home')
  <2>1. DOMAIN W = DOMAIN home \ {p}
        /\ \A z \in DOMAIN home \ {p} : W[z] = Entry(home[z], TRUE)
    <3>1. DOMAIN Visible = DOMAIN home /\ \A z \in DOMAIN home : Visible[z] = Entry(home[z], TRUE)
      BY <1>1, ViewFacts, Zenon
    <3>2. DOMAIN W = DOMAIN Visible \ {p} /\ \A z \in DOMAIN Visible \ {p} : W[z] = Visible[z]
      OBVIOUS
    <3> HIDE DEF W
    <3> QED
      BY <3>1, <3>2, Zenon
  <2>2. DOMAIN home' = DOMAIN home \ {p} /\ \A z \in DOMAIN home \ {p} : home'[z] = home[z]
    BY <1>2
  <2>3. V = [z \in DOMAIN V |-> V[z]]
    BY Zenon DEF View
  <2>a. W = [z \in DOMAIN W |-> W[z]]
    OBVIOUS
  <2>4. DOMAIN V = DOMAIN home \ {p} /\ \A z \in DOMAIN home \ {p} : V[z] = Entry(home[z], TRUE)
    BY <2>2, ViewFacts, Zenon
  <2> HIDE DEF W, V
  <2>5. V = W
    <3>1. DOMAIN V = DOMAIN W /\ \A z \in DOMAIN W : V[z] = W[z]
      BY <2>1, <2>4, Zenon
    <3> QED
      BY <2>3, <2>a, <3>1, SameFunction, Zenon
  <2> QED
    BY <1>1, <2>5, ZenonT(40) DEF V, W
<1>8. FileMapView!Delete(p)
  BY <1>6, <1>7, Zenon DEF FileMapView!Delete
<1>9. p \in DOMAIN Visible
  BY <1>1, <1>2, ViewFacts, ZenonT(40)
<1> QED
  BY <1>8, <1>9, ZenonT(40) DEF FileMapView!MapNext

\* A subtree is renamed.
LEMMA MoveStep ==
    ASSUME TreeInv, TreeInv', NEW p, NEW to, CanMove(home, p, to),
           home' = Moved(home, p, to, generation + 1)
    PROVE  FileMapView!MapNext
<1>1. Visible = View(home) /\ Visible' = View(home')
  BY BothViews, SMTT(30)
<1>2. TreeOK(home) /\ generation + 1 \in Nat
  BY DEF TreeInv, Versions
<1>3. MovedFrom(home, home', p, to, generation + 1)
  BY <1>2, MovedFacts, ZenonT(40)
<1>4. /\ p \in DOMAIN home /\ p \in Path /\ to \in Path /\ Len(to) >= 2 /\ ~IsWithin(to, p)
      /\ IsDirectory(home, Parent(to))
      /\ to \in DOMAIN home => EmptyDirectory(home, to)
  BY <1>2, SMTT(30) DEF CanMove, TreeOK, HomeDescendant
<1>a. Rebase(p, p, to) = to
  <2>1. IsWithin(p, p)
    BY <1>4, WithinOrder, SMTT(30)
  <2> QED
    BY <1>4, <2>1, RebaseBack, SMTT(30)
<1>5. DOMAIN Visible = DOMAIN home /\ DOMAIN Visible' = DOMAIN home'
  BY <1>1, ViewFacts, Zenon
<1>6. FileMapView!Below(p) = Subtree(home, p)
  BY <1>4, <1>5, WithinIs, Zenon DEF FileMapView!Below, Subtree
<1>7. FileMapView!Below(to) \subseteq {to}
  <2>1. ASSUME NEW q \in DOMAIN home, IsWithin(q, to) PROVE q = to
    BY <1>2, <1>4, <2>1, NothingBelow, SMTT(30)
  <2> QED
    BY <1>4, <1>5, <2>1, WithinIs, ZenonT(40) DEF FileMapView!Below
<1>8. ~FileMapView!Within(to, p)
  BY <1>4, WithinIs, ZenonT(40)
<1>9. FileMapView!Directory(FileMapView!Above(to))
  BY <1>4, DirectoryIs, ZenonT(40)
<1>10. DOMAIN Visible' = (DOMAIN Visible \ (FileMapView!Below(p) \cup {to}))
                            \cup {Rebase(q, p, to) : q \in FileMapView!Below(p)}
  BY <1>3, <1>5, <1>6, ZenonT(40) DEF MovedFrom, Staying
<1>11. ASSUME NEW q \in FileMapView!Below(p) PROVE Visible'[Rebase(q, p, to)] = Visible[q]
  <2> DEFINE r == Rebase(q, p, to)
  <2>1. q \in DOMAIN home /\ q \in Subtree(home, p)
    BY <1>6, <1>11, Zenon DEF Subtree
  <2>2. r \in DOMAIN home'
    BY <1>5, <1>10, ZenonT(40)
  <2>3. home'[r].kind = home[q].kind /\ home'[r].object = home[q].object /\ home'[r].exec = home[q].exec
    <3>1. CASE q # p
      BY <1>3, <2>1, <3>1, Zenon DEF MovedFrom
    <3>2. CASE q = p
      <4>1. r = to
        BY <1>a, <3>2, SMTT(30)
      <4>2. home'[to] = Root(home, p, generation + 1)
        BY <1>3, ZenonT(40) DEF MovedFrom
      <4>3. /\ home'[to].kind = home[p].kind /\ home'[to].object = home[p].object
            /\ home'[to].exec = home[p].exec
        BY <1>2, <1>4, <4>2, RootIsNode, SMTT(30)
      <4> HIDE DEF r
      <4> QED
        BY <3>2, <4>1, <4>3, SMTT(30)
    <3> QED
      BY <3>1, <3>2, SMTT(30)
  <2> HIDE DEF r
  <2>4. Entry(home'[r], TRUE) = Entry(home[q], TRUE)
    BY <2>3, EntryEqual, ZenonT(40)
  <2>5. View(home')[r] = Entry(home'[r], TRUE) /\ View(home)[q] = Entry(home[q], TRUE)
    BY <2>1, <2>2, ViewFacts, ZenonT(40)
  <2>6. Visible'[r] = Visible[q]
    BY <1>1, <2>4, <2>5, Zenon
  <2> QED
    BY <2>6 DEF r
<1>12. ASSUME NEW q \in DOMAIN Visible \ (FileMapView!Below(p) \cup {to}) PROVE Visible'[q] = Visible[q]
  <2>1. q \in DOMAIN home /\ q \in DOMAIN home' /\ q \in Staying(home, p, to)
    BY <1>5, <1>6, <1>10, <1>12, ZenonT(40) DEF Staying
  <2>2. home'[q] = home[q]
    BY <1>3, <2>1, ZenonT(40) DEF MovedFrom
  <2>3. View(home')[q] = Entry(home'[q], TRUE) /\ View(home)[q] = Entry(home[q], TRUE)
    BY <2>1, ViewFacts, ZenonT(40)
  <2> QED
    BY <1>1, <2>2, <2>3, ZenonT(40)
<1>13. FileMapView!Move(p, to)
  BY <1>7, <1>8, <1>9, <1>10, <1>11, <1>12, ZenonT(40) DEF FileMapView!Move, Rebase
<1>14. p \in DOMAIN Visible /\ to \in DOMAIN Visible'
  BY <1>3, <1>4, <1>5, <1>a, ZenonT(40) DEF MovedFrom
<1> QED
  BY <1>13, <1>14, Zenon DEF FileMapView!MapNext

LEMMA TreeStepMaps ==
    ASSUME TreeInv, TreeInv', TreeStep
    PROVE  FileMapView!MapNext \/ Visible' = Visible
<1>1. CASE Unmoved
  BY <1>1, BothViews, ZenonT(40) DEF Unmoved
<1>2. ASSUME NEW p, MadeDirectory(p) PROVE FileMapView!MapNext
  BY <1>2, PutStep, ZenonT(40) DEF MadeDirectory
<1>3. ASSUME NEW p, NEW bytes, NEW exec, Stored(p, bytes, exec) PROVE FileMapView!MapNext
  <2>1. FileNode(bytes, generation + 1, exec).kind = "file"
    BY DEF FileNode
  <2> QED
    BY <1>3, <2>1, PutStep, Zenon DEF Stored
<1>4. ASSUME NEW p, Removed(p) PROVE FileMapView!MapNext
  BY <1>4, DeleteStep, Zenon
<1>5. ASSUME NEW p, NEW to, NEW replace, Renamed(p, to, replace) PROVE FileMapView!MapNext
  BY <1>5, MoveStep, Zenon DEF Renamed
<1> QED
  BY <1>1, <1>2, <1>3, <1>4, <1>5, Zenon DEF TreeStep

\* Whatever the guest, the host, the transfers, the compiler and the restarts do, what
\* can be read back of a computer's tree changes as FileMap says: an entry is put, an
\* empty one deleted, a subtree moved as a whole, and every file's bytes stay in the
\* object store.
THEOREM FilesImplementFileMap == Spec => ImplementsFileMap
<1>1. Init => FileMapView!MapInit
  <2> SUFFICES ASSUME Init PROVE Visible = << >>
    BY SMTT(30) DEF FileMapView!MapInit
  <2>1. home = << >>
    BY DEF Init, TreeInit
  <2>2. DOMAIN home = {}
    BY <2>1
  <2> QED
    BY <2>2, SMTT(30) DEF Visible
<1>2. LateInv /\ LateInv' /\ [Next]_vars => [FileMapView!MapNext]_Visible
  <2> SUFFICES ASSUME LateInv, LateInv', [Next]_vars
               PROVE  FileMapView!MapNext \/ Visible' = Visible
    OBVIOUS
  <2>1. TreeInv /\ TreeInv'
    BY Zenon DEF LateInv
  <2>2. CASE Next
    <3>1. TreeStep
      BY <2>2, NextSteps DEF LateStep
    <3> QED
      BY <2>1, <3>1, TreeStepMaps, SMTT(30)
  <2>3. CASE UNCHANGED vars
    <3>1. home' = home
      BY <2>3 DEF vars, treeVars
    <3> QED
      BY <2>1, <3>1, BothViews, ZenonT(40)
  <2> QED
    BY <2>2, <2>3, SMTT(30)
<1> QED
  BY <1>1, <1>2, LateInvariant, PTL DEF Spec, ImplementsFileMap, FileMapView!MapSpec
==================================================================================
