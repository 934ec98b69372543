----------------------------- MODULE FileTreeProofs -----------------------------
(***************************************************************************)
(* Proofs about a computer's file system: the tree stays a tree, what      *)
(* recovery rebuilds is the tree, the object store counts its references,  *)
(* and no generation is given twice.  Every call is one of five steps.     *)
(***************************************************************************)
EXTENDS FileTree, SequenceTheorems, FiniteSetTheorems, TLAPS

--------------------------------------------------------------------------------
(* Paths *)

Path == Seq(STRING)

\* A prefix, entry by entry.
LEMMA PrefixFacts ==
    ASSUME NEW p \in Path, NEW n \in 0 .. Len(p)
    PROVE  /\ SubSeq(p, 1, n) \in Path /\ Len(SubSeq(p, 1, n)) = n
           /\ \A i \in 1 .. n : SubSeq(p, 1, n)[i] = p[i]
<1>1. Len(p) \in Nat /\ \A i \in 1 .. n : p[i] \in STRING
  BY LenProperties, ElementOfSeq DEF Path
<1>2. /\ SubSeq(p, 1, n) \in Seq(STRING)
      /\ Len(SubSeq(p, 1, n)) = IF 1 <= n THEN n - 1 + 1 ELSE 0
      /\ \A i \in 1 .. n - 1 + 1 : SubSeq(p, 1, n)[i] = p[1 + i - 1]
  BY <1>1, SubSeqProperties
<1> QED
  BY <1>1, <1>2 DEF Path

LEMMA FrontFacts ==
    ASSUME NEW p \in Path, Len(p) >= 1
    PROVE  /\ Front(p) \in Path /\ Len(Front(p)) = Len(p) - 1
           /\ \A i \in 1 .. Len(p) - 1 : Front(p)[i] = p[i]
<1>1. Len(p) - 1 \in 0 .. Len(p)
  BY LenProperties DEF Path
<1> QED
  BY <1>1, PrefixFacts, Zenon DEF Front

LEMMA WithinFacts ==
    ASSUME NEW p \in Path, NEW q \in Path
    PROVE  IsWithin(p, q) <=> Len(q) <= Len(p) /\ \A i \in 1 .. Len(q) : p[i] = q[i]
<1>1. Len(p) \in Nat /\ Len(q) \in Nat /\ SubSeq(q, 1, Len(q)) = q
  BY LenProperties, SubSeqFull, Zenon DEF Path
<1>2. ASSUME Len(q) <= Len(p)
      PROVE  SubSeq(q, 1, Len(q)) = SubSeq(p, 1, Len(q)) <=> \A i \in 1 .. Len(q) : p[i] = q[i]
  <2>1. /\ SubSeq(p, 1, Len(q)) \in Path /\ Len(SubSeq(p, 1, Len(q))) = Len(q)
        /\ \A i \in 1 .. Len(q) : SubSeq(p, 1, Len(q))[i] = p[i]
    BY <1>1, <1>2, PrefixFacts
  <2>2. ASSUME \A i \in 1 .. Len(q) : p[i] = q[i]
        PROVE  q = SubSeq(p, 1, Len(q))
    BY <1>1, <2>1, <2>2, SeqEqual, Zenon DEF Path
  <2> QED
    BY <1>1, <2>1, <2>2, Zenon
<1> QED
  BY <1>1, <1>2, Zenon DEF IsWithin, IsPrefix

LEMMA WithinIsPrefix ==
    ASSUME NEW p \in Path, NEW q \in Path, IsWithin(p, q)
    PROVE  q = SubSeq(p, 1, Len(q)) /\ Len(q) \in 0 .. Len(p)
<1>1. Len(p) \in Nat /\ Len(q) \in Nat /\ SubSeq(q, 1, Len(q)) = q
  BY LenProperties, SubSeqFull, Zenon DEF Path
<1> QED
  BY <1>1 DEF IsWithin, IsPrefix

LEMMA PathEqual ==
    ASSUME NEW p \in Path, NEW q \in Path, Len(p) = Len(q), \A i \in 1 .. Len(p) : p[i] = q[i]
    PROVE  p = q
BY SeqEqual, Zenon DEF Path

LEMMA WithinOrder ==
    ASSUME NEW p \in Path, NEW q \in Path, NEW r \in Path
    PROVE  /\ IsWithin(p, p)
           /\ IsWithin(p, q) /\ IsWithin(q, r) => IsWithin(p, r)
           /\ IsWithin(p, q) /\ IsWithin(p, r) /\ Len(r) <= Len(q) => IsWithin(q, r)
           /\ IsWithin(p, q) /\ Len(p) <= Len(q) => p = q
<1>1. Len(p) \in Nat /\ Len(q) \in Nat /\ Len(r) \in Nat
  BY LenProperties, Zenon DEF Path
<1>2. IsWithin(p, p)
  BY <1>1, WithinFacts
<1>3. IsWithin(p, q) /\ IsWithin(q, r) => IsWithin(p, r)
  BY <1>1, WithinFacts
<1>4. IsWithin(p, q) /\ IsWithin(p, r) /\ Len(r) <= Len(q) => IsWithin(q, r)
  BY <1>1, WithinFacts
<1>5. IsWithin(p, q) /\ Len(p) <= Len(q) => p = q
  <2> SUFFICES ASSUME IsWithin(p, q), Len(p) <= Len(q) PROVE p = q
    BY Zenon
  <2>1. Len(p) = Len(q) /\ \A i \in 1 .. Len(p) : p[i] = q[i]
    BY <1>1, WithinFacts
  <2> QED
    BY <2>1, PathEqual, Zenon
<1> QED
  BY <1>2, <1>3, <1>4, <1>5, Zenon

--------------------------------------------------------------------------------
(* Moving a path *)

LEMMA RebaseFacts ==
    ASSUME NEW q \in Path, NEW from \in Path, NEW to \in Path, IsWithin(q, from)
    PROVE  /\ Rebase(q, from, to) \in Path
           /\ Len(Rebase(q, from, to)) = Len(to) + (Len(q) - Len(from))
           /\ Len(q) - Len(from) \in Nat
           /\ \A i \in 1 .. Len(to) : Rebase(q, from, to)[i] = to[i]
           /\ \A i \in 1 .. Len(q) - Len(from) : Rebase(q, from, to)[Len(to) + i] = q[Len(from) + i]
<1> DEFINE tail == SubSeq(q, Len(from) + 1, Len(q))
<1>1. /\ Len(q) \in Nat /\ Len(from) \in Nat /\ Len(to) \in Nat
      /\ Len(from) <= Len(q) /\ \A i \in Len(from) + 1 .. Len(q) : q[i] \in STRING
  BY LenProperties, ElementOfSeq, WithinFacts DEF Path
<1>2. /\ tail \in Seq(STRING)
      /\ Len(tail) = IF Len(from) + 1 <= Len(q) THEN Len(q) - (Len(from) + 1) + 1 ELSE 0
      /\ \A i \in 1 .. Len(q) - (Len(from) + 1) + 1 : tail[i] = q[Len(from) + 1 + i - 1]
  BY <1>1, SubSeqProperties
<1> HIDE DEF tail
<1>3. /\ Len(tail) = Len(q) - Len(from)
      /\ \A i \in 1 .. Len(q) - Len(from) : tail[i] = q[Len(from) + i]
  BY <1>1, <1>2
<1>4. /\ to \o tail \in Seq(STRING)
      /\ Len(to \o tail) = Len(to) + Len(tail)
      /\ \A i \in 1 .. Len(to) + Len(tail) :
            (to \o tail)[i] = IF i <= Len(to) THEN to[i] ELSE tail[i - Len(to)]
  BY <1>2, ConcatProperties, Zenon DEF Path
<1>5. Rebase(q, from, to) = to \o tail
  BY Zenon DEF Rebase, tail
<1> DEFINE r == Rebase(q, from, to)
<1>6. r \in Path /\ Len(r) = Len(to) + (Len(q) - Len(from)) /\ Len(q) - Len(from) \in Nat
  BY <1>1, <1>3, <1>4, <1>5 DEF Path
<1>7. \A i \in 1 .. Len(to) : r[i] = to[i]
  BY <1>1, <1>3, <1>4, <1>5
<1>8. ASSUME NEW i \in 1 .. Len(q) - Len(from) PROVE r[Len(to) + i] = q[Len(from) + i]
  <2>1. Len(to) + i \in 1 .. Len(to) + Len(tail) /\ ~(Len(to) + i <= Len(to))
    BY <1>1, <1>3
  <2>2. r[Len(to) + i] = tail[Len(to) + i - Len(to)]
    BY <1>4, <1>5, <2>1
  <2>3. Len(to) + i - Len(to) = i
    BY <1>1
  <2> QED
    BY <1>3, <2>2, <2>3, Zenon
<1> QED
  BY <1>6, <1>7, <1>8, Zenon

\* Moving back undoes a move.
LEMMA RebaseBack ==
    ASSUME NEW q \in Path, NEW from \in Path, NEW to \in Path, IsWithin(q, from)
    PROVE  /\ IsWithin(Rebase(q, from, to), to)
           /\ Rebase(Rebase(q, from, to), to, from) = q
           /\ Rebase(q, from, to) = to <=> q = from
<1> DEFINE r == Rebase(q, from, to)
<1>0. Len(q) \in Nat /\ Len(from) \in Nat /\ Len(to) \in Nat
  BY LenProperties, Zenon DEF Path
<1>1. /\ r \in Path /\ Len(r) = Len(to) + (Len(q) - Len(from)) /\ Len(q) - Len(from) \in Nat
      /\ \A i \in 1 .. Len(to) : r[i] = to[i]
      /\ \A i \in 1 .. Len(q) - Len(from) : r[Len(to) + i] = q[Len(from) + i]
  BY RebaseFacts, Zenon
<1> HIDE DEF r
<1>2. IsWithin(r, to)
  BY <1>0, <1>1, WithinFacts
<1> DEFINE b == Rebase(r, to, from)
<1>3. /\ b \in Path /\ Len(b) = Len(from) + (Len(r) - Len(to))
      /\ \A i \in 1 .. Len(from) : b[i] = from[i]
      /\ \A i \in 1 .. Len(r) - Len(to) : b[Len(from) + i] = r[Len(to) + i]
  BY <1>1, <1>2, RebaseFacts, ZenonT(30)
<1> HIDE DEF b
<1>4. Len(b) = Len(q)
  BY <1>0, <1>1, <1>3
<1>5. ASSUME NEW i \in 1 .. Len(b) PROVE b[i] = q[i]
  <2>1. CASE i <= Len(from)
    BY <1>0, <1>3, <2>1, WithinFacts
  <2>2. CASE ~(i <= Len(from))
    <3>1. i - Len(from) \in 1 .. Len(q) - Len(from) /\ i = Len(from) + (i - Len(from))
      BY <1>0, <1>4, <2>2
    <3>2. Len(r) - Len(to) = Len(q) - Len(from)
      BY <1>0, <1>1
    <3> QED
      BY <1>1, <1>3, <3>1, <3>2, Zenon
  <2> QED
    BY <2>1, <2>2, Zenon
<1>6. b = q
  BY <1>3, <1>4, <1>5, PathEqual, Zenon
<1>7. r = to => q = from
  <2> SUFFICES ASSUME r = to PROVE q = from
    BY Zenon
  <2>1. Len(q) <= Len(from)
    BY <1>0, <1>1
  <2> QED
    BY <2>1, WithinOrder, Zenon
<1>8. q = from => r = to
  <2> SUFFICES ASSUME q = from PROVE r = to
    BY Zenon
  <2>1. Len(r) <= Len(to)
    BY <1>0, <1>1
  <2> QED
    BY <1>1, <1>2, <2>1, WithinOrder, Zenon
<1> QED
  BY <1>2, <1>6, <1>7, <1>8, Zenon DEF r, b

--------------------------------------------------------------------------------
(* Trees *)

\* A tree of /home: every node below the mount, under directories that are there.
TreeOK(tree) ==
    /\ DOMAIN tree \subseteq Path
    /\ tree = [p \in DOMAIN tree |-> tree[p]]
    /\ \A p \in DOMAIN tree :
        /\ IsNode(tree[p])
        /\ HomeDescendant(p)
        /\ \A n \in 2 .. Len(p) - 1 :
              /\ SubSeq(p, 1, n) \in DOMAIN tree
              /\ tree[SubSeq(p, 1, n)].kind = "directory"

\* What is above a node is a directory.
LEMMA AboveIsDirectory ==
    ASSUME NEW tree, TreeOK(tree), NEW p \in DOMAIN tree, NEW q \in Path, IsWithin(p, q),
           q # p, Len(q) >= 2
    PROVE  q \in DOMAIN tree /\ tree[q].kind = "directory"
<1>1. p \in Path /\ Len(p) \in Nat /\ Len(q) \in Nat
  BY LenProperties, Zenon DEF TreeOK, Path
<1>2. q = SubSeq(p, 1, Len(q)) /\ Len(q) <= Len(p)
  BY <1>1, WithinIsPrefix
<1>3. Len(q) # Len(p)
  BY <1>1, WithinOrder
<1>4. Len(q) \in 2 .. Len(p) - 1
  BY <1>1, <1>2, <1>3
<1> QED
  BY <1>2, <1>4, Zenon DEF TreeOK

\* Nothing is below a path that is no directory, or that has no children.
LEMMA NothingBelow ==
    ASSUME NEW tree, TreeOK(tree), NEW q \in Path, Len(q) >= 2,
           (q \in DOMAIN tree /\ tree[q].kind = "directory") => EmptyDirectory(tree, q),
           NEW p \in DOMAIN tree, IsWithin(p, q)
    PROVE  p = q
<1>0. p \in Path /\ Len(p) \in Nat /\ Len(q) \in Nat
  BY LenProperties, Zenon DEF TreeOK, Path
<1> SUFFICES ASSUME p # q PROVE FALSE
  BY Zenon
<1>1. q \in DOMAIN tree /\ tree[q].kind = "directory"
  BY AboveIsDirectory, Zenon
<1>2. Children(tree, q) = {}
  BY <1>1, Zenon DEF EmptyDirectory
<1>3. Len(q) < Len(p)
  BY <1>0, WithinOrder
<1> DEFINE c == SubSeq(p, 1, Len(q) + 1)
<1>4. Len(q) + 1 \in 0 .. Len(p)
  BY <1>0, <1>3
<1>5. c \in Path /\ Len(c) = Len(q) + 1 /\ \A i \in 1 .. Len(q) + 1 : c[i] = p[i]
  BY <1>0, <1>4, PrefixFacts, Zenon
<1> HIDE DEF c
<1>6. IsWithin(p, c) /\ IsWithin(c, q)
  BY <1>0, <1>3, <1>5, WithinFacts
<1>7. c \in DOMAIN tree
  <2>1. CASE c = p
    BY <2>1, Zenon
  <2>2. CASE c # p
    <3>1. Len(c) >= 2
      BY <1>0, <1>5
    <3> QED
      BY <1>5, <1>6, <2>2, <3>1, AboveIsDirectory, Zenon
  <2> QED
    BY <2>1, <2>2, Zenon
<1>8. c \in Children(tree, q)
  BY <1>5, <1>6, <1>7, Zenon DEF Children
<1> QED
  BY <1>2, <1>8, Zenon

\* Everything above a path whose parent is a directory is one.
LEMMA UnderDirectory ==
    ASSUME NEW tree, TreeOK(tree), NEW p \in Path, Len(p) >= 2, IsDirectory(tree, Parent(p)),
           NEW q \in Path, IsWithin(p, q), q # p, Len(q) >= 2
    PROVE  q \in DOMAIN tree /\ tree[q].kind = "directory"
<1>1. Len(p) \in Nat /\ Len(q) \in Nat
  BY LenProperties, Zenon DEF Path
<1>2. /\ Parent(p) \in Path /\ Len(Parent(p)) = Len(p) - 1
      /\ \A i \in 1 .. Len(p) - 1 : Parent(p)[i] = p[i]
  BY <1>1, FrontFacts DEF Parent
<1>3. Len(q) <= Len(p) - 1
  BY <1>1, WithinFacts, WithinOrder
<1>4. IsWithin(Parent(p), q)
  <2>1. Len(q) <= Len(Parent(p)) /\ \A i \in 1 .. Len(q) : p[i] = q[i] /\ i \in 1 .. Len(p) - 1
    BY <1>1, <1>2, <1>3, WithinFacts
  <2> QED
    BY <1>2, <2>1, WithinFacts, Zenon
<1>5. Parent(p) \in DOMAIN tree /\ tree[Parent(p)].kind = "directory"
  BY <1>1, <1>2, <1>3 DEF IsDirectory
<1>6. CASE q = Parent(p)
  BY <1>5, <1>6, Zenon
<1>7. CASE q # Parent(p)
  BY <1>4, <1>5, <1>7, AboveIsDirectory, Zenon
<1> QED
  BY <1>6, <1>7, Zenon

\* The definition, with the paths above a node named by a prefix.
LEMMA TreeFromPrefixes ==
    ASSUME NEW tree, DOMAIN tree \subseteq Path, tree = [p \in DOMAIN tree |-> tree[p]],
           \A p \in DOMAIN tree : IsNode(tree[p]) /\ HomeDescendant(p),
           \A p \in DOMAIN tree, q \in Path :
              IsWithin(p, q) /\ q # p /\ Len(q) >= 2 => q \in DOMAIN tree /\ tree[q].kind = "directory"
    PROVE  TreeOK(tree)
<1>1. ASSUME NEW p \in DOMAIN tree, NEW n \in 2 .. Len(p) - 1
      PROVE  SubSeq(p, 1, n) \in DOMAIN tree /\ tree[SubSeq(p, 1, n)].kind = "directory"
  <2> DEFINE q == SubSeq(p, 1, n)
  <2>1. p \in Path /\ Len(p) \in Nat
    BY LenProperties, Zenon DEF Path
  <2>2. n \in 0 .. Len(p) /\ n # Len(p) /\ n >= 2 /\ n \in Nat /\ n <= Len(p)
    BY <2>1
  <2>3. q \in Path /\ Len(q) = n /\ \A i \in 1 .. n : q[i] = p[i]
    BY <2>1, <2>2, PrefixFacts, Zenon
  <2> HIDE DEF q
  <2>4. IsWithin(p, q) /\ q # p /\ Len(q) >= 2
    BY <2>1, <2>2, <2>3, WithinFacts, Zenon
  <2>5. q \in DOMAIN tree /\ tree[q].kind = "directory"
    BY <2>3, <2>4, Zenon
  <2> QED
    BY <2>5, Zenon DEF q
<1> QED
  BY <1>1, Zenon DEF TreeOK

\* A node is put where its parent is a directory; a directory is not replaced.
LEMMA PutTree ==
    ASSUME NEW tree, TreeOK(tree), NEW p \in Path, HomeDescendant(p),
           IsDirectory(tree, Parent(p)), NEW node, IsNode(node),
           p \in DOMAIN tree => tree[p].kind = "file"
    PROVE  TreeOK(Extended(tree, p, node))
<1> DEFINE new == Extended(tree, p, node)
<1>0. Len(p) >= 2
  BY Zenon DEF HomeDescendant
<1>1. /\ DOMAIN new = DOMAIN tree \cup {p} /\ new = [x \in DOMAIN new |-> new[x]]
      /\ new[p] = node /\ \A x \in DOMAIN tree : x # p => new[x] = tree[x]
  BY Zenon DEF Extended
<1> HIDE DEF new
<1>2. ASSUME NEW x \in DOMAIN new, NEW q \in Path, IsWithin(x, q), q # x, Len(q) >= 2
      PROVE  q \in DOMAIN new /\ new[q].kind = "directory"
  <2>1. q \in DOMAIN tree /\ tree[q].kind = "directory"
    <3>1. CASE x = p
      BY <1>0, <1>2, <3>1, UnderDirectory, Zenon
    <3>2. CASE x # p
      BY <1>1, <1>2, <3>2, AboveIsDirectory, Zenon
    <3> QED
      BY <3>1, <3>2, Zenon
  <2>2. q # p
    BY <2>1, Zenon
  <2> QED
    BY <1>1, <2>1, <2>2, Zenon
<1>3. DOMAIN new \subseteq Path /\ \A x \in DOMAIN new : IsNode(new[x]) /\ HomeDescendant(x)
  BY <1>1, Zenon DEF TreeOK
<1>4. TreeOK(new)
  BY <1>1, <1>2, <1>3, TreeFromPrefixes, Zenon
<1> QED
  BY <1>4, Zenon DEF new

\* A node with nothing below it is taken away.
LEMMA RemoveTree ==
    ASSUME NEW tree, TreeOK(tree), NEW p \in DOMAIN tree, EmptyDirectory(tree, p)
    PROVE  /\ TreeOK([q \in DOMAIN tree \ {p} |-> tree[q]])
           /\ Subtree(tree, p) = {p}
<1> DEFINE new == [q \in DOMAIN tree \ {p} |-> tree[q]]
<1>0. p \in Path /\ Len(p) >= 2
  BY Zenon DEF TreeOK, HomeDescendant
<1>1. /\ DOMAIN new = DOMAIN tree \ {p} /\ new = [x \in DOMAIN new |-> new[x]]
      /\ \A x \in DOMAIN new : new[x] = tree[x]
  BY Zenon
<1> HIDE DEF new
<1>2. \A x \in DOMAIN tree : IsWithin(x, p) => x = p
  BY <1>0, NothingBelow, Zenon
<1>3. ASSUME NEW x \in DOMAIN new, NEW q \in Path, IsWithin(x, q), q # x, Len(q) >= 2
      PROVE  q \in DOMAIN new /\ new[q].kind = "directory"
  <2>1. q \in DOMAIN tree /\ tree[q].kind = "directory"
    BY <1>1, <1>3, AboveIsDirectory, Zenon
  <2>2. q # p
    BY <1>1, <1>2, <1>3, Zenon
  <2> QED
    BY <1>1, <2>1, <2>2, Zenon
<1>4. DOMAIN new \subseteq Path /\ \A x \in DOMAIN new : IsNode(new[x]) /\ HomeDescendant(x)
  BY <1>1, Zenon DEF TreeOK
<1>5. TreeOK(new)
  BY <1>1, <1>3, <1>4, TreeFromPrefixes, Zenon
<1>6. Subtree(tree, p) = {p}
  BY <1>0, <1>2, WithinOrder, Zenon DEF Subtree
<1> QED
  BY <1>5, <1>6, Zenon DEF new

--------------------------------------------------------------------------------
(* Moving a subtree *)

LEMMA RebaseWithin ==
    ASSUME NEW x \in Path, NEW q \in Path, NEW from \in Path, NEW to \in Path,
           IsWithin(x, q), IsWithin(q, from)
    PROVE  IsWithin(Rebase(x, from, to), Rebase(q, from, to))
<1> DEFINE rx == Rebase(x, from, to)
           rq == Rebase(q, from, to)
<1>0. /\ Len(x) \in Nat /\ Len(q) \in Nat /\ Len(from) \in Nat /\ Len(to) \in Nat
      /\ Len(q) <= Len(x) /\ \A i \in 1 .. Len(q) : x[i] = q[i]
  BY LenProperties, WithinFacts, Zenon DEF Path
<1>1. IsWithin(x, from)
  BY WithinOrder, Zenon
<1>2. /\ rx \in Path /\ Len(rx) = Len(to) + (Len(x) - Len(from))
      /\ \A i \in 1 .. Len(to) : rx[i] = to[i]
      /\ \A i \in 1 .. Len(x) - Len(from) : rx[Len(to) + i] = x[Len(from) + i]
  BY <1>1, RebaseFacts, ZenonT(40)
<1>3. /\ rq \in Path /\ Len(rq) = Len(to) + (Len(q) - Len(from)) /\ Len(q) - Len(from) \in Nat
      /\ \A i \in 1 .. Len(to) : rq[i] = to[i]
      /\ \A i \in 1 .. Len(q) - Len(from) : rq[Len(to) + i] = q[Len(from) + i]
  BY RebaseFacts, ZenonT(40)
<1> HIDE DEF rx, rq
<1>4. Len(rq) <= Len(rx)
  BY <1>0, <1>2, <1>3
<1>5. ASSUME NEW i \in 1 .. Len(rq) PROVE rx[i] = rq[i]
  <2>1. CASE i <= Len(to)
    BY <1>0, <1>2, <1>3, <2>1
  <2>2. CASE ~(i <= Len(to))
    <3> DEFINE j == i - Len(to)
    <3>1. /\ j \in 1 .. Len(q) - Len(from) /\ j \in 1 .. Len(x) - Len(from)
          /\ i = Len(to) + j /\ Len(from) + j \in 1 .. Len(q)
      BY <1>0, <1>3, <2>2
    <3> HIDE DEF j
    <3> QED
      BY <1>0, <1>2, <1>3, <3>1, Zenon
  <2> QED
    BY <2>1, <2>2, Zenon
<1>6. IsWithin(rx, rq)
  BY <1>2, <1>3, <1>4, <1>5, WithinFacts, Zenon
<1> QED
  BY <1>6, Zenon DEF rx, rq

\* What rename and recovery check before they move a subtree.
CanMove(tree, from, to) ==
    /\ from \in DOMAIN tree
    /\ to \in Path /\ HomeDescendant(to) /\ ~IsWithin(to, from)
    /\ IsDirectory(tree, Parent(to))
    /\ to \in DOMAIN tree => EmptyDirectory(tree, to) /\ tree[to].kind = tree[from].kind

Staying(tree, from, to) == DOMAIN tree \ (Subtree(tree, from) \cup {to})
Root(tree, from, g) == [tree[from] EXCEPT !.gen = g]

\* Where every node of the moved tree comes from.
MovedFrom(tree, new, from, to, g) ==
    /\ DOMAIN new = Staying(tree, from, to) \cup {Rebase(q, from, to) : q \in Subtree(tree, from)}
    /\ new = [x \in DOMAIN new |-> new[x]]
    /\ from \in Subtree(tree, from) /\ to \notin Subtree(tree, from)
    /\ new[to] = Root(tree, from, g)
    /\ \A q \in Subtree(tree, from) : q # from => new[Rebase(q, from, to)] = tree[q]
    /\ \A x \in Staying(tree, from, to) : ~IsWithin(x, to) /\ new[x] = tree[x]

LEMMA MovedFacts ==
    ASSUME NEW tree, TreeOK(tree), NEW from, NEW to, CanMove(tree, from, to), NEW g
    PROVE  MovedFrom(tree, Moved(tree, from, to, g), from, to, g)
<1> DEFINE new == Moved(tree, from, to, g)
           moving == Subtree(tree, from)
           kept == Staying(tree, from, to)
           places == kept \cup {Rebase(q, from, to) : q \in moving}
<1>0. /\ from \in Path /\ to \in Path /\ Len(to) >= 2
      /\ \A q \in moving : q \in Path /\ q \in DOMAIN tree /\ IsWithin(q, from)
  BY Zenon DEF TreeOK, CanMove, HomeDescendant, Subtree
<1>1. new = [p \in places |-> IF p = to THEN Root(tree, from, g)
                              ELSE IF IsWithin(p, to) THEN tree[Rebase(p, to, from)] ELSE tree[p]]
  BY Zenon DEF Moved, Staying, Root
<1>2. from \in moving /\ to \notin moving
  BY <1>0, WithinOrder, Zenon DEF Subtree, CanMove
<1>3. \A x \in kept : ~IsWithin(x, to)
  <2>1. \A x \in DOMAIN tree : IsWithin(x, to) => x = to
    BY <1>0, NothingBelow, Zenon DEF CanMove
  <2> QED
    BY <2>1, Zenon DEF Staying
<1>4. \A q \in moving : IsWithin(Rebase(q, from, to), to) /\ Rebase(Rebase(q, from, to), to, from) = q
                         /\ (Rebase(q, from, to) = to <=> q = from)
  BY <1>0, RebaseBack
<1>5. to \in places
  <2>1. Rebase(from, from, to) = to
    BY <1>2, <1>4, Zenon
  <2> QED
    BY <1>2, <2>1, Zenon
<1>6. IsWithin(to, to)
  BY <1>0, WithinOrder, Zenon
<1> HIDE DEF new, moving, kept
<1>7. DOMAIN new = places /\ new = [x \in DOMAIN new |-> new[x]]
  BY <1>1, Zenon
<1>8. new[to] = Root(tree, from, g)
  BY <1>1, <1>5, Zenon
<1>9. ASSUME NEW q \in moving, q # from PROVE new[Rebase(q, from, to)] = tree[q]
  <2>1. Rebase(q, from, to) \in places
    BY Zenon
  <2> HIDE DEF places
  <2> QED
    BY <1>1, <1>4, <1>9, <2>1, Zenon
<1>10. ASSUME NEW x \in kept PROVE new[x] = tree[x]
  <2>1. x \in places /\ ~IsWithin(x, to) /\ x # to
    BY <1>3, <1>6, Zenon
  <2> HIDE DEF places
  <2> QED
    BY <1>1, <2>1, Zenon
<1> QED
  BY <1>2, <1>3, <1>7, <1>8, <1>9, <1>10, Zenon DEF MovedFrom, new, moving, kept

\* Nodes never lose their form when only their generation changes.
LEMMA RootIsNode ==
    ASSUME NEW tree, TreeOK(tree), NEW from \in DOMAIN tree, NEW g \in Nat
    PROVE  /\ IsNode(Root(tree, from, g))
           /\ Root(tree, from, g).kind = tree[from].kind
           /\ Root(tree, from, g).gen = g
           /\ Root(tree, from, g).object = tree[from].object
           /\ Root(tree, from, g).exec = tree[from].exec
<1> DEFINE n == tree[from]
           m == [n EXCEPT !.gen = g]
<1>1. IsNode(n)
  BY Zenon DEF TreeOK
<1>2. n \in [kind : {"directory", "file"}, gen : Nat, object : SUBSET Seq(Nat), exec : BOOLEAN]
  BY <1>1, Zenon DEF IsNode
<1> HIDE DEF n
<1>3. /\ m \in [kind : {"directory", "file"}, gen : Nat, object : SUBSET Seq(Nat), exec : BOOLEAN]
      /\ m.kind = n.kind /\ m.gen = g /\ m.object = n.object /\ m.exec = n.exec
  BY <1>2, Zenon
<1> HIDE DEF m
<1>4. IsNode(m)
  BY <1>1, <1>3, Zenon DEF IsNode, BytesOf
<1> QED
  BY <1>3, <1>4, Zenon DEF Root, m, n

LEMMA MovedTree ==
    ASSUME NEW tree, TreeOK(tree), NEW from, NEW to, CanMove(tree, from, to), NEW g \in Nat
    PROVE  TreeOK(Moved(tree, from, to, g))
<1> DEFINE new == Moved(tree, from, to, g)
           moving == Subtree(tree, from)
           kept == Staying(tree, from, to)
<1>0. /\ from \in Path /\ from \in DOMAIN tree /\ Len(from) >= 2
      /\ to \in Path /\ Len(to) >= 2 /\ to[1] = "home"
      /\ ~IsWithin(to, from) /\ IsDirectory(tree, Parent(to))
      /\ \A q \in moving : q \in Path /\ q \in DOMAIN tree /\ IsWithin(q, from)
      /\ \A x \in kept : x \in Path /\ x \in DOMAIN tree
  BY Zenon DEF TreeOK, CanMove, HomeDescendant, Subtree, Staying
<1>a. MovedFrom(tree, new, from, to, g)
  BY MovedFacts, Zenon
<1> HIDE DEF new
<1>1. /\ DOMAIN new = kept \cup {Rebase(q, from, to) : q \in moving}
      /\ new = [x \in DOMAIN new |-> new[x]]
      /\ from \in moving /\ to \notin moving
      /\ new[to] = Root(tree, from, g)
      /\ \A q \in moving : q # from => new[Rebase(q, from, to)] = tree[q]
      /\ \A x \in kept : ~IsWithin(x, to) /\ new[x] = tree[x]
  BY <1>a, Zenon DEF MovedFrom
<1>2. /\ IsNode(Root(tree, from, g)) /\ Root(tree, from, g).kind = tree[from].kind
  BY <1>0, RootIsNode, Zenon
<1>3. \A x \in DOMAIN tree : x \in moving <=> IsWithin(x, from)
  BY Zenon DEF Subtree
<1>4. \A x \in DOMAIN tree : x \in kept <=> x \notin moving /\ x # to
  BY Zenon DEF Staying
<1> HIDE DEF moving, kept
<1>5. \A q \in moving : IsWithin(Rebase(q, from, to), to) /\ Rebase(Rebase(q, from, to), to, from) = q
                         /\ (Rebase(q, from, to) = to <=> q = from)
  BY <1>0, RebaseBack
<1>6. \A q \in moving : /\ Rebase(q, from, to) \in Path /\ Len(Rebase(q, from, to)) >= 2
                        /\ Rebase(q, from, to)[1] = "home"
  <2> SUFFICES ASSUME NEW q \in moving
               PROVE  /\ Rebase(q, from, to) \in Path /\ Len(Rebase(q, from, to)) >= 2
                      /\ Rebase(q, from, to)[1] = "home"
    BY Zenon
  <2> DEFINE r == Rebase(q, from, to)
  <2>1. /\ r \in Path /\ Len(r) = Len(to) + (Len(q) - Len(from))
        /\ Len(q) - Len(from) \in Nat /\ \A i \in 1 .. Len(to) : r[i] = to[i]
    BY <1>0, RebaseFacts, Zenon
  <2> HIDE DEF r
  <2>2. Len(to) \in Nat
    BY <1>0, LenProperties, Zenon DEF Path
  <2>3. r \in Path /\ Len(r) >= 2 /\ r[1] = "home"
    BY <1>0, <2>1, <2>2
  <2> QED
    BY <2>3, Zenon DEF r
<1>7. ASSUME NEW q \in moving
      PROVE  IsNode(new[Rebase(q, from, to)]) /\ new[Rebase(q, from, to)].kind = tree[q].kind
  <2>1. IsNode(tree[q])
    BY <1>0, Zenon DEF TreeOK
  <2> QED
    BY <1>1, <1>2, <1>5, <2>1, Zenon
<1>8. \A x \in kept : IsNode(new[x]) /\ HomeDescendant(x)
  BY <1>0, <1>1, Zenon DEF TreeOK
<1>9. DOMAIN new \subseteq Path /\ \A x \in DOMAIN new : IsNode(new[x]) /\ HomeDescendant(x)
  BY <1>0, <1>1, <1>6, <1>7, <1>8, ZenonT(40) DEF HomeDescendant
\* A directory that is not moved and not replaced stays.
<1>10. ASSUME NEW q \in DOMAIN tree, tree[q].kind = "directory", ~IsWithin(q, from), q # to
       PROVE  q \in DOMAIN new /\ new[q].kind = "directory"
  BY <1>1, <1>3, <1>4, <1>10, Zenon
<1>11. ASSUME NEW x \in kept, NEW q \in Path, IsWithin(x, q), q # x, Len(q) >= 2
       PROVE  q \in DOMAIN new /\ new[q].kind = "directory"
  <2>1. q \in DOMAIN tree /\ tree[q].kind = "directory"
    BY <1>0, <1>11, AboveIsDirectory, Zenon
  <2>2. ~IsWithin(q, from)
    BY <1>0, <1>3, <1>4, <1>11, WithinOrder, Zenon
  <2>3. q # to
    BY <1>1, <1>11, Zenon
  <2> QED
    BY <1>10, <2>1, <2>2, <2>3, Zenon
<1>12. ASSUME NEW s \in moving, NEW q \in Path, IsWithin(Rebase(s, from, to), q),
              q # Rebase(s, from, to), Len(q) >= 2
       PROVE  q \in DOMAIN new /\ new[q].kind = "directory"
  <2> DEFINE x == Rebase(s, from, to)
  <2>0. x \in Path /\ IsWithin(x, to) /\ IsWithin(x, q) /\ q # x /\ Rebase(x, to, from) = s
    BY <1>5, <1>6, <1>12, Zenon
  <2> HIDE DEF x
  <2>1. CASE Len(q) < Len(to)
    <3>1. IsWithin(to, q)
      BY <1>0, <2>0, <2>1, LenProperties, WithinOrder DEF Path
    <3>2. q # to
      BY <1>0, <2>1, LenProperties DEF Path
    <3>3. q \in DOMAIN tree /\ tree[q].kind = "directory"
      BY <1>0, <1>12, <3>1, <3>2, UnderDirectory, Zenon
    <3>4. ~IsWithin(q, from)
      BY <1>0, <3>1, WithinOrder, Zenon
    <3> QED
      BY <1>10, <3>2, <3>3, <3>4, Zenon
  <2>2. CASE ~(Len(q) < Len(to))
    <3> DEFINE above == Rebase(q, to, from)
    <3>1. IsWithin(q, to)
      BY <1>0, <2>0, <2>2, LenProperties, WithinOrder DEF Path
    <3>2. IsWithin(above, from) /\ Rebase(above, from, to) = q
      BY <1>0, <3>1, RebaseBack, Zenon
    <3>3. above \in Path /\ Len(above) >= 2
      <4>1. /\ above \in Path /\ Len(above) = Len(from) + (Len(q) - Len(to))
            /\ Len(q) - Len(to) \in Nat
        BY <1>0, <3>1, RebaseFacts, Zenon
      <4>2. Len(from) \in Nat
        BY <1>0, LenProperties, Zenon DEF Path
      <4> HIDE DEF above
      <4> QED
        BY <1>0, <4>1, <4>2
    <3>4. IsWithin(s, above)
      BY <1>0, <2>0, <3>1, RebaseWithin, Zenon
    <3> HIDE DEF above
    <3>5. above # s
      BY <2>0, <3>2, Zenon DEF x
    <3>6. above \in DOMAIN tree /\ tree[above].kind = "directory"
      BY <1>0, <3>3, <3>4, <3>5, AboveIsDirectory, Zenon
    <3>7. above \in moving
      BY <1>3, <3>2, <3>6, Zenon
    <3> QED
      BY <1>1, <1>7, <3>2, <3>6, <3>7, Zenon
  <2> QED
    BY <2>1, <2>2, Zenon
<1>13. \A x \in DOMAIN new, q \in Path :
          IsWithin(x, q) /\ q # x /\ Len(q) >= 2 => q \in DOMAIN new /\ new[q].kind = "directory"
  BY <1>1, <1>11, <1>12
<1>14. TreeOK(new)
  BY <1>1, <1>9, <1>13, TreeFromPrefixes, Zenon
<1> QED
  BY <1>14, Zenon DEF new

--------------------------------------------------------------------------------
(* The steps of the tree *)

MadeDirectory(p) ==
    /\ p \in Path /\ HomeDescendant(p) /\ IsDirectory(home, Parent(p)) /\ p \notin DOMAIN home
    /\ home' = Extended(home, p, DirectoryNode(generation + 1))
    /\ objects' = objects
    /\ Publish(MakeDirectory(p))

Stored(p, bytes, exec) ==
    /\ p \in Path /\ HomeDescendant(p) /\ IsDirectory(home, Parent(p))
    /\ p \in DOMAIN home => home[p].kind = "file"
    /\ bytes \in Seq(Nat) /\ exec \in BOOLEAN
    /\ home' = Extended(home, p, FileNode(bytes, generation + 1, exec))
    /\ objects' = ObjectReplaced(objects, IF p \notin DOMAIN home THEN {} ELSE home[p].object, bytes)
    /\ Publish(PutFile(p, bytes, exec))

Dropped(p) == IF home[p].object = {} THEN objects ELSE ObjectRemoved(objects, BytesOf(home[p]))

Removed(p) ==
    /\ p \in DOMAIN home /\ EmptyDirectory(home, p)
    /\ home' = [q \in DOMAIN home \ {p} |-> home[q]]
    /\ objects' = Dropped(p)
    /\ Publish(RemoveNode(p))

Renamed(p, to, replace) ==
    /\ CanMove(home, p, to)
    /\ home' = Moved(home, p, to, generation + 1)
    /\ objects' = IF to \in DOMAIN home THEN Dropped(to) ELSE objects
    /\ Publish(RenameNode(p, to, replace))

Unmoved == UNCHANGED <<home, objects, generation, recovered>>

TreeStep ==
    \/ Unmoved
    \/ \E p : MadeDirectory(p)
    \/ \E p, bytes, exec : Stored(p, bytes, exec)
    \/ \E p : Removed(p)
    \/ \E p, to, replace : Renamed(p, to, replace)

\* A generation names one version of one node, and none is ahead of the tree's.
Versions ==
    /\ generation \in Nat
    /\ \A p \in DOMAIN home : home[p].gen <= generation
    /\ \A p, q \in DOMAIN home : home[p].gen = home[q].gen => home[p] = home[q]

\* What recovery accepts is the tree.
RecoveryExact ==
    /\ recovered = [ok |-> recovered.ok, gen |-> recovered.gen, nodes |-> recovered.nodes]
    /\ recovered.ok => recovered.gen = generation /\ recovered.nodes = home

\* A step makes one version, and only under the next generation.
OneNew ==
    \E node : \A q \in DOMAIN home' :
        \/ home'[q] = node /\ node.gen = generation + 1 /\ generation' = generation + 1
        \/ \E x \in DOMAIN home : home'[q] = home[x]

LEMMA NodeFacts ==
    ASSUME NEW g \in Nat
    PROVE  /\ IsNode(DirectoryNode(g)) /\ DirectoryNode(g).gen = g
           /\ DirectoryNode(g).object = {} /\ DirectoryNode(g).kind = "directory"
           /\ \A bytes \in Seq(Nat), exec \in BOOLEAN :
                /\ IsNode(FileNode(bytes, g, exec)) /\ FileNode(bytes, g, exec).gen = g
                /\ FileNode(bytes, g, exec).object = {bytes}
                /\ FileNode(bytes, g, exec).kind = "file"
<1>1. IsNode(DirectoryNode(g)) /\ DirectoryNode(g).gen = g
      /\ DirectoryNode(g).object = {} /\ DirectoryNode(g).kind = "directory"
  BY Zenon DEF IsNode, DirectoryNode
<1>2. ASSUME NEW bytes \in Seq(Nat), NEW exec \in BOOLEAN
      PROVE  /\ IsNode(FileNode(bytes, g, exec)) /\ FileNode(bytes, g, exec).gen = g
             /\ FileNode(bytes, g, exec).object = {bytes}
             /\ FileNode(bytes, g, exec).kind = "file"
  <2> DEFINE n == FileNode(bytes, g, exec)
  <2>1. /\ n \in [kind : {"directory", "file"}, gen : Nat, object : SUBSET Seq(Nat), exec : BOOLEAN]
        /\ n.gen = g /\ n.object = {bytes} /\ n.kind = "file"
    BY Zenon DEF FileNode
  <2> HIDE DEF n
  <2>2. BytesOf(n) = bytes
    BY <2>1, Zenon DEF BytesOf
  <2>3. IsNode(n)
    BY <2>1, <2>2, Zenon DEF IsNode
  <2> QED
    BY <2>1, <2>3, Zenon DEF n
<1> QED
  BY <1>1, <1>2, Zenon

\* The tree a step leaves is a tree.
LEMMA TreeKept ==
    ASSUME TreeOK(home), generation \in Nat, TreeStep
    PROVE  TreeOK(home')
<1>0. generation + 1 \in Nat
  OBVIOUS
<1>1. CASE Unmoved
  BY <1>1, Zenon DEF Unmoved
<1>2. ASSUME NEW p, MadeDirectory(p) PROVE TreeOK(home')
  BY <1>0, <1>2, PutTree, NodeFacts, Zenon DEF MadeDirectory
<1>3. ASSUME NEW p, NEW bytes, NEW exec, Stored(p, bytes, exec) PROVE TreeOK(home')
  BY <1>0, <1>3, PutTree, NodeFacts, Zenon DEF Stored
<1>4. ASSUME NEW p, Removed(p) PROVE TreeOK(home')
  BY <1>4, RemoveTree, Zenon DEF Removed
<1>5. ASSUME NEW p, NEW to, NEW replace, Renamed(p, to, replace) PROVE TreeOK(home')
  BY <1>0, <1>5, MovedTree, Zenon DEF Renamed
<1> QED
  BY <1>1, <1>2, <1>3, <1>4, <1>5, Zenon DEF TreeStep

LEMMA ExtendedNew ==
    ASSUME NEW p, NEW node, node.gen = generation + 1, generation' = generation + 1,
           home' = Extended(home, p, node)
    PROVE  OneNew
<1>1. \A q \in DOMAIN home' : home'[q] = node \/ \E x \in DOMAIN home : home'[q] = home[x]
  BY Zenon DEF Extended
<1> QED
  BY <1>1, Zenon DEF OneNew

LEMMA OneIsNew ==
    ASSUME TreeOK(home), generation \in Nat, TreeStep
    PROVE  OneNew /\ generation' \in {generation, generation + 1}
<1>0. generation + 1 \in Nat
  OBVIOUS
<1>1. CASE Unmoved
  <2>1. home' = home /\ generation' = generation
    BY <1>1, Zenon DEF Unmoved
  <2> QED
    BY <2>1, Zenon DEF OneNew
<1>2. ASSUME NEW p, MadeDirectory(p) PROVE OneNew /\ generation' = generation + 1
  BY <1>0, <1>2, NodeFacts, ExtendedNew, Zenon DEF MadeDirectory, Publish
<1>3. ASSUME NEW p, NEW bytes, NEW exec, Stored(p, bytes, exec)
      PROVE  OneNew /\ generation' = generation + 1
  BY <1>0, <1>3, NodeFacts, ExtendedNew DEF Stored, Publish
<1>4. ASSUME NEW p, Removed(p) PROVE OneNew /\ generation' = generation + 1
  <2>1. generation' = generation + 1 /\ \A q \in DOMAIN home' : q \in DOMAIN home /\ home'[q] = home[q]
    BY <1>4, Zenon DEF Removed, Publish
  <2> QED
    BY <2>1, Zenon DEF OneNew
<1>5. ASSUME NEW p, NEW to, NEW replace, Renamed(p, to, replace)
      PROVE  OneNew /\ generation' = generation + 1
  <2>1. MovedFrom(home, home', p, to, generation + 1) /\ generation' = generation + 1
    BY <1>5, MovedFacts, Zenon DEF Renamed, Publish
  <2>2. CanMove(home, p, to) /\ p \in DOMAIN home /\ to \in Path /\ p \in Path
    BY <1>5, Zenon DEF Renamed, CanMove, TreeOK
  <2>3. Root(home, p, generation + 1).gen = generation + 1
    BY <1>0, <2>2, RootIsNode, Zenon
  <2>4. ASSUME NEW q \in DOMAIN home'
        PROVE  home'[q] = Root(home, p, generation + 1) \/ \E x \in DOMAIN home : home'[q] = home[x]
    <3>1. CASE q \in Staying(home, p, to)
      BY <2>1, <3>1, Zenon DEF MovedFrom, Staying
    <3>2. ASSUME NEW s \in Subtree(home, p), q = Rebase(s, p, to)
          PROVE  home'[q] = Root(home, p, generation + 1) \/ \E x \in DOMAIN home : home'[q] = home[x]
      <4>1. CASE s = p
        <5>1. q = to
          BY <2>2, <3>2, <4>1, RebaseBack, WithinOrder, Zenon
        <5> QED
          BY <2>1, <5>1, Zenon DEF MovedFrom
      <4>2. CASE s # p
        BY <2>1, <3>2, <4>2, Zenon DEF MovedFrom, Subtree
      <4> QED
        BY <4>1, <4>2, Zenon
    <3> QED
      BY <2>1, <3>1, <3>2, Zenon DEF MovedFrom
  <2> QED
    BY <2>1, <2>3, <2>4, Zenon DEF OneNew
<1> QED
  BY <1>1, <1>2, <1>3, <1>4, <1>5, Zenon DEF TreeStep, Unmoved

LEMMA VersionsKept ==
    ASSUME TreeOK(home), Versions, TreeStep
    PROVE  /\ Versions'
           /\ \A p \in DOMAIN home, q \in DOMAIN home' :
                 home[p].gen = home'[q].gen => home[p] = home'[q]
<1>1. OneNew /\ generation' \in {generation, generation + 1} /\ generation \in Nat
  BY OneIsNew, Zenon DEF Versions
<1>2. PICK node : \A q \in DOMAIN home' :
        \/ home'[q] = node /\ node.gen = generation + 1 /\ generation' = generation + 1
        \/ \E x \in DOMAIN home : home'[q] = home[x]
  BY <1>1, Zenon DEF OneNew
<1>3. \A p \in DOMAIN home : home[p].gen \in Nat /\ home[p].gen <= generation
  BY Zenon DEF TreeOK, IsNode, Versions
<1>4. \A q \in DOMAIN home' : home'[q].gen <= generation'
  BY <1>1, <1>2, <1>3
<1>5. \A p \in DOMAIN home : home[p].gen # generation + 1
  BY <1>1, <1>3
<1>o. \A p, q \in DOMAIN home : home[p].gen = home[q].gen => home[p] = home[q]
  BY Zenon DEF Versions
<1>6. ASSUME NEW p \in DOMAIN home, NEW q \in DOMAIN home', home[p].gen = home'[q].gen
      PROVE  home[p] = home'[q]
  <2>1. home'[q].gen # generation + 1
    BY <1>5, <1>6, Zenon
  <2>2. PICK x \in DOMAIN home : home'[q] = home[x]
    BY <1>2, <2>1, Zenon
  <2>3. home[p].gen = home[x].gen
    BY <1>6, <2>2, Zenon
  <2> QED
    BY <1>o, <2>2, <2>3, Zenon
<1>7. ASSUME NEW p \in DOMAIN home', NEW q \in DOMAIN home', home'[p].gen = home'[q].gen
      PROVE  home'[p] = home'[q]
  <2>1. CASE \E x \in DOMAIN home : home'[p] = home[x]
    <3>1. PICK x \in DOMAIN home : home'[p] = home[x]
      BY <2>1, Zenon
    <3>2. home[x].gen = home'[q].gen
      BY <1>7, <3>1, Zenon
    <3>3. home[x] = home'[q]
      BY <1>6, <3>2, Zenon
    <3> QED
      BY <3>1, <3>3, Zenon
  <2>2. CASE \E x \in DOMAIN home : home'[q] = home[x]
    <3>1. PICK x \in DOMAIN home : home'[q] = home[x]
      BY <2>2, Zenon
    <3>2. home[x].gen = home'[p].gen
      BY <1>7, <3>1, Zenon
    <3>3. home[x] = home'[p]
      BY <1>6, <3>2, Zenon
    <3> QED
      BY <3>1, <3>3, Zenon
  <2> QED
    BY <1>2, <2>1, <2>2, Zenon
<1>8. generation' \in Nat
  BY <1>1
<1> QED
  BY <1>4, <1>6, <1>7, <1>8, Zenon DEF Versions

LEMMA AppliedMake ==
    ASSUME NEW nodes, NEW g, NEW p
    PROVE  Applied(nodes, MakeDirectory(p), g) = Extended(nodes, p, DirectoryNode(g))
<1> DEFINE op == MakeDirectory(p)
<1>1. op.op = "mkdir" /\ op.path = p
  BY Zenon DEF MakeDirectory
<1> HIDE DEF op
<1>2. Applied(nodes, op, g) = Extended(nodes, p, DirectoryNode(g))
  BY <1>1, Zenon DEF Applied
<1> QED
  BY <1>2, Zenon DEF op

LEMMA AppliedPut ==
    ASSUME NEW nodes, NEW g, NEW p, NEW bytes, NEW exec
    PROVE  Applied(nodes, PutFile(p, bytes, exec), g) = Extended(nodes, p, FileNode(bytes, g, exec))
<1> DEFINE op == PutFile(p, bytes, exec)
<1>1. op.op = "put" /\ op.path = p /\ op.bytes = bytes /\ op.exec = exec
  BY Zenon DEF PutFile
<1> HIDE DEF op
<1>2. Applied(nodes, op, g) = Extended(nodes, p, FileNode(bytes, g, exec))
  BY <1>1, Zenon DEF Applied
<1> QED
  BY <1>2, Zenon DEF op

LEMMA AppliedRemove ==
    ASSUME NEW p
    PROVE  Applied(home, RemoveNode(p), generation + 1) = [q \in DOMAIN home \ {p} |-> home[q]]
<1> DEFINE op == RemoveNode(p)
<1>1. op.op = "remove" /\ op.path = p
  BY Zenon DEF RemoveNode
<1> HIDE DEF op
<1>2. Applied(home, op, generation + 1) = [q \in DOMAIN home \ {p} |-> home[q]]
  BY <1>1, Zenon DEF Applied
<1> QED
  BY <1>2, Zenon DEF op

LEMMA AppliedRename ==
    ASSUME NEW nodes, NEW g, NEW p, NEW to, NEW replace
    PROVE  Applied(nodes, RenameNode(p, to, replace), g) = Moved(nodes, p, to, g)
<1> DEFINE op == RenameNode(p, to, replace)
<1>1. op.op = "rename" /\ op.path = p /\ op.to = to
  BY Zenon DEF RenameNode
<1> HIDE DEF op
<1>2. Applied(nodes, op, g) = Moved(nodes, p, to, g)
  BY <1>1, Zenon DEF Applied
<1> QED
  BY <1>2, Zenon DEF op

LEMMA PublishedExactly ==
    ASSUME RecoveryExact, NEW op, Publish(op), home' = Applied(home, op, generation + 1)
    PROVE  RecoveryExact'
<1>1. recovered' = Replayed(recovered, op, generation + 1) /\ generation' = generation + 1
  BY Zenon DEF Publish
<1>2. CASE /\ recovered.ok /\ generation + 1 = recovered.gen + 1 /\ Canonical(op)
           /\ Applicable(recovered.nodes, op)
           /\ WithinLimits(Applied(recovered.nodes, op, generation + 1))
  <2>1. recovered' = [ok |-> TRUE, gen |-> generation + 1,
                      nodes |-> Applied(recovered.nodes, op, generation + 1)]
    BY <1>1, <1>2, Zenon DEF Replayed
  <2>2. recovered.nodes = home
    BY <1>2, Zenon DEF RecoveryExact
  <2> QED
    BY <1>1, <2>1, <2>2 DEF RecoveryExact
<1>3. CASE ~(/\ recovered.ok /\ generation + 1 = recovered.gen + 1 /\ Canonical(op)
             /\ Applicable(recovered.nodes, op)
             /\ WithinLimits(Applied(recovered.nodes, op, generation + 1)))
  <2>1. recovered' = [recovered EXCEPT !.ok = FALSE]
    BY <1>1, <1>3, Zenon DEF Replayed
  <2> QED
    BY <2>1, Zenon DEF RecoveryExact
<1> QED
  BY <1>2, <1>3, Zenon

LEMMA RecoveryKept ==
    ASSUME RecoveryExact, TreeStep
    PROVE  RecoveryExact'
<1>1. CASE Unmoved
  BY <1>1, Zenon DEF Unmoved, RecoveryExact
<1>2. ASSUME NEW p, MadeDirectory(p) PROVE RecoveryExact'
  <2>1. Publish(MakeDirectory(p)) /\ home' = Applied(home, MakeDirectory(p), generation + 1)
    BY <1>2, AppliedMake, Zenon DEF MadeDirectory
  <2> QED
    BY <2>1, PublishedExactly, Zenon
<1>3. ASSUME NEW p, NEW bytes, NEW exec, Stored(p, bytes, exec) PROVE RecoveryExact'
  <2>1. Publish(PutFile(p, bytes, exec)) /\ home' = Applied(home, PutFile(p, bytes, exec), generation + 1)
    BY <1>3, AppliedPut, Zenon DEF Stored
  <2> QED
    BY <2>1, PublishedExactly, Zenon
<1>4. ASSUME NEW p, Removed(p) PROVE RecoveryExact'
  <2>1. Publish(RemoveNode(p)) /\ home' = Applied(home, RemoveNode(p), generation + 1)
    <3>1. Publish(RemoveNode(p)) /\ home' = [q \in DOMAIN home \ {p} |-> home[q]]
      BY <1>4, Zenon DEF Removed
    <3>2. Applied(home, RemoveNode(p), generation + 1) = [q \in DOMAIN home \ {p} |-> home[q]]
      BY AppliedRemove, Zenon
    <3> QED
      BY <3>1, <3>2, Zenon
  <2> QED
    BY <2>1, PublishedExactly, Zenon
<1>5. ASSUME NEW p, NEW to, NEW replace, Renamed(p, to, replace) PROVE RecoveryExact'
  <2>1. Publish(RenameNode(p, to, replace)) /\ home' = Applied(home, RenameNode(p, to, replace), generation + 1)
    BY <1>5, AppliedRename, Zenon DEF Renamed
  <2> QED
    BY <2>1, PublishedExactly, Zenon
<1> QED
  BY <1>1, <1>2, <1>3, <1>4, <1>5, Zenon DEF TreeStep

--------------------------------------------------------------------------------
(* The object store counts the references of the tree and of the ROM *)

Holders(tree, o) == {p \in DOMAIN tree : o \in tree[p].object}
Holds(tree, p, o) == IF p \in DOMAIN tree /\ o \in tree[p].object THEN 1 ELSE 0
Counted(tree, o) == References(tree, o) + References(Rom, o)

\* The store is a function that holds what is counted, and counts it.
StoreOf(store, tree) ==
    /\ store = [o \in DOMAIN store |-> store[o]]
    /\ \A o : o \in DOMAIN store <=> Counted(tree, o) > 0
    /\ \A o \in DOMAIN store : store[o] = Counted(tree, o)

LEMMA ReferencesCount ==
    ASSUME NEW tree, IsFiniteSet(DOMAIN tree), NEW o
    PROVE  /\ IsFiniteSet(Holders(tree, o))
           /\ References(tree, o) = Cardinality(Holders(tree, o))
           /\ References(tree, o) \in Nat
           /\ References(tree, o) > 0 <=> \E p \in DOMAIN tree : o \in tree[p].object
<1>1. Holders(tree, o) \in SUBSET DOMAIN tree
  BY Zenon DEF Holders
<1>2. IsFiniteSet(Holders(tree, o))
  BY <1>1, FS_Subset, Zenon
<1>3. References(tree, o) = Cardinality(Holders(tree, o))
  BY Zenon DEF References, Holders
<1>4. Cardinality(Holders(tree, o)) \in Nat
  BY <1>2, FS_CardinalityType, Zenon
<1>5. Cardinality(Holders(tree, o)) = 0 <=> Holders(tree, o) = {}
  BY <1>2, FS_EmptySet, Zenon
<1>6. Holders(tree, o) # {} <=> \E p \in DOMAIN tree : o \in tree[p].object
  BY Zenon DEF Holders
<1> QED
  BY <1>2, <1>3, <1>4, <1>5, <1>6

LEMMA CountedNat ==
    ASSUME NEW tree, IsFiniteSet(DOMAIN tree), NEW o
    PROVE  /\ Counted(tree, o) \in Nat
           /\ Counted(tree, o) > 0 <=> \/ \E p \in DOMAIN tree : o \in tree[p].object
                                       \/ \E p \in DOMAIN Rom : o \in Rom[p].object
<1>1. /\ References(tree, o) \in Nat /\ References(Rom, o) \in Nat
      /\ References(tree, o) > 0 <=> \E p \in DOMAIN tree : o \in tree[p].object
      /\ References(Rom, o) > 0 <=> \E p \in DOMAIN Rom : o \in Rom[p].object
  BY RomIsATree, ReferencesCount, Zenon
<1>2. /\ Counted(tree, o) \in Nat
      /\ Counted(tree, o) > 0 <=> References(tree, o) > 0 \/ References(Rom, o) > 0
  BY <1>1 DEF Counted
<1> QED
  BY <1>1, <1>2, Zenon

LEMMA StoreForIs ==
    ASSUME NEW tree, IsFiniteSet(DOMAIN tree), NEW store
    PROVE  store = StoreFor(tree) <=> StoreOf(store, tree)
<1> DEFINE mine == UNION {tree[p].object : p \in DOMAIN tree}
           given == UNION {Rom[p].object : p \in DOMAIN Rom}
           all == mine \cup given
<1>1. \A o : o \in all <=> \/ \E p \in DOMAIN tree : o \in tree[p].object
                           \/ \E p \in DOMAIN Rom : o \in Rom[p].object
  <2>1. ASSUME NEW nodes, NEW o
        PROVE  o \in UNION {nodes[p].object : p \in DOMAIN nodes} <=> \E p \in DOMAIN nodes : o \in nodes[p].object
    BY Zenon
  <2>2. \A o : o \in mine <=> \E p \in DOMAIN tree : o \in tree[p].object
    BY <2>1, Zenon
  <2>3. \A o : o \in given <=> \E p \in DOMAIN Rom : o \in Rom[p].object
    BY <2>1, Zenon
  <2>4. all = mine \cup given
    BY Zenon
  <2> HIDE DEF mine, given, all
  <2> QED
    BY <2>2, <2>3, <2>4, Zenon
<1>2. \A o : o \in all <=> Counted(tree, o) > 0
  BY <1>1, CountedNat, Zenon
<1>3. StoreFor(tree) = [o \in all |-> Counted(tree, o)]
  <2>1. StoreFor(tree) = [o \in all |-> References(tree, o) + References(Rom, o)]
    BY Zenon DEF StoreFor
  <2> HIDE DEF all
  <2> QED
    BY <2>1, Zenon DEF Counted
<1> HIDE DEF all
<1>4. ASSUME store = StoreFor(tree) PROVE StoreOf(store, tree)
  <2>1. store = [o \in all |-> Counted(tree, o)]
    BY <1>3, <1>4, Zenon
  <2> QED
    BY <1>2, <2>1, Zenon DEF StoreOf
<1>5. ASSUME StoreOf(store, tree) PROVE store = StoreFor(tree)
  <2>1. DOMAIN store = all
    BY <1>2, <1>5, Zenon DEF StoreOf
  <2>2. store = [o \in all |-> store[o]] /\ \A o \in all : store[o] = Counted(tree, o)
    BY <1>5, <2>1, Zenon DEF StoreOf
  <2>3. store = [o \in all |-> Counted(tree, o)]
    BY <2>2, Zenon
  <2> QED
    BY <1>3, <2>3, Zenon
<1> QED
  BY <1>4, <1>5, Zenon

\* Dropping one reference of an object.
LEMMA RemovedStore ==
    ASSUME NEW tree, NEW new, IsFiniteSet(DOMAIN tree), IsFiniteSet(DOMAIN new),
           NEW store, StoreOf(store, tree), NEW o,
           Counted(tree, o) = Counted(new, o) + 1,
           \A x : x # o => Counted(new, x) = Counted(tree, x)
    PROVE  StoreOf(ObjectRemoved(store, o), new)
<1>1. \A x : Counted(tree, x) \in Nat /\ Counted(new, x) \in Nat
  BY CountedNat, Zenon
<1>2. o \in DOMAIN store /\ store[o] = Counted(new, o) + 1
  BY <1>1 DEF StoreOf
<1>3. CASE store[o] = 1
  <2>1. ObjectRemoved(store, o) = [x \in DOMAIN store \ {o} |-> store[x]]
    BY <1>3, Zenon DEF ObjectRemoved
  <2> QED
    BY <1>1, <1>2, <1>3, <2>1 DEF StoreOf
<1>4. CASE store[o] # 1
  <2>1. ObjectRemoved(store, o) = [store EXCEPT ![o] = @ - 1]
    BY <1>4, Zenon DEF ObjectRemoved
  <2> DEFINE less == ObjectRemoved(store, o)
  <2>2. /\ store = [x \in DOMAIN store |-> store[x]]
        /\ \A x : x \in DOMAIN store <=> Counted(tree, x) > 0
        /\ \A x \in DOMAIN store : store[x] = Counted(tree, x)
    BY Zenon DEF StoreOf
  <2>3. less = [x \in DOMAIN store |-> IF x = o THEN store[o] - 1 ELSE store[x]]
    BY <1>2, <2>1, <2>2, Zenon
  <2> HIDE DEF less
  <2>4. DOMAIN less = DOMAIN store /\ less = [x \in DOMAIN less |-> less[x]]
    BY <2>3, Zenon
  <2>5. \A x \in DOMAIN less : less[x] = Counted(new, x)
    BY <1>1, <1>2, <2>2, <2>3
  <2>6. Counted(new, o) > 0
    BY <1>1, <1>2, <1>4
  <2>7. \A x : x \in DOMAIN less <=> Counted(new, x) > 0
    BY <1>2, <2>2, <2>4, <2>6, Zenon
  <2> QED
    BY <2>4, <2>5, <2>7, Zenon DEF StoreOf, less
<1> QED
  BY <1>3, <1>4, Zenon

\* Adding one.
LEMMA AddedStore ==
    ASSUME NEW tree, NEW new, IsFiniteSet(DOMAIN tree), IsFiniteSet(DOMAIN new),
           NEW store, StoreOf(store, tree), NEW o,
           Counted(new, o) = Counted(tree, o) + 1,
           \A x : x # o => Counted(new, x) = Counted(tree, x)
    PROVE  StoreOf(Extended(store, o, (IF o \in DOMAIN store THEN store[o] ELSE 0) + 1), new)
<1>1. \A x : Counted(tree, x) \in Nat /\ Counted(new, x) \in Nat
  BY CountedNat, Zenon
<1>2. (IF o \in DOMAIN store THEN store[o] ELSE 0) + 1 = Counted(new, o)
  BY <1>1 DEF StoreOf
<1>3. StoreOf(Extended(store, o, Counted(new, o)), new)
  BY <1>1 DEF StoreOf, Extended
<1> QED
  BY <1>2, <1>3, Zenon

\* The trees that differ at one path differ in the references of that path.
LEMMA OnePathCounts ==
    ASSUME NEW tree, NEW new, IsFiniteSet(DOMAIN tree), IsFiniteSet(DOMAIN new), NEW p,
           DOMAIN new \ {p} = DOMAIN tree \ {p},
           \A q \in DOMAIN tree \ {p} : new[q].object = tree[q].object,
           NEW o
    PROVE  Counted(new, o) + Holds(tree, p, o) = Counted(tree, o) + Holds(new, p, o)
<1>1. Holders(new, o) \ {p} = Holders(tree, o) \ {p}
  BY DEF Holders
<1>2. /\ References(tree, o) \in Nat /\ References(new, o) \in Nat /\ References(Rom, o) \in Nat
      /\ References(tree, o) = Cardinality(Holders(tree, o))
      /\ References(new, o) = Cardinality(Holders(new, o))
      /\ IsFiniteSet(Holders(tree, o)) /\ IsFiniteSet(Holders(new, o))
  BY RomIsATree, ReferencesCount, Zenon
<1>3. /\ Cardinality(Holders(tree, o) \ {p}) =
            IF p \in Holders(tree, o) THEN Cardinality(Holders(tree, o)) - 1
            ELSE Cardinality(Holders(tree, o))
      /\ Cardinality(Holders(new, o) \ {p}) =
            IF p \in Holders(new, o) THEN Cardinality(Holders(new, o)) - 1
            ELSE Cardinality(Holders(new, o))
  BY <1>2, FS_RemoveElement, Zenon
<1>4. /\ p \in Holders(tree, o) <=> Holds(tree, p, o) = 1
      /\ p \notin Holders(tree, o) <=> Holds(tree, p, o) = 0
      /\ p \in Holders(new, o) <=> Holds(new, p, o) = 1
      /\ p \notin Holders(new, o) <=> Holds(new, p, o) = 0
  BY DEF Holders, Holds
<1>5. References(new, o) + Holds(tree, p, o) = References(tree, o) + Holds(new, p, o)
  BY <1>1, <1>2, <1>3, <1>4
<1>6. Holds(tree, p, o) \in Nat /\ Holds(new, p, o) \in Nat
  BY Zenon DEF Holds
<1> QED
  BY <1>2, <1>5, <1>6 DEF Counted

\* Where a node of the tree goes when `from` becomes `to`.
Place(tree, from, to, q) == IF q \in Subtree(tree, from) THEN Rebase(q, from, to) ELSE q

LEMMA PlaceFacts ==
    ASSUME NEW tree, TreeOK(tree), NEW from, NEW to, CanMove(tree, from, to), NEW g \in Nat,
           NEW new, new = Moved(tree, from, to, g)
    PROVE  /\ \A q \in DOMAIN tree \ {to} :
                 /\ Place(tree, from, to, q) \in DOMAIN new
                 /\ new[Place(tree, from, to, q)].object = tree[q].object
           /\ \A x \in DOMAIN new : \E q \in DOMAIN tree \ {to} : x = Place(tree, from, to, q)
           /\ \A q, x \in DOMAIN tree \ {to} :
                 Place(tree, from, to, q) = Place(tree, from, to, x) => q = x
<1>1. MovedFrom(tree, new, from, to, g)
  BY MovedFacts, Zenon
<1>2. /\ from \in DOMAIN tree /\ from \in Path /\ to \in Path
      /\ \A q \in Subtree(tree, from) : q \in Path /\ q \in DOMAIN tree /\ IsWithin(q, from)
  BY Zenon DEF TreeOK, CanMove, Subtree
<1>3. Root(tree, from, g).object = tree[from].object
  BY <1>2, RootIsNode, Zenon
<1>4. ASSUME NEW q \in Subtree(tree, from)
      PROVE  /\ Rebase(q, from, to) \in DOMAIN new
             /\ new[Rebase(q, from, to)].object = tree[q].object
             /\ IsWithin(Rebase(q, from, to), to)
             /\ Rebase(Rebase(q, from, to), to, from) = q
  <2>1. /\ IsWithin(Rebase(q, from, to), to) /\ Rebase(Rebase(q, from, to), to, from) = q
        /\ q = from => Rebase(q, from, to) = to
    BY <1>2, RebaseBack
  <2>2. Rebase(q, from, to) \in DOMAIN new
    BY <1>1, Zenon DEF MovedFrom
  <2>3. new[Rebase(q, from, to)].object = tree[q].object
    BY <1>1, <1>3, <2>1, Zenon DEF MovedFrom
  <2> QED
    BY <2>1, <2>2, <2>3, Zenon
<1>5. ASSUME NEW q \in Staying(tree, from, to)
      PROVE  q \in DOMAIN new /\ new[q].object = tree[q].object /\ ~IsWithin(q, to)
  BY <1>1, Zenon DEF MovedFrom
<1>6. ASSUME NEW q \in DOMAIN tree \ {to}
      PROVE  \/ q \in Subtree(tree, from) /\ Place(tree, from, to, q) = Rebase(q, from, to)
             \/ /\ q \notin Subtree(tree, from) /\ q \in Staying(tree, from, to)
                /\ Place(tree, from, to, q) = q
  BY Zenon DEF Place, Staying
<1>7. \A q \in DOMAIN tree \ {to} :
        /\ Place(tree, from, to, q) \in DOMAIN new
        /\ new[Place(tree, from, to, q)].object = tree[q].object
  <2>1. SUFFICES ASSUME NEW q \in DOMAIN tree \ {to}
                 PROVE  /\ Place(tree, from, to, q) \in DOMAIN new
                        /\ new[Place(tree, from, to, q)].object = tree[q].object
    BY Zenon
  <2>2. CASE q \in Subtree(tree, from)
    <3>1. Place(tree, from, to, q) = Rebase(q, from, to)
      BY <2>2, Zenon DEF Place
    <3> QED
      BY <1>4, <2>2, <3>1, Zenon
  <2>3. CASE q \notin Subtree(tree, from)
    <3>1. Place(tree, from, to, q) = q /\ q \in Staying(tree, from, to)
      BY <1>6, <2>3, Zenon
    <3> QED
      BY <1>5, <3>1, Zenon
  <2> QED
    BY <2>2, <2>3, Zenon
<1>8. \A q, x \in DOMAIN tree \ {to} : Place(tree, from, to, q) = Place(tree, from, to, x) => q = x
  <2>1. SUFFICES ASSUME NEW q \in DOMAIN tree \ {to}, NEW x \in DOMAIN tree \ {to},
                        Place(tree, from, to, q) = Place(tree, from, to, x)
                 PROVE  q = x
    BY Zenon
  <2>2. CASE q \in Subtree(tree, from) /\ x \in Subtree(tree, from)
    BY <1>4, <1>6, <2>1, <2>2
  <2>3. CASE q \in Subtree(tree, from) /\ x \notin Subtree(tree, from)
    BY <1>4, <1>5, <1>6, <2>1, <2>3
  <2>4. CASE q \notin Subtree(tree, from) /\ x \in Subtree(tree, from)
    BY <1>4, <1>5, <1>6, <2>1, <2>4
  <2>5. CASE q \notin Subtree(tree, from) /\ x \notin Subtree(tree, from)
    BY <1>6, <2>1, <2>5, Zenon
  <2> QED
    BY <2>2, <2>3, <2>4, <2>5, Zenon
<1>9. ASSUME NEW x \in DOMAIN new PROVE \E q \in DOMAIN tree \ {to} : x = Place(tree, from, to, q)
  <2>1. CASE x \in Staying(tree, from, to)
    <3>1. x \in DOMAIN tree \ {to} /\ Place(tree, from, to, x) = x
      BY <2>1, Zenon DEF Staying, Place
    <3> QED
      BY <3>1, Zenon
  <2>2. ASSUME NEW q \in Subtree(tree, from), x = Rebase(q, from, to)
        PROVE  \E y \in DOMAIN tree \ {to} : x = Place(tree, from, to, y)
    <3>1. q \in DOMAIN tree \ {to} /\ Place(tree, from, to, q) = x
      BY <1>1, <1>2, <2>2, Zenon DEF MovedFrom, Place
    <3> QED
      BY <3>1, Zenon
  <2> QED
    BY <1>1, <2>1, <2>2, Zenon DEF MovedFrom
<1> QED
  BY <1>7, <1>8, <1>9, Zenon

\* The image of a finite set of nodes has as many.
LEMMA MovedImage ==
    ASSUME NEW tree, NEW from, NEW to, NEW A, IsFiniteSet(A), NEW B,
           \A q, x \in A : Place(tree, from, to, q) = Place(tree, from, to, x) => q = x,
           \A q \in A : Place(tree, from, to, q) \in B,
           \A x \in B : \E q \in A : x = Place(tree, from, to, q)
    PROVE  IsFiniteSet(B) /\ Cardinality(B) = Cardinality(A)
<1> DEFINE shift == [q \in A |-> Place(tree, from, to, q)]
<1>1. shift \in [A -> B]
  BY Zenon
<1>2. \A q, x \in A : shift[q] = shift[x] => q = x
  BY Zenon
<1>3. ASSUME NEW x \in B PROVE \E q \in A : shift[q] = x
  <2>1. PICK q \in A : x = Place(tree, from, to, q)
    BY Zenon
  <2>2. shift[q] = x
    BY <2>1, Zenon
  <2> QED
    BY <2>2, Zenon
<1> HIDE DEF shift
<1>4. shift \in Bijection(A, B)
  BY <1>1, <1>2, <1>3 DEF Bijection, Injection, Surjection, IsInjective
<1>5. ExistsBijection(A, B)
  BY <1>4, Zenon DEF ExistsBijection
<1> QED
  BY <1>5, FS_Bijection, Zenon

\* A move keeps every reference but those of the node that gave way.
LEMMA MovedCounts ==
    ASSUME NEW tree, TreeOK(tree), IsFiniteSet(DOMAIN tree),
           NEW from, NEW to, CanMove(tree, from, to), NEW g \in Nat,
           NEW new, new = Moved(tree, from, to, g)
    PROVE  /\ IsFiniteSet(DOMAIN new)
           /\ \A o : Counted(new, o) + Holds(tree, to, o) = Counted(tree, o)
<1>1. IsFiniteSet(DOMAIN new)
  <2> DEFINE rest == DOMAIN tree \ {to}
  <2>1. IsFiniteSet(rest)
    BY FS_RemoveElement, Zenon
  <2>2. /\ \A q, x \in rest : Place(tree, from, to, q) = Place(tree, from, to, x) => q = x
        /\ \A q \in rest : Place(tree, from, to, q) \in DOMAIN new
        /\ \A x \in DOMAIN new : \E q \in rest : x = Place(tree, from, to, q)
    BY PlaceFacts
  <2> HIDE DEF rest
  <2> QED
    BY <2>1, <2>2, MovedImage, Zenon
<1>2. ASSUME NEW o PROVE Counted(new, o) + Holds(tree, to, o) = Counted(tree, o)
  <2> DEFINE left == Holders(tree, o) \ {to}
  <2>1. /\ IsFiniteSet(Holders(tree, o)) /\ References(tree, o) = Cardinality(Holders(tree, o))
        /\ References(tree, o) \in Nat /\ References(Rom, o) \in Nat
    BY RomIsATree, ReferencesCount, Zenon
  <2>2. /\ IsFiniteSet(left)
        /\ Cardinality(left) = IF to \in Holders(tree, o) THEN References(tree, o) - 1
                               ELSE References(tree, o)
    BY <2>1, FS_RemoveElement, Zenon
  <2>3. \A q, x \in left : Place(tree, from, to, q) = Place(tree, from, to, x) => q = x
    BY PlaceFacts DEF Holders
  <2>4. \A q \in left : Place(tree, from, to, q) \in Holders(new, o)
    BY PlaceFacts DEF Holders
  <2>5. \A x \in Holders(new, o) : \E q \in left : x = Place(tree, from, to, q)
    <3>1. SUFFICES ASSUME NEW x \in DOMAIN new, o \in new[x].object
                   PROVE  \E q \in left : x = Place(tree, from, to, q)
      BY Zenon DEF Holders
    <3>2. PICK q \in DOMAIN tree \ {to} : x = Place(tree, from, to, q)
      BY PlaceFacts
    <3>3. q \in left
      BY <3>1, <3>2, PlaceFacts DEF Holders
    <3> QED
      BY <3>2, <3>3, Zenon
  <2>6. Holds(tree, to, o) = IF to \in Holders(tree, o) THEN 1 ELSE 0
    BY Zenon DEF Holds, Holders
  <2>7. References(new, o) = Cardinality(Holders(new, o))
    BY Zenon DEF References, Holders
  <2> HIDE DEF left
  <2>8. IsFiniteSet(Holders(new, o)) /\ Cardinality(Holders(new, o)) = Cardinality(left)
    BY <2>2, <2>3, <2>4, <2>5, MovedImage
  <2>9. /\ References(new, o) + Holds(tree, to, o) = References(tree, o)
        /\ References(new, o) \in Int /\ Holds(tree, to, o) \in Nat
    BY <2>1, <2>2, <2>6, <2>7, <2>8
  <2> QED
    BY <2>1, <2>9 DEF Counted
<1> QED
  BY <1>1, <1>2, Zenon

ObjectsExact == IsFiniteSet(DOMAIN home) /\ objects = StoreFor(home)

LEMMA DroppedStore ==
    ASSUME TreeOK(home), ObjectsExact, NEW p \in DOMAIN home, NEW new, IsFiniteSet(DOMAIN new),
           \A o : Counted(new, o) + Holds(home, p, o) = Counted(home, o)
    PROVE  StoreOf(Dropped(p), new)
<1>1. StoreOf(objects, home)
  BY StoreForIs, Zenon DEF ObjectsExact
<1>2. \A o : Counted(new, o) \in Nat /\ Counted(home, o) \in Nat
  BY CountedNat, Zenon DEF ObjectsExact
<1>3. CASE home[p].object = {}
  <2>1. \A o : Holds(home, p, o) = 0
    BY <1>3, Zenon DEF Holds
  <2>2. \A o : Counted(new, o) = Counted(home, o)
    BY <1>2, <2>1
  <2> QED
    BY <1>1, <1>3, <2>2, Zenon DEF StoreOf, Dropped
<1>4. CASE home[p].object # {}
  <2>1. home[p].object = {BytesOf(home[p])}
    BY <1>4, Zenon DEF TreeOK, IsNode
  <2> DEFINE b == BytesOf(home[p])
  <2> HIDE DEF b
  <2>2. \A o : Holds(home, p, o) = IF o = b THEN 1 ELSE 0
    BY <2>1, Zenon DEF Holds, b
  <2>3. Counted(home, b) = Counted(new, b) + 1 /\ \A x : x # b => Counted(new, x) = Counted(home, x)
    BY <1>2, <2>2
  <2>4. StoreOf(ObjectRemoved(objects, b), new)
    BY <1>1, <2>3, RemovedStore, Zenon DEF ObjectsExact
  <2> QED
    BY <1>4, <2>4, Zenon DEF Dropped, b
<1> QED
  BY <1>3, <1>4, Zenon

LEMMA ReplacedStore ==
    ASSUME TreeOK(home), ObjectsExact, NEW p, NEW bytes \in Seq(Nat), NEW exec \in BOOLEAN,
           p \in DOMAIN home => home[p].kind = "file", generation \in Nat,
           NEW new, new = Extended(home, p, FileNode(bytes, generation + 1, exec))
    PROVE  /\ IsFiniteSet(DOMAIN new)
           /\ StoreOf(ObjectReplaced(objects, IF p \notin DOMAIN home THEN {} ELSE home[p].object, bytes),
                      new)
<1> DEFINE previous == IF p \notin DOMAIN home THEN {} ELSE home[p].object
<1>0. /\ StoreOf(objects, home) /\ IsFiniteSet(DOMAIN home) /\ IsFiniteSet(DOMAIN home \cup {p})
  BY StoreForIs, FS_AddElement, Zenon DEF ObjectsExact
<1>a. generation + 1 \in Nat
  OBVIOUS
<1>1. FileNode(bytes, generation + 1, exec).object = {bytes}
  BY DEF FileNode
<1>2. DOMAIN new = DOMAIN home \cup {p} /\ \A q \in DOMAIN home \ {p} : new[q] = home[q]
  BY Zenon DEF Extended
<1>3. new[p].object = {bytes}
  BY <1>1, Zenon DEF Extended
<1>4. IsFiniteSet(DOMAIN new) /\ DOMAIN new \ {p} = DOMAIN home \ {p}
  BY <1>0, <1>2, Zenon
<1>5. \A o : Counted(new, o) + Holds(home, p, o) = Counted(home, o) + Holds(new, p, o)
  BY <1>0, <1>2, <1>4, OnePathCounts
<1>6. \A o : Holds(new, p, o) = IF o = bytes THEN 1 ELSE 0
  BY <1>2, <1>3, Zenon DEF Holds
<1>7. \A o : Counted(new, o) \in Nat /\ Counted(home, o) \in Nat
  BY <1>0, <1>4, CountedNat, Zenon
<1>8. CASE previous = {bytes}
  <2>1. \A o : Holds(home, p, o) = Holds(new, p, o)
    BY <1>6, <1>8, Zenon DEF Holds
  <2>2. \A o : Counted(new, o) = Counted(home, o)
    <3>1. \A o : Holds(home, p, o) \in {0, 1}
      BY Zenon DEF Holds
    <3> QED
      BY <1>5, <1>7, <2>1, <3>1
  <2>3. ObjectReplaced(objects, previous, bytes) = objects
    BY <1>8, Zenon DEF ObjectReplaced
  <2>4. StoreOf(objects, new)
    BY <1>0, <2>2, Zenon DEF StoreOf
  <2> QED
    BY <1>4, <2>3, <2>4, Zenon
<1>9. CASE previous = {}
  <2>1. \A o : Holds(home, p, o) = 0
    BY <1>9, Zenon DEF Holds
  <2>2. Counted(new, bytes) = Counted(home, bytes) + 1
        /\ \A x : x # bytes => Counted(new, x) = Counted(home, x)
    BY <1>5, <1>6, <1>7, <2>1
  <2>3. ObjectReplaced(objects, previous, bytes)
          = Extended(objects, bytes, (IF bytes \in DOMAIN objects THEN objects[bytes] ELSE 0) + 1)
    BY <1>9, Zenon DEF ObjectReplaced
  <2> HIDE DEF previous
  <2>4. StoreOf(Extended(objects, bytes, (IF bytes \in DOMAIN objects THEN objects[bytes] ELSE 0) + 1), new)
    BY <1>0, <1>4, <2>2, AddedStore, Zenon
  <2> QED
    BY <1>4, <2>3, <2>4, Zenon DEF previous
<1>10. CASE previous # {} /\ previous # {bytes}
  <2> DEFINE old == BytesOf(home[p])
             added == Extended(objects, bytes, (IF bytes \in DOMAIN objects THEN objects[bytes] ELSE 0) + 1)
             extra == Extended(home, p, [home[p] EXCEPT !.object = {old, bytes}])
  <2>1. p \in DOMAIN home /\ home[p].object = {old} /\ previous = {old} /\ old # bytes
    <3>1. p \in DOMAIN home /\ previous = home[p].object
      BY <1>10, Zenon
    <3>2. IsNode(home[p]) /\ home[p].kind = "file"
      BY <3>1, Zenon DEF TreeOK
    <3>3. home[p].object = {old}
      BY <3>2, Zenon DEF IsNode
    <3> HIDE DEF previous, old
    <3> QED
      BY <1>10, <3>1, <3>3, Zenon
  <2>2. (CHOOSE o \in previous : TRUE) = old
    BY <2>1, Zenon
  <2>3. ObjectReplaced(objects, previous, bytes) = ObjectRemoved(added, old)
    BY <1>10, <2>2, Zenon DEF ObjectReplaced
  <2>4. extra[p].object = {old, bytes} /\ DOMAIN extra = DOMAIN home
        /\ \A q \in DOMAIN home \ {p} : extra[q] = home[q]
    <3>1. [home[p] EXCEPT !.object = {old, bytes}].object = {old, bytes}
      BY <2>1 DEF TreeOK, IsNode
    <3> DEFINE node == [home[p] EXCEPT !.object = {old, bytes}]
    <3> HIDE DEF node
    <3>2. Extended(home, p, node)[p] = node /\ DOMAIN Extended(home, p, node) = DOMAIN home
          /\ \A q \in DOMAIN home \ {p} : Extended(home, p, node)[q] = home[q]
      BY <2>1, Zenon DEF Extended
    <3> QED
      BY <3>1, <3>2, Zenon DEF node
  <2> HIDE DEF extra, added, old, previous
  <2>5. \A o : Counted(extra, o) + Holds(home, p, o) = Counted(home, o) + Holds(extra, p, o)
    BY <1>0, <2>4, OnePathCounts
  <2>6. \A o : /\ Holds(home, p, o) = IF o = old THEN 1 ELSE 0
               /\ Holds(extra, p, o) = IF o = old \/ o = bytes THEN 1 ELSE 0
    BY <2>1, <2>4, Zenon DEF Holds
  <2>7. \A o : Counted(extra, o) \in Nat
    BY <1>0, <2>4, CountedNat, Zenon
  <2>8. Counted(extra, bytes) = Counted(home, bytes) + 1
        /\ \A x : x # bytes => Counted(extra, x) = Counted(home, x)
    BY <1>7, <2>1, <2>5, <2>6, <2>7, SMTT(30)
  <2>9. StoreOf(added, extra)
    BY <1>0, <2>4, <2>8, AddedStore, Zenon DEF added
  <2>10. Counted(extra, old) = Counted(new, old) + 1
         /\ \A x : x # old => Counted(new, x) = Counted(extra, x)
    BY <1>5, <1>6, <1>7, <2>1, <2>6, <2>7, <2>8, SMTT(30)
  <2>11. StoreOf(ObjectRemoved(added, old), new)
    BY <1>0, <1>4, <2>4, <2>9, <2>10, RemovedStore, Zenon
  <2> QED
    BY <1>4, <2>3, <2>11, Zenon DEF previous
<1> QED
  BY <1>8, <1>9, <1>10, Zenon

LEMMA ObjectsKept ==
    ASSUME TreeOK(home), generation \in Nat, ObjectsExact, TreeStep
    PROVE  ObjectsExact'
<1>0. generation + 1 \in Nat /\ IsFiniteSet(DOMAIN home) /\ StoreOf(objects, home)
  BY StoreForIs DEF ObjectsExact
<1> SUFFICES IsFiniteSet(DOMAIN home') /\ StoreOf(objects', home')
  BY StoreForIs, Zenon DEF ObjectsExact
<1>1. CASE Unmoved
  BY <1>0, <1>1, Zenon DEF Unmoved
<1>2. ASSUME NEW p, MadeDirectory(p) PROVE IsFiniteSet(DOMAIN home') /\ StoreOf(objects', home')
  <2>1. /\ home' = Extended(home, p, DirectoryNode(generation + 1)) /\ objects' = objects
        /\ p \notin DOMAIN home
    BY <1>2, Zenon DEF MadeDirectory
  <2>2. DirectoryNode(generation + 1).object = {}
    BY <1>0, NodeFacts, Zenon
  <2>3. DOMAIN home' = DOMAIN home \cup {p} /\ home'[p].object = {}
        /\ \A q \in DOMAIN home \ {p} : home'[q] = home[q]
    BY <2>1, <2>2, Zenon DEF Extended
  <2>4. IsFiniteSet(DOMAIN home') /\ DOMAIN home' \ {p} = DOMAIN home \ {p}
    BY <1>0, <2>3, FS_AddElement
  <2>5. \A o : Counted(home', o) + Holds(home, p, o) = Counted(home, o) + Holds(home', p, o)
    BY <1>0, <2>3, <2>4, OnePathCounts
  <2>6. \A o : Holds(home, p, o) = 0 /\ Holds(home', p, o) = 0
    BY <2>1, <2>3, Zenon DEF Holds
  <2>7. \A o : Counted(home', o) \in Nat /\ Counted(home, o) \in Nat
    BY <1>0, <2>4, CountedNat, Zenon
  <2>8. \A o : Counted(home', o) = Counted(home, o)
    BY <2>5, <2>6, <2>7
  <2> QED
    BY <1>0, <2>1, <2>4, <2>8, Zenon DEF StoreOf
<1>3. ASSUME NEW p, NEW bytes, NEW exec, Stored(p, bytes, exec)
      PROVE  IsFiniteSet(DOMAIN home') /\ StoreOf(objects', home')
  BY <1>3, ReplacedStore, Zenon DEF Stored
<1>4. ASSUME NEW p, Removed(p) PROVE IsFiniteSet(DOMAIN home') /\ StoreOf(objects', home')
  <2>1. /\ p \in DOMAIN home /\ home' = [q \in DOMAIN home \ {p} |-> home[q]]
        /\ objects' = Dropped(p)
    BY <1>4, Zenon DEF Removed
  <2>2. DOMAIN home' = DOMAIN home \ {p} /\ \A q \in DOMAIN home \ {p} : home'[q] = home[q]
    BY <2>1, Zenon
  <2>3. IsFiniteSet(DOMAIN home') /\ DOMAIN home' \ {p} = DOMAIN home \ {p}
    BY <1>0, <2>2, FS_RemoveElement
  <2>4. \A o : Counted(home', o) + Holds(home, p, o) = Counted(home, o) + Holds(home', p, o)
    BY <1>0, <2>2, <2>3, OnePathCounts
  <2>5. \A o : Holds(home', p, o) = 0
    BY <2>2, Zenon DEF Holds
  <2>6. \A o : Counted(home, o) \in Nat
    BY <1>0, CountedNat, Zenon
  <2>7. \A o : Counted(home', o) + Holds(home, p, o) = Counted(home, o)
    BY <2>4, <2>5, <2>6
  <2>8. StoreOf(Dropped(p), home')
    BY <2>1, <2>3, <2>7, DroppedStore, Zenon
  <2> QED
    BY <2>1, <2>3, <2>8, Zenon
<1>5. ASSUME NEW p, NEW to, NEW replace, Renamed(p, to, replace)
      PROVE  IsFiniteSet(DOMAIN home') /\ StoreOf(objects', home')
  <2>1. /\ CanMove(home, p, to) /\ home' = Moved(home, p, to, generation + 1)
        /\ objects' = IF to \in DOMAIN home THEN Dropped(to) ELSE objects
    BY <1>5, Zenon DEF Renamed
  <2>2. /\ IsFiniteSet(DOMAIN home')
        /\ \A o : Counted(home', o) + Holds(home, to, o) = Counted(home, o)
    BY <1>0, <2>1, MovedCounts
  <2>3. CASE to \in DOMAIN home
    BY <2>1, <2>2, <2>3, DroppedStore, Zenon
  <2>4. CASE to \notin DOMAIN home
    <3>1. \A o : Holds(home, to, o) = 0
      BY <2>4, Zenon DEF Holds
    <3>2. \A o : Counted(home', o) \in Nat
      BY <2>2, CountedNat, Zenon
    <3>3. \A o : Counted(home', o) = Counted(home, o)
      BY <2>2, <3>1, <3>2
    <3> QED
      BY <1>0, <2>1, <2>2, <2>4, <3>3, Zenon DEF StoreOf
  <2> QED
    BY <2>3, <2>4, Zenon
<1> QED
  BY <1>1, <1>2, <1>3, <1>4, <1>5, Zenon DEF TreeStep

--------------------------------------------------------------------------------
(* The actions as steps of the tree *)

TreeInv == TreeOK(home) /\ Versions /\ RecoveryExact /\ ObjectsExact

LEMMA TreeInvKept ==
    ASSUME TreeInv, TreeStep
    PROVE  TreeInv'
<1>1. TreeOK(home) /\ Versions /\ RecoveryExact /\ ObjectsExact /\ generation \in Nat
  BY DEF TreeInv, Versions
<1> QED
  BY <1>1, TreeKept, VersionsKept, RecoveryKept, ObjectsKept DEF TreeInv

LEMMA FileBytes ==
    ASSUME NEW node, IsNode(node), node.kind = "file"
    PROVE  BytesOf(node) \in Seq(Nat) /\ node.object = {BytesOf(node)} /\ node.exec \in BOOLEAN
<1>1. node.object \in SUBSET Seq(Nat) /\ node.exec \in BOOLEAN
  BY DEF IsNode
<1>2. node.object = {BytesOf(node)}
  BY Zenon DEF IsNode
<1> QED
  BY <1>1, <1>2

LEMMA StoreFileSteps ==
    ASSUME TreeOK(home), NEW p \in Path, HomeDescendant(p), IsDirectory(home, Parent(p)),
           p \in DOMAIN home => home[p].kind = "file",
           NEW bytes \in Seq(Nat), NEW exec \in BOOLEAN, StoreFile(p, bytes, exec)
    PROVE  TreeStep
<1>1. Stored(p, bytes, exec)
  BY Zenon DEF StoreFile, Stored
<1> QED
  BY <1>1, Zenon DEF TreeStep

LEMMA ReplaceSteps ==
    ASSUME TreeOK(home), NEW cap, NEW p \in Path, CanReplace(cap, p),
           NEW bytes \in Seq(Nat), NEW exec \in BOOLEAN, StoreFile(p, bytes, exec)
    PROVE  TreeStep
<1>1. HomeDescendant(p) /\ IsDirectory(home, Parent(p)) /\ ~IsDirectory(home, p)
  BY DEF CanReplace
<1>2. ASSUME p \in DOMAIN home PROVE home[p].kind = "file"
  <2>1. home[p].kind \in {"directory", "file"}
    BY <1>2, Zenon DEF TreeOK, IsNode
  <2>2. home[p].kind # "directory"
    BY <1>1, <1>2 DEF IsDirectory
  <2> QED
    BY <2>1, <2>2
<1> QED
  BY <1>1, <1>2, StoreFileSteps

LEMMA RenameSteps ==
    ASSUME NEW cap, NEW p, NEW to \in Path, NEW replace, Rename(cap, p, to, replace)
    PROVE  TreeStep
<1>1. RenameAllowed(cap, p, to, replace)
  BY DEF Rename
<1>2. CanMove(home, p, to)
  BY <1>1 DEF RenameAllowed, CanMove
<1>3. objects' = IF to \in DOMAIN home THEN Dropped(to) ELSE objects
  BY DEF Rename, Released, Dropped
<1>4. Renamed(p, to, replace)
  BY <1>2, <1>3, Zenon DEF Rename, Renamed
<1> QED
  BY <1>4, Zenon DEF TreeStep

LEMMA PathsArePaths == \A p \in Paths : p \in Path
  BY PathsParse DEF Path

LEMMA SameTree ==
    ASSUME UNCHANGED treeVars
    PROVE  TreeStep
  BY DEF treeVars, TreeStep, Unmoved

LEMMA MinOfTwo ==
    ASSUME NEW a \in Int, NEW b \in Int
    PROVE  Min({a, b}) = IF a <= b THEN a ELSE b
  BY DEF Min

LEMMA MaxOfTwo ==
    ASSUME NEW a \in Int, NEW b \in Int
    PROVE  Max({a, b}) = IF a >= b THEN a ELSE b
  BY DEF Max

LEMMA ResizedBytes ==
    ASSUME NEW bytes \in Seq(Nat), NEW n \in Nat
    PROVE  /\ Resized(bytes, n) \in Seq(Nat) /\ DOMAIN Resized(bytes, n) = 1 .. n
           /\ \A i \in 1 .. n : Resized(bytes, n)[i] \in Nat
<1> DEFINE r == Resized(bytes, n)
<1>1. Len(bytes) \in Nat /\ \A i \in 1 .. Len(bytes) : bytes[i] \in Nat
  BY LenProperties, ElementOfSeq
<1>2. r = [i \in 1 .. n |-> IF i <= Len(bytes) THEN bytes[i] ELSE 0]
  BY DEF Resized
<1>3. \A i \in 1 .. n : r[i] \in Nat
  BY <1>1, <1>2
<1> QED
  BY <1>2, <1>3, IsASeq

LEMMA ParentIsDirectory ==
    ASSUME NEW tree, TreeOK(tree), NEW p \in DOMAIN tree
    PROVE  IsDirectory(tree, Parent(p))
<1>1. p \in Path /\ Len(p) \in Nat /\ Len(p) >= 2
  BY LenProperties DEF TreeOK, HomeDescendant, Path
<1>2. /\ Parent(p) \in Path /\ Len(Parent(p)) = Len(p) - 1 /\ IsWithin(p, Parent(p))
  <2>1. /\ Parent(p) \in Path /\ Len(Parent(p)) = Len(p) - 1
        /\ \A i \in 1 .. Len(p) - 1 : Parent(p)[i] = p[i]
    BY <1>1, FrontFacts DEF Parent
  <2> QED
    BY <1>1, <2>1, WithinFacts
<1>3. ASSUME Len(Parent(p)) # 1 PROVE Parent(p) \in DOMAIN tree /\ tree[Parent(p)].kind = "directory"
  <2>1. Len(Parent(p)) >= 2 /\ Parent(p) # p
    BY <1>1, <1>2, <1>3
  <2> QED
    BY <1>1, <1>2, <2>1, AboveIsDirectory
<1> QED
  BY <1>3 DEF IsDirectory

--------------------------------------------------------------------------------
(* Stale handles *)

\* A slot of the handle table, whatever a file is.
Slot(F) == [gen : Nat, file : SUBSET F, retired : BOOLEAN]

\* What a slot that has given up a handle shows: a later generation, or that it retired.
Outlived(s, g) == s.gen > g \/ (s.retired /\ s.file = {})

HandleInv ==
    /\ \E F : slots \in Seq(Slot(F))
    /\ \A h \in stale : h.slot \in DOMAIN slots /\ h.gen \in Nat /\ Outlived(slots[h.slot], h.gen)

\* What a step makes of a slot: nothing is lost of what it has outlived.
SlotLater(s, s2) ==
    /\ s2.gen \in Nat /\ s2.gen >= s.gen
    /\ s.retired /\ s.file = {} => s2.retired /\ s2.file = {}

HandleStep ==
    \/ UNCHANGED <<slots, stale>>
    \/ slots' = << >> /\ stale' = {}
    \/ /\ \E F : slots' \in Seq(Slot(F))
       /\ DOMAIN slots \subseteq DOMAIN slots'
       /\ \A i \in DOMAIN slots : SlotLater(slots[i], slots'[i])
       /\ \/ stale' = stale
          \/ \E h : /\ stale' = stale \cup {h} /\ h.slot \in DOMAIN slots' /\ h.gen \in Nat
                    /\ Outlived(slots'[h.slot], h.gen)

LEMMA HandleStepKeeps ==
    ASSUME HandleInv, HandleStep
    PROVE  HandleInv'
<1>1. CASE UNCHANGED <<slots, stale>>
  BY <1>1 DEF HandleInv
<1>2. CASE slots' = << >> /\ stale' = {}
  <2>1. << >> \in Seq(Slot({}))
    OBVIOUS
  <2> QED
    BY <1>2, <2>1, Zenon DEF HandleInv
<1>3. CASE /\ \E F : slots' \in Seq(Slot(F))
           /\ DOMAIN slots \subseteq DOMAIN slots'
           /\ \A i \in DOMAIN slots : SlotLater(slots[i], slots'[i])
           /\ \/ stale' = stale
              \/ \E h : /\ stale' = stale \cup {h} /\ h.slot \in DOMAIN slots' /\ h.gen \in Nat
                        /\ Outlived(slots'[h.slot], h.gen)
  <2>1. PICK F : slots \in Seq(Slot(F))
    BY DEF HandleInv
  <2>2. \A i \in DOMAIN slots : slots[i].gen \in Nat
    <3>1. \A i \in DOMAIN slots : slots[i] \in Slot(F)
      BY <2>1, LenProperties, ElementOfSeq
    <3> QED
      BY <3>1 DEF Slot
  <2>3. ASSUME NEW h \in stale
        PROVE  h.slot \in DOMAIN slots' /\ h.gen \in Nat /\ Outlived(slots'[h.slot], h.gen)
    <3>1. h.slot \in DOMAIN slots /\ h.gen \in Nat /\ Outlived(slots[h.slot], h.gen)
      BY <2>3 DEF HandleInv
    <3>2. SlotLater(slots[h.slot], slots'[h.slot]) /\ slots[h.slot].gen \in Nat
          /\ h.slot \in DOMAIN slots'
      BY <1>3, <2>2, <3>1
    <3>3. CASE slots[h.slot].gen > h.gen
      <4>1. slots'[h.slot].gen > h.gen
        BY <3>1, <3>2, <3>3 DEF SlotLater
      <4> QED
        BY <3>1, <3>2, <4>1 DEF Outlived
    <3>4. CASE slots[h.slot].retired /\ slots[h.slot].file = {}
      BY <3>1, <3>2, <3>4, Zenon DEF Outlived, SlotLater
    <3> QED
      BY <3>1, <3>3, <3>4, Zenon DEF Outlived
  <2>4. CASE stale' = stale
    BY <1>3, <2>3, <2>4, Zenon DEF HandleInv
  <2>5. ASSUME NEW h, stale' = stale \cup {h}, h.slot \in DOMAIN slots', h.gen \in Nat,
               Outlived(slots'[h.slot], h.gen)
        PROVE  HandleInv'
    <3>1. \A k \in stale' : k \in stale \/ k = h
      BY <2>5
    <3> QED
      BY <1>3, <2>3, <2>5, <3>1, Zenon DEF HandleInv
  <2> QED
    BY <1>3, <2>4, <2>5, Zenon
<1> QED
  BY <1>1, <1>2, <1>3, Zenon DEF HandleStep

\* One slot is changed.
LEMMA SlotChanged ==
    ASSUME NEW F, slots \in Seq(Slot(F)), NEW i \in DOMAIN slots, NEW G, F \subseteq G,
           NEW s \in Slot(G), SlotLater(slots[i], s), slots' = [slots EXCEPT ![i] = s]
    PROVE  /\ \E H : slots' \in Seq(Slot(H))
           /\ DOMAIN slots' = DOMAIN slots /\ slots'[i] = s
           /\ \A j \in DOMAIN slots : SlotLater(slots[j], slots'[j])
<1>1. Slot(F) \subseteq Slot(G)
  BY DEF Slot
<1>2. DOMAIN slots = 1 .. Len(slots) /\ Len(slots) \in Nat /\ \A j \in DOMAIN slots : slots[j] \in Slot(F)
  BY LenProperties, ElementOfSeq
<1>3. slots' \in Seq(Slot(G))
  <2>1. slots \in Seq(Slot(G))
    BY <1>1
  <2> QED
    BY <1>2, <2>1, ExceptSeq
<1>4. DOMAIN slots' = DOMAIN slots /\ slots'[i] = s /\ \A j \in DOMAIN slots \ {i} : slots'[j] = slots[j]
  BY <1>2
<1>5. ASSUME NEW j \in DOMAIN slots PROVE SlotLater(slots[j], slots'[j])
  <2>1. CASE j = i
    BY <1>4, <2>1
  <2>2. CASE j # i
    <3>1. slots[j].gen \in Nat /\ slots'[j] = slots[j]
      BY <1>2, <1>4, <2>2 DEF Slot
    <3>2. slots[j].gen >= slots[j].gen
      BY <3>1
    <3> QED
      BY <3>1, <3>2, Zenon DEF SlotLater
  <2> QED
    BY <2>1, <2>2
<1> QED
  BY <1>3, <1>4, <1>5, Zenon

\* The first free slot exists.
LEMMA SmallestOfNat ==
    ASSUME NEW T, T \subseteq Nat, T # {}
    PROVE  \E x \in T : \A y \in T : x <= y
<1> DEFINE R == OpToRel(<, Nat)
<1>1. IsWellFoundedOn(R, Nat)
  BY NatLessThanWellFounded, Zenon
<1> HIDE DEF R
<1>2. PICK x \in T : \A y \in T : ~(<<y, x>> \in R)
  BY <1>1, WFMin, Zenon
<1>3. \A y \in T : ~(y < x)
  BY <1>2, Zenon DEF R, OpToRel
<1> QED
  BY <1>2, <1>3

LEMMA HandleOpened ==
    ASSUME HandleInv, NEW file, OpenSlot(file), stale' = stale
    PROVE  HandleStep
<1>1. PICK F : slots \in Seq(Slot(F))
  BY DEF HandleInv
<1> DEFINE G == F \cup {file}
<1>2. /\ DOMAIN slots = 1 .. Len(slots) /\ Len(slots) \in Nat
      /\ \A i \in DOMAIN slots : slots[i] \in Slot(F)
      /\ F \subseteq G
  BY <1>1, LenProperties, ElementOfSeq
<1>3. CASE FreeSlots # {}
  <2> DEFINE i == Min(FreeSlots)
             s == [slots[i] EXCEPT !.file = {file}]
  <2>1. i \in FreeSlots
    <3>1. FreeSlots \subseteq Nat
      BY <1>2 DEF FreeSlots
    <3>2. PICK x \in FreeSlots : \A y \in FreeSlots : x <= y
      BY <1>3, <3>1, SmallestOfNat, Zenon
    <3>3. \E z \in FreeSlots : \A y \in FreeSlots : z <= y
      BY <3>2
    <3> QED
      BY <3>3, Zenon DEF Min
  <2>2. i \in DOMAIN slots /\ slots[i].file = {} /\ ~slots[i].retired
    BY <2>1, ZenonT(30) DEF FreeSlots
  <2> HIDE DEF i
  <2>3. slots' = [slots EXCEPT ![i].file = {file}]
    BY <1>3, Zenon DEF OpenSlot, i
  <2>4. slots' = [slots EXCEPT ![i] = s]
    BY <2>3, Zenon
  <2>5. slots[i] \in [gen : Nat, file : SUBSET F, retired : BOOLEAN]
    BY <1>2, <2>2, SMTT(30) DEF Slot
  <2>6. s \in [gen : Nat, file : SUBSET G, retired : BOOLEAN] /\ s.gen = slots[i].gen /\ s.gen \in Nat
    BY <2>5
  <2>7. s \in Slot(G) /\ SlotLater(slots[i], s)
    BY <2>2, <2>6, SMTT(30) DEF Slot, SlotLater
  <2> HIDE DEF s, G
  <2>8. /\ \E H : slots' \in Seq(Slot(H))
        /\ DOMAIN slots' = DOMAIN slots
        /\ \A j \in DOMAIN slots : SlotLater(slots[j], slots'[j])
    BY <1>1, <1>2, <2>2, <2>4, <2>7, SlotChanged, Zenon
  <2> QED
    BY <2>8 DEF HandleStep
<1>4. CASE FreeSlots = {}
  <2> DEFINE s == [gen |-> 1, file |-> {file}, retired |-> FALSE]
  <2>1. slots' = Append(slots, s)
    BY <1>4, ZenonT(40) DEF OpenSlot
  <2>2. s \in Slot(G)
    BY DEF Slot
  <2>3. Slot(F) \subseteq Slot(G)
    BY DEF Slot
  <2> HIDE DEF s, G
  <2>4. slots \in Seq(Slot(G))
    BY <1>1, <2>3, SMTT(30)
  <2>5. /\ slots' \in Seq(Slot(G)) /\ Len(slots') = Len(slots) + 1
        /\ \A i \in 1 .. Len(slots) : slots'[i] = slots[i]
    BY <2>1, <2>2, <2>4, AppendProperties, SMTT(30)
  <2>6. DOMAIN slots' = 1 .. Len(slots) + 1
    BY <2>5, LenProperties, SMTT(30)
  <2>7. DOMAIN slots \subseteq DOMAIN slots'
    BY <1>2, <2>6, SMTT(30)
  <2>8. ASSUME NEW i \in DOMAIN slots PROVE SlotLater(slots[i], slots'[i])
    <3>1. slots'[i] = slots[i] /\ slots[i].gen \in Nat
      BY <1>2, <2>5, SMTT(30) DEF Slot
    <3>2. slots[i].gen >= slots[i].gen
      BY <3>1, SMTT(30)
    <3> QED
      BY <3>1, <3>2, ZenonT(40) DEF SlotLater
  <2> QED
    BY <2>5, <2>7, <2>8, ZenonT(40) DEF HandleStep
<1> QED
  BY <1>3, <1>4

LEMMA HandleClosed ==
    ASSUME HandleInv, NEW h \in Handles, Close(h)
    PROVE  HandleStep
<1>1. PICK F : slots \in Seq(Slot(F))
  BY SMTT(30) DEF HandleInv
<1>2. \A i \in DOMAIN slots : slots[i] \in Slot(F)
  BY <1>1, LenProperties, ElementOfSeq, SMTT(30)
<1> DEFINE i == h.slot
           s == IF slots[i].gen = MaxHandleGeneration THEN [slots[i] EXCEPT !.file = {}, !.retired = TRUE]
                ELSE [slots[i] EXCEPT !.file = {}, !.gen = slots[i].gen + 1]
<1>3. i \in DOMAIN slots /\ slots[i].gen = h.gen
  BY Zenon DEF Close, Resolves
<1>4. slots' = [slots EXCEPT ![i] = s] /\ stale' = stale \cup {h}
  BY Zenon DEF Close
<1>5. slots[i] \in [gen : Nat, file : SUBSET F, retired : BOOLEAN]
  BY <1>2, <1>3, SMTT(30) DEF Slot
<1> HIDE DEF i
<1>a. h.gen \in Nat /\ F \subseteq F
  BY <1>3, <1>5, SMTT(30) DEF i
<1>6. s \in [gen : Nat, file : SUBSET F, retired : BOOLEAN] /\ s.file = {} /\ s.gen \in Nat
      /\ s.gen >= slots[i].gen /\ (slots[i].retired => s.retired)
      /\ (s.gen > slots[i].gen \/ s.retired)
  <2>1. CASE slots[i].gen = MaxHandleGeneration
    <3>1. s = [slots[i] EXCEPT !.file = {}, !.retired = TRUE]
      BY <2>1, ZenonT(40)
    <3> HIDE DEF s
    <3>2. s \in [gen : Nat, file : SUBSET F, retired : BOOLEAN]
      BY <1>5, <3>1, ZenonT(30)
    <3>3. s.file = {} /\ s.gen = slots[i].gen /\ s.retired = TRUE
      BY <1>5, <3>1
    <3>4. slots[i].gen >= slots[i].gen /\ slots[i].gen \in Nat
      BY <1>5, SMTT(30)
    <3> QED
      BY <3>2, <3>3, <3>4, ZenonT(40)
  <2>2. CASE slots[i].gen # MaxHandleGeneration
    <3>1. s = [slots[i] EXCEPT !.file = {}, !.gen = slots[i].gen + 1]
      BY <2>2, ZenonT(40)
    <3> HIDE DEF s
    <3>a. slots[i].gen + 1 \in Nat /\ {} \in SUBSET F
      BY <1>5, SMTT(30)
    <3>2. s \in [gen : Nat, file : SUBSET F, retired : BOOLEAN]
      BY <1>5, <3>1, <3>a, ZenonT(30)
    <3>3. s.file = {} /\ s.gen = slots[i].gen + 1 /\ s.retired = slots[i].retired
      BY <1>5, <3>1, SMTT(30)
    <3>4. slots[i].gen + 1 \in Nat /\ slots[i].gen + 1 >= slots[i].gen /\ slots[i].gen + 1 > slots[i].gen
      BY <1>5, SMTT(30)
    <3> QED
      BY <3>2, <3>3, <3>4, ZenonT(40)
  <2> QED
    BY <2>1, <2>2, SMTT(30)
<1> HIDE DEF s
<1>7. s \in Slot(F) /\ SlotLater(slots[i], s) /\ Outlived(s, slots[i].gen)
  BY <1>6, ZenonT(40) DEF Slot, SlotLater, Outlived
<1>8. /\ \E H : slots' \in Seq(Slot(H))
      /\ DOMAIN slots' = DOMAIN slots /\ slots'[i] = s
      /\ \A j \in DOMAIN slots : SlotLater(slots[j], slots'[j])
  BY <1>1, <1>3, <1>4, <1>7, <1>a, SlotChanged, ZenonT(40)
<1>9. h.slot \in DOMAIN slots' /\ Outlived(slots'[h.slot], h.gen)
  BY <1>3, <1>7, <1>8, ZenonT(40) DEF i
<1> QED
  BY <1>4, <1>8, <1>9, <1>a, ZenonT(40) DEF HandleStep
================================================================================
