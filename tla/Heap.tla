---------------------------------- MODULE Heap ----------------------------------
(***************************************************************************)
(* The managed heap of one machine (execution/heap.rs): an arena tiled by  *)
(* blocks, segregated free lists with a hint to a large free block, and    *)
(* boundary tags.  A heap is a record                                      *)
(*   blocks  the block headers, by offset                                  *)
(*   lists   the free list of every size class, head first                 *)
(*   hint    largest_free_hint                                             *)
(*   free    total_free                                                    *)
(*   live    live_objects                                                  *)
(* and an operation is an operator from heaps to heaps.                    *)
(*                                                                         *)
(* The bitmaps are the non-empty lists, and a doubly linked list is a      *)
(* sequence.  A header absorbed by coalescing leaves the domain of blocks: *)
(* its flags are cleared or lie inside a free block.  `link' is the header *)
(* word that holds the size of the preceding block and, while marking, the *)
(* link of the gray queue; 0 stands for no link.                           *)
(***************************************************************************)
EXTENDS Integers, Sequences, FiniteSets, FiniteSetsExt

CONSTANT
    ArenaBytes      \* plan.heap_arena_bytes

MinimumBlock == 16      \* MINIMUM_BLOCK_BYTES
Alignment == 8          \* BLOCK_ALIGNMENT
ObjectHeader == 8       \* OBJECT_TYPE_ID: a reference names block + 8
NoBlock == -1           \* NULL_OFFSET

ASSUME ArenaAssumption ==
    /\ ArenaBytes \in Nat
    /\ ArenaBytes >= 32
    /\ ArenaBytes % 16 = 0

BlockSizes == {n \in MinimumBlock .. ArenaBytes : n % Alignment = 0}

--------------------------------------------------------------------------------
(* Size classes: eight per power of two, by class_index *)

FirstLevel(size) == CHOOSE f \in 3 .. 30 : 2^f <= size /\ size - 2^f < 2^f

ClassWidth(f) == Max({2^(f - 3), Alignment})

\* free_size_class: the class whose range holds the size.
FreeClass(size) ==
    LET f == FirstLevel(size) IN 8 * f + (size - 2^f) \div ClassWidth(f)

\* request_size_class: the first class all of whose blocks are large enough.
RequestClass(size) ==
    LET f == FirstLevel(size)
    IN FreeClass(size) + (IF (size - 2^f) % ClassWidth(f) = 0 THEN 0 ELSE 1)

Classes == {FreeClass(n) : n \in BlockSizes}

--------------------------------------------------------------------------------
(* Free lists *)

Block(size, link, state) == [size |-> size, link |-> link, state |-> state, marked |-> FALSE]

End(h, b) == b + h.blocks[b].size

\* Mutant of ObserveFree: the last free block seen, whatever its size.
ObserveLast(h, b) == [h EXCEPT !.hint = b]

\* observe_free_block: the hint moves to a larger block only.
ObserveFree(h, b) ==
    IF h.hint = NoBlock \/ h.blocks[b].size > h.blocks[h.hint].size
      THEN [h EXCEPT !.hint = b]
      ELSE h

\* insert_free: at the head of the block's class.
InsertFree(h, b) ==
    ObserveFree([h EXCEPT !.lists[FreeClass(h.blocks[b].size)] = <<b>> \o @], b)

\* Mutant of RemoveFree: the hint survives the block it names.
RemoveFreeKeepingHint(h, b) ==
    [h EXCEPT !.lists[FreeClass(h.blocks[b].size)] = SelectSeq(@, LAMBDA o : o # b)]

\* remove_free: a hint to the block is dropped with it.
RemoveFree(h, b) ==
    [h EXCEPT !.lists[FreeClass(h.blocks[b].size)] = SelectSeq(@, LAMBDA o : o # b),
              !.hint = IF @ = b THEN NoBlock ELSE @]

\* find_suitable: the head of the request's partial class if it fits, else the
\* head of the first class of large enough blocks, else the hint if it fits.
FindSuitable(h, size) ==
    LET lower == FreeClass(size)
        class == RequestClass(size)
        larger == {c \in Classes : c >= class /\ h.lists[c] # <<>>}
    IN IF lower # class /\ h.lists[lower] # <<>> /\ h.blocks[Head(h.lists[lower])].size >= size
         THEN Head(h.lists[lower])
       ELSE IF larger # {} THEN Head(h.lists[Min(larger)])
       ELSE IF h.hint # NoBlock /\ h.blocks[h.hint].size >= size THEN h.hint
       ELSE NoBlock

\* Heap::new
NewHeap ==
    InsertFree([blocks |-> [o \in {0} |-> Block(ArenaBytes, 0, "free")],
                lists |-> [c \in Classes |-> <<>>], hint |-> NoBlock,
                free |-> ArenaBytes, live |-> 0], 0)

\* update_next_previous_size
TagNext(blocks, b) ==
    LET next == b + blocks[b].size
    IN IF next < ArenaBytes THEN [blocks EXCEPT ![next].link = blocks[b].size] ELSE blocks

--------------------------------------------------------------------------------
(* Allocation *)

\* reserve: the block is split when the rest can be a block of its own.
Split(h, b, size) ==
    LET whole == h.blocks[b].size
        taken == RemoveFree(h, b)
        rest == b + size
        cut == [o \in DOMAIN h.blocks \cup {rest} |->
                    IF o = rest THEN Block(whole - size, size, "free") ELSE h.blocks[o]]
    IN IF whole - size >= MinimumBlock
         THEN [InsertFree([taken EXCEPT !.blocks = TagNext(cut, rest)], rest)
                  EXCEPT !.blocks[b] = Block(size, h.blocks[b].link, "reserved"),
                         !.free = @ - size]
         ELSE [taken EXCEPT !.blocks[b].state = "reserved", !.free = @ - whole]

Reserve(h, size) ==
    LET b == FindSuitable(h, size)
    IN [heap |-> IF b = NoBlock THEN h ELSE Split(h, b, size), block |-> b]

\* commit
Commit(h, b) == [h EXCEPT !.blocks[b].state = "live", !.live = @ + 1]

\* free_block: merged with a free predecessor, found by its boundary tag, and
\* with a free successor.
FreeBlock(h, b) ==
    LET before == b - h.blocks[b].link
        after == End(h, b)
        back == b # 0 /\ h.blocks[before].state = "free"
        ahead == after < ArenaBytes /\ h.blocks[after].state = "free"
        first == IF back THEN before ELSE b
        last == IF ahead THEN after ELSE b
        h1 == IF back THEN RemoveFree(h, before) ELSE h
        h2 == IF ahead THEN RemoveFree(h1, after) ELSE h1
        merged == Block(End(h, last) - first, h.blocks[first].link, "free")
        blocks == [o \in (DOMAIN h.blocks \ {b, last}) \cup {first} |->
                      IF o = first THEN merged ELSE h.blocks[o]]
    IN InsertFree([h2 EXCEPT !.blocks = TagNext(blocks, first),
                             !.free = @ + h.blocks[b].size], first)

--------------------------------------------------------------------------------
(* The collector's operations *)

\* live_block: the reference names the header of a live object.
LiveBlock(h, b) == b \in DOMAIN h.blocks /\ h.blocks[b].state = "live"

\* Mutant of MarkGray: the block is queued but not marked.
QueueGray(h, b, tail) ==
    [h EXCEPT !.blocks = [o \in DOMAIN @ |->
        IF o = b THEN [@[o] EXCEPT !.link = 0]
        ELSE IF tail # NoBlock /\ o = tail THEN [@[o] EXCEPT !.link = b + ObjectHeader]
        ELSE @[o]]]

\* enqueue_gray of an unmarked block: marked, and linked behind the tail.
MarkGray(h, b, tail) ==
    [h EXCEPT !.blocks = [o \in DOMAIN @ |->
        IF o = b THEN [@[o] EXCEPT !.marked = TRUE, !.link = 0]
        ELSE IF tail # NoBlock /\ o = tail THEN [@[o] EXCEPT !.link = b + ObjectHeader]
        ELSE @[o]]]

\* sweep_block, of a block that is not merely reserved: the boundary tag is
\* restored, a free block observed, a marked one unmarked, any other freed.
SweepBlock(h, b, before) ==
    LET tagged == [h EXCEPT !.blocks[b].link = before]
    IN CASE h.blocks[b].state = "free" -> ObserveFree(tagged, b)
         [] h.blocks[b].marked -> [tagged EXCEPT !.blocks[b].marked = FALSE]
         [] OTHER -> [FreeBlock(tagged, b) EXCEPT !.live = @ - 1]
================================================================================
