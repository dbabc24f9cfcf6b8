------------------------------- MODULE BestFit -------------------------------
(* The heap of one DRAM channel, as class BestFitAllocator keeps it          *)
(* (csrc/placer/best_fit_allocator.cpp), and its operations as functions     *)
(* from heaps to heaps.  A block is a half-open interval of addresses; a     *)
(* heap has three indexes (struct Blocks, dram_allocator.hpp):               *)
(*                                                                           *)
(*   start   the free blocks, a map keyed by their first address             *)
(*   end     the free blocks, a map keyed by the address after their last    *)
(*   used    the allocated blocks, a map keyed by their first address        *)
(*                                                                           *)
(* A map is written as the set of its values; storing under a key replaces   *)
(* the block that was there.  Sizes are positive: allocate_buffers asserts   *)
(* it before every call.                                                     *)
EXTENDS Integers

Block(a, n) == [addr |-> a, size |-> n]

EndOf(b) == b.addr + b.size

Cells(b) == b.addr .. (EndOf(b) - 1)

Apart(b, c) == EndOf(b) <= c.addr \/ EndOf(c) <= b.addr

NoBlocks == [start |-> {}, end |-> {}, used |-> {}]

add_free_block(h, b) ==
  [start |-> {c \in h.start : c.addr # b.addr} \cup {b},
   end   |-> {c \in h.end : EndOf(c) # EndOf(b)} \cup {b},
   used  |-> h.used]

remove_free_block(h, b) ==
  [start |-> {c \in h.start : c.addr # b.addr},
   end   |-> {c \in h.end : EndOf(c) # EndOf(b)},
   used  |-> h.used]

MarkUsed(h, b) ==
  [start |-> h.start, end |-> h.end,
   used |-> {c \in h.used : c.addr # b.addr} \cup {b}]

(* A new heap.  The second address is the last usable one, not one past it.  *)
Fresh(first, last) ==
  IF first < last
  THEN add_free_block(NoBlocks, Block(first, last - first + 1))
  ELSE NoBlocks

(* The constructor: a heap handed over from an earlier allocator is taken as *)
(* it is, if it has a free block at all.                                     *)
Construct(first, last, handed) ==
  IF handed.start # {} THEN handed ELSE Fresh(first, last)

(* Plausible bug: an exact fit is overlooked.                                *)
FittingStrictly(h, n) == {b \in h.start : b.size > n}

Fitting(h, n) == {b \in h.start : b.size >= n}

(* The scan runs from the highest address down and only a strictly smaller   *)
(* remainder displaces the candidate: the smallest block, and among equals   *)
(* the one at the highest address.                                           *)
Closest(h, n) ==
  CHOOSE b \in Fitting(h, n) :
    \A c \in Fitting(h, n) :
      b.size < c.size \/ (b.size = c.size /\ c.addr <= b.addr)

(* Plausible bug: the remainder keeps its old size.                          *)
CarveKeepsAll(h, b, n) ==
  LET taken == MarkUsed(remove_free_block(h, b), Block(EndOf(b) - n, n))
  IN  IF b.size = n THEN taken ELSE add_free_block(taken, b)

(* Space is cut from the right end of the chosen block.                      *)
Carve(h, b, n) ==
  LET taken == MarkUsed(remove_free_block(h, b), Block(EndOf(b) - n, n))
  IN  IF b.size = n THEN taken
      ELSE add_free_block(taken, Block(b.addr, b.size - n))

(* allocate: the address granted, and the heap afterwards.  Both are for a   *)
(* request that fits; allocate returns false exactly when nothing does.      *)
GrantedAddr(h, n) == EndOf(Closest(h, n)) - n

AfterAllocate(h, n) == Carve(h, Closest(h, n), n)

(* Plausible bug: freeing does not look at this neighbour.                   *)
MergeNever(h, b) == [heap |-> h, block |-> b]

(* A block about to be freed swallows the free block that starts where it    *)
(* ends, and then the one that ends where it starts.                         *)
MergeNext(h, b) ==
  IF \E c \in h.start : c.addr = EndOf(b)
  THEN LET c == CHOOSE c \in h.start : c.addr = EndOf(b)
       IN  [heap |-> remove_free_block(h, c),
            block |-> Block(b.addr, b.size + c.size)]
  ELSE [heap |-> h, block |-> b]

MergePrev(h, b) ==
  IF \E c \in h.end : EndOf(c) = b.addr
  THEN LET c == CHOOSE c \in h.end : EndOf(c) = b.addr
       IN  [heap |-> remove_free_block(h, c),
            block |-> Block(c.addr, b.size + c.size)]
  ELSE [heap |-> h, block |-> b]

(* deallocate, for a block the heap has allocated.                           *)
AfterDeallocate(h, b) ==
  LET next   == MergeNext(h, b)
      prev   == MergePrev(next.heap, next.block)
      merged == add_free_block(prev.heap, prev.block)
  IN  [start |-> merged.start, end |-> merged.end,
       used |-> {c \in merged.used : c.addr # b.addr}]

(* What makes a heap sound: every block lies in the channel and no two       *)
(* blocks share a cell; the two free indexes hold the same blocks; touching  *)
(* free blocks have been merged; and every cell is in some block.            *)
Blocks(h) == h.start \cup h.used

InChannel(h, first, last) ==
  \A b \in Blocks(h) :
    /\ b = Block(b.addr, b.size)
    /\ b.addr \in Int /\ b.size \in Nat \ {0}
    /\ first <= b.addr /\ EndOf(b) <= last + 1

IndexesAgree(h) == h.start = h.end

Disjoint(h) ==
  /\ h.start \cap h.used = {}
  /\ \A b, c \in Blocks(h) : b # c => Apart(b, c)

Coalesced(h) == \A b, c \in h.start : EndOf(b) # c.addr

NothingLost(h, first, last) ==
  \A x \in first .. last : \E b \in Blocks(h) : x \in Cells(b)

Sound(h, first, last) ==
  /\ InChannel(h, first, last)
  /\ IndexesAgree(h)
  /\ Disjoint(h)
  /\ Coalesced(h)
  /\ NothingLost(h, first, last)
==============================================================================
