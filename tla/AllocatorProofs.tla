-------------------------- MODULE AllocatorProofs ---------------------------
(* The allocators of the backend's memory, in every reachable state: the     *)
(* channel allocator is sound and implements the memory pool, for every      *)
(* channel and every set of request sizes; the placement of DRAM queues,     *)
(* for every graph, device and epoch count, gives buffers in use in a common *)
(* epoch no DRAM in common; host buffers are aligned, inside their channel   *)
(* and apart, for every channel layout, every queue size and any number of   *)
(* queues.                                                                   *)
EXTENDS BestFitAllocator, DramAllocator, WellFoundedInduction, TLAPS

(* The host memory allocator, beside the channel and the DRAM allocator.     *)
CONSTANTS LastChannel, ChannelStart, HostChannelSize, HostSizes, Grids, MaxQueues,
          RecreatedIn
VARIABLES blackhole, channel, address, request, placed, queues, fatal

Host == INSTANCE HostMemoryAllocator WITH Sizes <- HostSizes, ChannelSize <- HostChannelSize

------------------------------------------------------------------------------
(* One heap: what the operations of BestFit compute, and that they keep a    *)
(* heap sound, for every channel, every request and every sound heap.        *)

(* A nonempty set of naturals has a least element.                           *)
LEMMA LeastNatural ==
  ASSUME NEW T, T \subseteq Nat, T # {}
  PROVE  \E x \in T : \A y \in T : x <= y
<1> DEFINE R == OpToRel(<, Nat)
<1>1. \A x, y \in T : y < x => <<y, x>> \in R
  BY DEF OpToRel
<1>2. IsWellFoundedOn(R, Nat)
  BY NatLessThanWellFounded
<1> HIDE DEF R
<1>3. PICK x \in T : \A y \in T : ~(<<y, x>> \in R)
  BY <1>2, WFMin
<1>4. \A y \in T : ~(y < x)
  BY <1>1, <1>3
<1> QED
  BY <1>4

(* When some block fits, the scan of allocate settles on one that does.      *)
LEMMA ClosestFits ==
  ASSUME NEW h, NEW first \in Nat, NEW last \in Nat, NEW n \in Nat \ {0},
         InChannel(h, first, last), Fitting(h, n) # {}
  PROVE  /\ Closest(h, n) \in h.start
         /\ Closest(h, n).size >= n
<1> DEFINE F == Fitting(h, n)
           S == {b.size : b \in F}
<1>1. \A b \in F : /\ b.addr \in Int /\ b.size \in Nat
                   /\ b.addr <= last
  BY DEF Fitting, InChannel, Blocks, EndOf
<1>2. PICK m \in S : \A k \in S : m <= k
  <2>1. S \subseteq Nat /\ S # {}
    BY <1>1
  <2> HIDE DEF S
  <2> QED
    BY <2>1, LeastNatural
<1> DEFINE D == {last - b.addr : b \in {c \in F : c.size = m}}
<1>3. PICK d \in D : \A k \in D : d <= k
  <2>1. D \subseteq Nat /\ D # {}
    BY <1>1, <1>2
  <2> HIDE DEF D
  <2> QED
    BY <2>1, LeastNatural
<1>4. PICK b \in F : b.size = m /\ d = last - b.addr
  BY <1>3
<1>5. \A c \in F : b.size < c.size \/ (b.size = c.size /\ c.addr <= b.addr)
  <2> TAKE c \in F
  <2>1. m <= c.size
    BY <1>2
  <2>2. CASE c.size = m
    <3>1. last - c.addr \in D
      BY <2>2
    <3>2. last - b.addr <= last - c.addr
      BY <3>1, <1>3, <1>4
    <3> QED
      BY <3>2, <2>2, <1>1, <1>4
  <2>3. CASE c.size # m
    BY <2>1, <2>3, <1>1, <1>4
  <2> QED
    BY <2>2, <2>3
<1>6. Closest(h, n) \in F
  BY <1>4, <1>5 DEF Closest
<1> QED
  BY <1>6 DEF Fitting

------------------------------------------------------------------------------
(* What is left of a block after a run is cut from its right end.            *)
Remainder(b, n) == IF b.size = n THEN {} ELSE {Block(b.addr, b.size - n)}

(* allocate on a sound heap: the chosen block gives way to its remainder,    *)
(* and the run cut from its right end becomes allocated.                     *)
LEMMA CarveShape ==
  ASSUME NEW h, NEW first \in Nat, NEW last \in Nat, Sound(h, first, last),
         NEW b \in h.start, NEW n \in Nat \ {0}, n <= b.size
  PROVE  /\ Carve(h, b, n).start = (h.start \ {b}) \cup Remainder(b, n)
         /\ Carve(h, b, n).end = (h.start \ {b}) \cup Remainder(b, n)
         /\ Carve(h, b, n).used = h.used \cup {Block(EndOf(b) - n, n)}
         /\ DOMAIN Carve(h, b, n) = {"start", "end", "used"}
<1> DEFINE new == Block(EndOf(b) - n, n)
           left == Block(b.addr, b.size - n)
<1>1. \A c \in h.start \cup h.used :
        c.addr \in Int /\ c.size \in Nat \ {0}
  BY DEF Sound, InChannel, Blocks
<1>2. \A c \in h.start : c # b => Apart(b, c)
  BY DEF Sound, Disjoint, Blocks
<1>3. \A c \in h.used : Apart(b, c)
  BY DEF Sound, Disjoint, Blocks
<1>4. \A c \in h.start : c.addr = b.addr <=> c = b
  BY <1>1, <1>2 DEF Apart, EndOf
<1>5. \A c \in h.start : EndOf(c) = EndOf(b) <=> c = b
  BY <1>1, <1>2 DEF Apart, EndOf
<1>6. \A c \in h.used : c.addr # new.addr
  BY <1>1, <1>3 DEF Apart, EndOf, Block
<1>7. b.size # n => \A c \in h.start \ {b} : EndOf(c) # EndOf(left)
  BY <1>1, <1>2 DEF Apart, EndOf, Block
<1>8. h.end = h.start
  BY DEF Sound, IndexesAgree
<1>9. remove_free_block(h, b) =
        [start |-> h.start \ {b}, end |-> h.start \ {b}, used |-> h.used]
  BY <1>4, <1>5, <1>8 DEF remove_free_block
<1>10. MarkUsed(remove_free_block(h, b), new) =
        [start |-> h.start \ {b}, end |-> h.start \ {b},
         used |-> h.used \cup {new}]
  <2>1. {c \in h.used : c.addr # new.addr} = h.used
    BY <1>6
  <2>2. /\ remove_free_block(h, b).start = h.start \ {b}
        /\ remove_free_block(h, b).end = h.start \ {b}
        /\ remove_free_block(h, b).used = h.used
    BY <1>9
  <2> HIDE DEF new
  <2> QED
    BY <2>1, <2>2 DEF MarkUsed
<1>11. CASE b.size = n
  BY <1>10, <1>11 DEF Carve, Remainder
<1>12. CASE b.size # n
  <2>1. {c \in h.start \ {b} : c.addr # left.addr} = h.start \ {b}
    BY <1>4 DEF Block
  <2>2. {c \in h.start \ {b} : EndOf(c) # EndOf(left)} = h.start \ {b}
    BY <1>7, <1>12
  <2>3. Carve(h, b, n) =
          add_free_block([start |-> h.start \ {b}, end |-> h.start \ {b},
                          used |-> h.used \cup {new}], left)
    BY <1>10, <1>12 DEF Carve
  <2> HIDE DEF new, left
  <2>4. Carve(h, b, n) =
          [start |-> (h.start \ {b}) \cup {left},
           end |-> (h.start \ {b}) \cup {left},
           used |-> h.used \cup {new}]
    BY <2>1, <2>2, <2>3 DEF add_free_block
  <2> QED
    BY <2>4, <1>12 DEF new, left, Remainder
<1> QED
  BY <1>11, <1>12

(* allocate keeps the heap sound.                                            *)
LEMMA CarveSound ==
  ASSUME NEW h, NEW first \in Nat, NEW last \in Nat, Sound(h, first, last),
         NEW b \in h.start, NEW n \in Nat \ {0}, n <= b.size
  PROVE  Sound(Carve(h, b, n), first, last)
<1> DEFINE g == Carve(h, b, n)
           new == Block(EndOf(b) - n, n)
           left == Block(b.addr, b.size - n)
           rest == Remainder(b, n)
<1>1. /\ g.start = (h.start \ {b}) \cup rest
      /\ g.end = (h.start \ {b}) \cup rest
      /\ g.used = h.used \cup {new}
  BY CarveShape
<1> HIDE DEF g
<1>2. \A c \in h.start \cup h.used :
        /\ c = Block(c.addr, c.size)
        /\ c.addr \in Int /\ c.size \in Nat \ {0}
        /\ first <= c.addr /\ c.addr + c.size <= last + 1
  BY DEF Sound, InChannel, Blocks, EndOf
<1>3. \A c \in (h.start \cup h.used) \ {b} : Apart(b, c)
  BY DEF Sound, Disjoint, Blocks
<1>4. h.start \cap h.used = {}
  BY DEF Sound, Disjoint
<1>5. /\ new = Block(new.addr, new.size)
      /\ new.addr \in Int /\ new.size = n
      /\ new.addr = b.addr + b.size - n
  BY <1>2 DEF Block, EndOf
<1>6. \A c \in rest : /\ c = Block(c.addr, c.size)
                      /\ c.addr = b.addr /\ c.size = b.size - n
                      /\ b.size - n \in Nat \ {0}
  BY <1>2 DEF Block, Remainder
<1> HIDE DEF new, rest
<1>7. \A c \in (h.start \cup h.used) \ {b} :
        /\ Apart(new, c)
        /\ \A r \in rest : Apart(r, c)
  BY <1>2, <1>3, <1>5, <1>6 DEF Apart, EndOf
<1>8. \A r \in rest : Apart(r, new) /\ r # new
  BY <1>2, <1>5, <1>6 DEF Apart, EndOf
<1>9. Blocks(g) = ((h.start \cup h.used) \ {b}) \cup rest \cup {new}
  BY <1>1, <1>4 DEF Blocks
<1>10. InChannel(g, first, last)
  BY <1>2, <1>5, <1>6, <1>9 DEF InChannel, EndOf
<1>11. Disjoint(g)
  <2>1. g.start \cap g.used = {}
    <3>1. new \notin h.start \ {b}
      BY <1>7, <1>5, <1>2 DEF Apart, EndOf
    <3>2. \A r \in rest : r \notin h.used
      BY <1>7, <1>6, <1>2, <1>4 DEF Apart, EndOf
    <3> QED
      BY <3>1, <3>2, <1>1, <1>4, <1>8
  <2>2. ASSUME NEW c \in Blocks(g), NEW d \in Blocks(g), c # d
        PROVE  Apart(c, d)
    <3>1. CASE c \in (h.start \cup h.used) \ {b} /\ d \in (h.start \cup h.used) \ {b}
      BY <3>1, <2>2 DEF Sound, Disjoint, Blocks
    <3>2. CASE c \in (h.start \cup h.used) \ {b} /\ d \in rest \cup {new}
      BY <3>2, <1>7 DEF Apart
    <3>3. CASE c \in rest \cup {new} /\ d \in (h.start \cup h.used) \ {b}
      BY <3>3, <1>7 DEF Apart
    <3>4. CASE c \in rest \cup {new} /\ d \in rest \cup {new}
      <4>1. \A r, s \in rest : r = s
        BY DEF rest, Remainder
      <4> QED
        BY <3>4, <4>1, <1>8, <2>2 DEF Apart
    <3> QED
      BY <3>1, <3>2, <3>3, <3>4, <1>9
  <2> QED
    BY <2>1, <2>2 DEF Disjoint
<1>12. Coalesced(g)
  <2>1. ASSUME NEW c \in g.start, NEW d \in g.start
        PROVE  EndOf(c) # d.addr
    <3>1. CASE c \in h.start /\ d \in h.start
      BY <3>1 DEF Sound, Coalesced
    <3>2. CASE c \in h.start \ {b} /\ d \in rest
      BY <3>2, <1>6 DEF Sound, Coalesced
    <3>3. CASE c \in rest /\ d \in h.start \ {b}
      BY <3>3, <1>2, <1>3, <1>6 DEF Apart, EndOf
    <3>4. CASE c \in rest /\ d \in rest
      BY <3>4, <1>2, <1>6 DEF EndOf
    <3> QED
      BY <3>1, <3>2, <3>3, <3>4, <1>1
  <2> QED
    BY <2>1 DEF Coalesced
<1>13. NothingLost(g, first, last)
  <2>1. ASSUME NEW x \in first .. last
        PROVE  \E c \in Blocks(g) : x \in Cells(c)
    <3>1. PICK c \in h.start \cup h.used : x \in Cells(c)
      BY DEF Sound, NothingLost, Blocks
    <3>2. CASE c # b
      BY <3>1, <3>2, <1>9
    <3>3. CASE c = b /\ x >= new.addr
      <4>1. x \in Cells(new)
        BY <3>1, <3>3, <1>2, <1>5 DEF Cells, EndOf
      <4> QED
        BY <4>1, <1>9
    <3>4. CASE c = b /\ x < new.addr
      <4>1. b.size # n
        BY <3>1, <3>4, <1>2, <1>5 DEF Cells, EndOf
      <4>2. x \in Cells(left)
        BY <3>1, <3>4, <1>2, <1>5 DEF Cells, EndOf, Block
      <4>3. left \in rest
        BY <4>1 DEF rest, Remainder
      <4> QED
        BY <4>2, <4>3, <1>9
    <3> QED
      BY <3>2, <3>3, <3>4, <1>2, <1>5
  <2> QED
    BY <2>1 DEF NothingLost
<1>14. IndexesAgree(g)
  BY <1>1 DEF IndexesAgree
<1> QED
  BY <1>10, <1>11, <1>12, <1>13, <1>14 DEF Sound, g

------------------------------------------------------------------------------
(* The free blocks that touch an allocated one.                              *)
After(h, u) == {c \in h.start : c.addr = EndOf(u)}
Before(h, u) == {c \in h.start : EndOf(c) = u.addr}

(* m is u grown over its free neighbours.                                    *)
Swallows(h, u, m) ==
  /\ m = Block(m.addr, m.size) /\ m.addr \in Int /\ m.size \in Nat \ {0}
  /\ \/ After(h, u) = {} /\ EndOf(m) = EndOf(u)
     \/ \E c \in After(h, u) : EndOf(m) = EndOf(c)
  /\ \/ Before(h, u) = {} /\ m.addr = u.addr
     \/ \E c \in Before(h, u) : m.addr = c.addr

(* Blocks of a sound heap are determined by either of their two addresses.   *)
LEMMA BlockKeys ==
  ASSUME NEW h, NEW first \in Nat, NEW last \in Nat, Sound(h, first, last),
         NEW b \in h.start \cup h.used, NEW c \in h.start \cup h.used
  PROVE  /\ b.addr = c.addr => b = c
         /\ EndOf(b) = EndOf(c) => b = c
<1>1. /\ b.addr \in Int /\ b.size \in Nat \ {0}
      /\ c.addr \in Int /\ c.size \in Nat \ {0}
  BY DEF Sound, InChannel, Blocks
<1>2. b # c => Apart(b, c)
  BY DEF Sound, Disjoint, Blocks
<1> QED
  BY <1>1, <1>2 DEF Apart, EndOf

(* remove_free_block drops exactly the block it is given, from both indexes. *)
LEMMA RemoveShape ==
  ASSUME NEW h, NEW first \in Nat, NEW last \in Nat, Sound(h, first, last),
         NEW g, g.start \subseteq h.start, g.end = g.start,
         NEW b \in g.start
  PROVE  /\ remove_free_block(g, b).start = g.start \ {b}
         /\ remove_free_block(g, b).end = g.start \ {b}
         /\ remove_free_block(g, b).used = g.used
<1> DEFINE S == g.start
<1>1. \A c \in S : (c.addr = b.addr <=> c = b) /\ (EndOf(c) = EndOf(b) <=> c = b)
  BY BlockKeys
<1>2. {c \in S : c.addr # b.addr} = S \ {b}
  BY <1>1
<1>3. {c \in S : EndOf(c) # EndOf(b)} = S \ {b}
  BY <1>1
<1> QED
  BY <1>2, <1>3 DEF remove_free_block

(* The first half of deallocate: the block after u is swallowed.             *)
LEMMA MergeNextShape ==
  ASSUME NEW h, NEW first \in Nat, NEW last \in Nat, Sound(h, first, last),
         NEW u \in h.used
  PROVE  LET r == MergeNext(h, u)
         IN  /\ r.heap.start = h.start \ After(h, u)
             /\ r.heap.end = h.start \ After(h, u)
             /\ r.heap.used = h.used
             /\ r.block = Block(u.addr, r.block.size)
             /\ r.block.size \in Nat \ {0}
             /\ \/ After(h, u) = {} /\ EndOf(r.block) = EndOf(u)
                \/ \E c \in After(h, u) : EndOf(r.block) = EndOf(c)
<1>1. \A c \in h.start \cup h.used :
        c = Block(c.addr, c.size) /\ c.addr \in Int /\ c.size \in Nat \ {0}
  BY DEF Sound, InChannel, Blocks
<1>2. h.end = h.start
  BY DEF Sound, IndexesAgree
<1>3. CASE After(h, u) = {}
  <2>1. MergeNext(h, u) = [heap |-> h, block |-> u]
    BY <1>3 DEF MergeNext, After
  <2> QED
    BY <2>1, <1>1, <1>2, <1>3
<1>4. CASE After(h, u) # {}
  <2> DEFINE c == CHOOSE c \in h.start : c.addr = EndOf(u)
             m == Block(u.addr, u.size + c.size)
  <2>1. c \in h.start /\ c.addr = EndOf(u)
    BY <1>4 DEF After
  <2>2. MergeNext(h, u) = [heap |-> remove_free_block(h, c), block |-> m]
    BY <1>4 DEF MergeNext, After
  <2> HIDE DEF c
  <2>3. After(h, u) = {c}
    BY <2>1, BlockKeys DEF After
  <2>4. /\ remove_free_block(h, c).start = h.start \ {c}
        /\ remove_free_block(h, c).end = h.start \ {c}
        /\ remove_free_block(h, c).used = h.used
    BY <1>2, <2>1, RemoveShape
  <2>5. /\ m = Block(u.addr, m.size) /\ m.size \in Nat \ {0}
        /\ EndOf(m) = EndOf(c)
    BY <1>1, <2>1 DEF Block, EndOf
  <2> HIDE DEF m
  <2> QED
    BY <2>2, <2>3, <2>4, <2>5
<1> QED
  BY <1>3, <1>4

(* The second half: the block before it is swallowed as well.                *)
LEMMA MergePrevShape ==
  ASSUME NEW h, NEW first \in Nat, NEW last \in Nat, Sound(h, first, last),
         NEW u \in h.used
  PROVE  LET next == MergeNext(h, u)
             r == MergePrev(next.heap, next.block)
         IN  /\ r.heap.start = h.start \ (After(h, u) \cup Before(h, u))
             /\ r.heap.end = h.start \ (After(h, u) \cup Before(h, u))
             /\ r.heap.used = h.used
             /\ Swallows(h, u, r.block)
<1> DEFINE next == MergeNext(h, u)
           g == next.heap
           v == next.block
           S == h.start \ After(h, u)
<1>1. /\ g.start = S /\ g.end = S /\ g.used = h.used
      /\ v = Block(u.addr, v.size) /\ v.size \in Nat \ {0}
      /\ \/ After(h, u) = {} /\ EndOf(v) = EndOf(u)
         \/ \E c \in After(h, u) : EndOf(v) = EndOf(c)
  BY MergeNextShape
<1> HIDE DEF next, g, v
<1>2. \A c \in h.start \cup h.used :
        c = Block(c.addr, c.size) /\ c.addr \in Int /\ c.size \in Nat \ {0}
  BY DEF Sound, InChannel, Blocks
<1>3. v.addr = u.addr
  BY <1>1 DEF Block
<1>4. Before(h, u) \subseteq S
  BY <1>2 DEF Before, After, EndOf
<1>5. \A c \in S : EndOf(c) = v.addr <=> c \in Before(h, u)
  BY <1>3, <1>4 DEF Before
<1>6. CASE Before(h, u) = {}
  <2>1. MergePrev(g, v) = [heap |-> g, block |-> v]
    BY <1>1, <1>5, <1>6 DEF MergePrev
  <2>2. Swallows(h, u, v)
    BY <1>1, <1>2, <1>3, <1>6 DEF Swallows
  <2> QED
    BY <2>1, <2>2, <1>1, <1>6 DEF g, v, next
<1>7. CASE Before(h, u) # {}
  <2> DEFINE c == CHOOSE c \in g.end : EndOf(c) = v.addr
             m == Block(c.addr, v.size + c.size)
  <2>1. \E d \in g.end : EndOf(d) = v.addr
    BY <1>1, <1>4, <1>5, <1>7
  <2>2. c \in g.end /\ EndOf(c) = v.addr
    BY <2>1
  <2>3. MergePrev(g, v) = [heap |-> remove_free_block(g, c), block |-> m]
    BY <2>1 DEF MergePrev
  <2> HIDE DEF c
  <2>4. c \in S /\ c \in Before(h, u)
    BY <1>1, <1>5, <2>2
  <2>5. Before(h, u) = {c}
    BY <2>4, BlockKeys DEF Before
  <2>6. /\ remove_free_block(g, c).start = S \ {c}
        /\ remove_free_block(g, c).end = S \ {c}
        /\ remove_free_block(g, c).used = h.used
    <3>1. g.start \subseteq h.start /\ g.end = g.start /\ c \in g.start
      BY <1>1, <2>4
    <3>2. /\ remove_free_block(g, c).start = g.start \ {c}
          /\ remove_free_block(g, c).end = g.start \ {c}
          /\ remove_free_block(g, c).used = g.used
      BY <3>1, RemoveShape
    <3> QED
      BY <3>2, <1>1
  <2>7. /\ m = Block(m.addr, m.size) /\ m.addr \in Int /\ m.size \in Nat \ {0}
        /\ m.addr = c.addr /\ EndOf(m) = EndOf(v)
    BY <1>1, <1>2, <1>3, <2>2, <2>4 DEF Block, EndOf
  <2> HIDE DEF m
  <2>8. Swallows(h, u, m)
    BY <1>1, <2>4, <2>7 DEF Swallows
  <2> QED
    BY <2>3, <2>5, <2>6, <2>8 DEF g, v, next
<1> QED
  BY <1>6, <1>7

(* deallocate on a sound heap: u leaves the allocated blocks, and one free   *)
(* block takes the place of u and its free neighbours.                       *)
LEMMA DeallocateShape ==
  ASSUME NEW h, NEW first \in Nat, NEW last \in Nat, Sound(h, first, last),
         NEW u \in h.used
  PROVE  \E m :
           LET g == AfterDeallocate(h, u)
               S == h.start \ (After(h, u) \cup Before(h, u))
           IN  /\ Swallows(h, u, m)
               /\ g.start = S \cup {m}
               /\ g.end = S \cup {m}
               /\ g.used = h.used \ {u}
               /\ DOMAIN g = {"start", "end", "used"}
<1> DEFINE next == MergeNext(h, u)
           prev == MergePrev(next.heap, next.block)
           k == prev.heap
           m == prev.block
           S == h.start \ (After(h, u) \cup Before(h, u))
<1>1. k.start = S /\ k.end = S /\ k.used = h.used /\ Swallows(h, u, m)
  BY MergePrevShape
<1>2. /\ AfterDeallocate(h, u).start = add_free_block(k, m).start
      /\ AfterDeallocate(h, u).end = add_free_block(k, m).end
      /\ AfterDeallocate(h, u).used =
           {c \in add_free_block(k, m).used : c.addr # u.addr}
      /\ DOMAIN AfterDeallocate(h, u) = {"start", "end", "used"}
  BY DEF AfterDeallocate
<1> HIDE DEF next, prev, k, m
<1>3. \A c \in h.start \cup h.used : c.addr \in Int /\ c.size \in Nat \ {0}
  BY DEF Sound, InChannel, Blocks
<1>4. \A b, c \in h.start \cup h.used : b # c => Apart(b, c)
  BY DEF Sound, Disjoint, Blocks
<1>5. \A c \in h.start : c # u
  BY DEF Sound, Disjoint
<1>6. \A c \in S : c.addr # m.addr
  <2> TAKE c \in S
  <2>1. CASE m.addr = u.addr
    BY <2>1, <1>5, BlockKeys
  <2>2. CASE \E d \in Before(h, u) : m.addr = d.addr
    BY <2>2, BlockKeys DEF Before
  <2> QED
    BY <1>1, <2>1, <2>2 DEF Swallows
<1>7. \A c \in S : EndOf(c) # EndOf(m)
  <2> TAKE c \in S
  <2>1. CASE EndOf(m) = EndOf(u)
    BY <2>1, <1>5, BlockKeys
  <2>2. CASE \E d \in After(h, u) : EndOf(m) = EndOf(d)
    BY <2>2, BlockKeys DEF After
  <2> QED
    BY <1>1, <2>1, <2>2 DEF Swallows
<1>8. add_free_block(k, m) =
        [start |-> S \cup {m}, end |-> S \cup {m}, used |-> h.used]
  <2>1. {c \in S : c.addr # m.addr} = S
    BY <1>6
  <2>2. {c \in S : EndOf(c) # EndOf(m)} = S
    BY <1>7
  <2> HIDE DEF S
  <2> QED
    BY <2>1, <2>2, <1>1 DEF add_free_block
<1>9. {c \in h.used : c.addr # u.addr} = h.used \ {u}
  BY BlockKeys
<1>10. /\ AfterDeallocate(h, u).start = S \cup {m}
       /\ AfterDeallocate(h, u).end = S \cup {m}
       /\ AfterDeallocate(h, u).used = h.used \ {u}
  <2> HIDE DEF S
  <2> QED
    BY <1>2, <1>8, <1>9
<1> QED
  BY <1>1, <1>2, <1>10

(* deallocate keeps the heap sound.                                          *)
LEMMA DeallocateSound ==
  ASSUME NEW h, NEW first \in Nat, NEW last \in Nat, Sound(h, first, last),
         NEW u \in h.used
  PROVE  Sound(AfterDeallocate(h, u), first, last)
<1> DEFINE g == AfterDeallocate(h, u)
           A == After(h, u)
           B == Before(h, u)
           S == h.start \ (A \cup B)
           O == S \cup (h.used \ {u})
<1>1. PICK m : /\ Swallows(h, u, m)
               /\ g.start = S \cup {m}
               /\ g.end = S \cup {m}
               /\ g.used = h.used \ {u}
  BY DeallocateShape
<1> HIDE DEF g
<1>2. \A c \in h.start \cup h.used :
        /\ c = Block(c.addr, c.size)
        /\ c.addr \in Int /\ c.size \in Nat \ {0}
        /\ first <= c.addr /\ EndOf(c) <= last + 1
        /\ EndOf(c) = c.addr + c.size
  BY DEF Sound, InChannel, Blocks, EndOf
<1>3. \A b, c \in h.start \cup h.used : b # c => Apart(b, c)
  BY DEF Sound, Disjoint, Blocks
<1>4. h.start \cap h.used = {}
  BY DEF Sound, Disjoint
<1>5. \A b, c \in h.start : EndOf(b) # c.addr
  BY DEF Sound, Coalesced
<1>6. /\ m = Block(m.addr, m.size) /\ m.addr \in Int /\ m.size \in Nat \ {0}
      /\ EndOf(m) = m.addr + m.size
  BY <1>1 DEF Swallows, EndOf
<1>7. \/ A = {} /\ EndOf(m) = EndOf(u)
      \/ \E c \in A : EndOf(m) = EndOf(c)
  BY <1>1 DEF Swallows
<1>8. \/ B = {} /\ m.addr = u.addr
      \/ \E c \in B : m.addr = c.addr
  BY <1>1 DEF Swallows
<1>9. \A c \in A : c \in h.start /\ c.addr = EndOf(u)
  BY DEF After
<1>10. \A c \in B : c \in h.start /\ EndOf(c) = u.addr
  BY DEF Before
<1>11. \A c \in h.start : (c.addr = EndOf(u) => c \in A)
                       /\ (EndOf(c) = u.addr => c \in B)
  BY DEF After, Before
<1> HIDE DEF A, B
<1>12. Blocks(g) = O \cup {m}
  BY <1>1 DEF Blocks
<1>13. \A d \in O : Apart(m, d)
  <2> TAKE d \in O
  <2>1. d \in h.start \cup h.used /\ d # u /\ d \notin A /\ d \notin B
    BY <1>4, <1>9, <1>10
  <2>2. Apart(u, d)
    BY <2>1, <1>3
  <2>3. CASE EndOf(u) <= d.addr
    <3>1. EndOf(m) <= d.addr
      <4>1. CASE EndOf(m) = EndOf(u)
        BY <4>1, <2>3
      <4>2. CASE \E c \in A : EndOf(m) = EndOf(c)
        <5>1. PICK c \in A : EndOf(m) = EndOf(c)
          BY <4>2
        <5>2. Apart(c, d)
          BY <2>1, <1>3, <1>9
        <5> QED
          BY <5>1, <5>2, <2>1, <2>3, <1>2, <1>9 DEF Apart
      <4> QED
        BY <4>1, <4>2, <1>7
    <3> QED
      BY <3>1 DEF Apart
  <2>4. CASE EndOf(d) <= u.addr
    <3>1. EndOf(d) <= m.addr
      <4>1. CASE m.addr = u.addr
        BY <4>1, <2>4
      <4>2. CASE \E c \in B : m.addr = c.addr
        <5>1. PICK c \in B : m.addr = c.addr
          BY <4>2
        <5>2. Apart(c, d)
          BY <2>1, <1>3, <1>10
        <5> QED
          BY <5>1, <5>2, <2>1, <2>4, <1>2, <1>10 DEF Apart
      <4> QED
        BY <4>1, <4>2, <1>8
    <3> QED
      BY <3>1 DEF Apart
  <2> QED
    BY <2>2, <2>3, <2>4 DEF Apart
<1>14. InChannel(g, first, last)
  <2>1. first <= m.addr
    BY <1>2, <1>8, <1>10
  <2>2. EndOf(m) <= last + 1
    BY <1>2, <1>7, <1>9
  <2>3. \A d \in O : d \in h.start \cup h.used
    OBVIOUS
  <2> QED
    BY <2>1, <2>2, <2>3, <1>2, <1>6, <1>12 DEF InChannel
<1>15. Disjoint(g)
  <2>1. m \notin h.used \ {u}
    BY <1>2, <1>6, <1>13 DEF Apart
  <2>2. g.start \cap g.used = {}
    BY <2>1, <1>1, <1>4
  <2>3. ASSUME NEW c \in O \cup {m}, NEW d \in O \cup {m}, c # d
        PROVE  Apart(c, d)
    <3>1. CASE c \in O /\ d \in O
      BY <3>1, <2>3, <1>3
    <3>2. CASE c = m \/ d = m
      BY <3>2, <2>3, <1>13 DEF Apart
    <3> QED
      BY <3>1, <3>2
  <2> QED
    BY <2>2, <2>3, <1>12 DEF Disjoint
<1>16. Coalesced(g)
  <2>1. ASSUME NEW c \in S, EndOf(m) = c.addr
        PROVE  FALSE
    BY <2>1, <1>5, <1>7, <1>9, <1>11
  <2>2. ASSUME NEW c \in S, EndOf(c) = m.addr
        PROVE  FALSE
    BY <2>2, <1>5, <1>8, <1>10, <1>11
  <2>3. EndOf(m) # m.addr
    BY <1>6
  <2>4. \A b, c \in S : EndOf(b) # c.addr
    BY <1>5
  <2> QED
    BY <2>1, <2>2, <2>3, <2>4, <1>1 DEF Coalesced
<1>17. NothingLost(g, first, last)
  <2>1. ASSUME NEW x \in first .. last
        PROVE  \E c \in O \cup {m} : x \in Cells(c)
    <3>1. PICK c \in h.start \cup h.used : x \in Cells(c)
      BY DEF Sound, NothingLost, Blocks
    <3>2. CASE c \in O
      BY <3>1, <3>2
    <3>3. CASE c \in A \cup B \cup {u}
      <4>1. m.addr <= u.addr
        BY <1>2, <1>8, <1>10
      <4>2. EndOf(u) <= EndOf(m)
        BY <1>2, <1>7, <1>9
      <4>3. \A d \in A : EndOf(d) <= EndOf(m)
        BY <1>2, <1>7, <1>9, BlockKeys
      <4>4. \A d \in B : m.addr <= d.addr
        BY <1>2, <1>8, <1>10, BlockKeys
      <4>5. c.addr <= x /\ x < EndOf(c)
        BY <3>1, <1>2 DEF Cells
      <4>6. m.addr <= x /\ x < EndOf(m)
        <5>1. CASE c = u
          BY <5>1, <4>1, <4>2, <4>5, <1>2, <1>6
        <5>2. CASE c \in A
          BY <5>2, <4>1, <4>3, <4>5, <1>2, <1>6, <1>9
        <5>3. CASE c \in B
          BY <5>3, <4>2, <4>4, <4>5, <1>2, <1>6, <1>10
        <5> QED
          BY <5>1, <5>2, <5>3, <3>3
      <4>7. x \in Cells(m)
        BY <4>6, <1>6 DEF Cells
      <4> QED
        BY <4>7
    <3> QED
      BY <3>2, <3>3
  <2> QED
    BY <2>1, <1>12 DEF NothingLost
<1>18. IndexesAgree(g)
  BY <1>1 DEF IndexesAgree
<1> QED
  BY <1>14, <1>15, <1>16, <1>17, <1>18 DEF Sound, g

------------------------------------------------------------------------------
(* A new allocator's heap is sound.                                          *)
LEMMA FreshSound ==
  ASSUME NEW first \in Nat, NEW last \in Nat, first < last
  PROVE  /\ Sound(Fresh(first, last), first, last)
         /\ Fresh(first, last).start = {Block(first, last - first + 1)}
         /\ Fresh(first, last).used = {}
         /\ DOMAIN Fresh(first, last) = {"start", "end", "used"}
<1> DEFINE all == Block(first, last - first + 1)
           g == Fresh(first, last)
<1>1. g = [start |-> {all}, end |-> {all}, used |-> {}]
  BY DEF Fresh, add_free_block, NoBlocks
<1>2. /\ all.addr = first /\ all.size = last - first + 1
      /\ EndOf(all) = last + 1 /\ all = Block(all.addr, all.size)
  BY DEF Block, EndOf
<1> HIDE DEF all, g
<1>3. Blocks(g) = {all}
  BY <1>1 DEF Blocks
<1>4. InChannel(g, first, last)
  BY <1>2, <1>3 DEF InChannel
<1>5. IndexesAgree(g) /\ Disjoint(g)
  BY <1>1, <1>3 DEF IndexesAgree, Disjoint
<1>6. Coalesced(g)
  BY <1>1, <1>2 DEF Coalesced
<1>7. NothingLost(g, first, last)
  BY <1>2, <1>3 DEF NothingLost, Cells
<1> QED
  BY <1>1, <1>4, <1>5, <1>6, <1>7 DEF Sound, g, all

(* When no block fits, no free run of that many cells exists: a run would    *)
(* begin in a free block too small for it, so the next cell would be in      *)
(* another free block, and that one would touch the first.                   *)
LEMMA RefusalJustified ==
  ASSUME NEW h, NEW first \in Nat, NEW last \in Nat, Sound(h, first, last),
         NEW n \in Nat \ {0}, Fitting(h, n) = {},
         NEW a \in Int, first <= a, a + n <= last + 1
  PROVE  \E b \in h.used : ~(a + n <= b.addr \/ EndOf(b) <= a)
<1> SUFFICES ASSUME \A b \in h.used : a + n <= b.addr \/ EndOf(b) <= a
             PROVE  FALSE
  OBVIOUS
<1>1. \A c \in h.start \cup h.used :
        /\ c.addr \in Int /\ c.size \in Nat \ {0}
        /\ first <= c.addr /\ EndOf(c) <= last + 1
        /\ EndOf(c) = c.addr + c.size
  BY DEF Sound, InChannel, Blocks, EndOf
<1>2. \A x \in first .. last :
        \E b \in h.start \cup h.used : b.addr <= x /\ x < EndOf(b)
  BY <1>1 DEF Sound, NothingLost, Blocks, Cells
<1>3. \A x \in a .. (a + n - 1) :
        \E b \in h.start : b.addr <= x /\ x < EndOf(b)
  BY <1>1, <1>2
<1>4. PICK b \in h.start : b.addr <= a /\ a < EndOf(b)
  BY <1>3
<1>5. b.size < n
  BY <1>1 DEF Fitting
<1>6. PICK c \in h.start : c.addr <= EndOf(b) /\ EndOf(b) < EndOf(c)
  BY <1>1, <1>3, <1>4, <1>5
<1>7. b # c /\ Apart(b, c)
  BY <1>1, <1>6 DEF Sound, Disjoint, Blocks
<1>8. EndOf(b) = c.addr
  BY <1>1, <1>6, <1>7 DEF Apart
<1> QED
  BY <1>8 DEF Sound, Coalesced

(* A sound heap with nothing allocated is the heap of a new allocator.       *)
LEMMA EmptyIsFresh ==
  ASSUME NEW h, NEW first \in Nat, NEW last \in Nat, first < last,
         Sound(h, first, last), h.used = {}
  PROVE  h.start = {Block(first, last - first + 1)}
<1>1. \A c \in h.start :
        /\ c = Block(c.addr, c.size)
        /\ c.addr \in Int /\ c.size \in Nat \ {0}
        /\ first <= c.addr /\ EndOf(c) <= last + 1
        /\ EndOf(c) = c.addr + c.size
  BY DEF Sound, InChannel, Blocks, EndOf
<1>2. \A x \in first .. last : \E b \in h.start : b.addr <= x /\ x < EndOf(b)
  BY <1>1 DEF Sound, NothingLost, Blocks, Cells
<1>3. \A b, c \in h.start : b # c => Apart(b, c)
  BY DEF Sound, Disjoint, Blocks
<1>4. PICK b \in h.start : b.addr <= first /\ first < EndOf(b)
  BY <1>2
<1>5. EndOf(b) = last + 1
  <2> SUFFICES ASSUME EndOf(b) # last + 1
               PROVE  FALSE
    OBVIOUS
  <2>1. PICK c \in h.start : c.addr <= EndOf(b) /\ EndOf(b) < EndOf(c)
    BY <1>1, <1>2, <1>4
  <2>2. c.addr = EndOf(b)
    BY <2>1, <1>1, <1>3 DEF Apart
  <2> QED
    BY <2>2 DEF Sound, Coalesced
<1>6. b = Block(first, last - first + 1)
  BY <1>1, <1>4, <1>5
<1>7. \A c \in h.start : c = b
  BY <1>1, <1>3, <1>4, <1>5 DEF Apart
<1> QED
  BY <1>6, <1>7

------------------------------------------------------------------------------
(* The channel allocator.                                                    *)

(* The inductive invariant: the heap is sound, and a clear in progress has   *)
(* exactly the blocks left that are still allocated.                         *)
HeapInv ==
  /\ DOMAIN blocks = {"start", "end", "used"}
  /\ Sound(blocks, First, Last)
  /\ clearing = {} \/ clearing = blocks.used

(* A new allocator is sound.                                                 *)
LEMMA InitHeap == AllocatorInit => HeapInv
<1> SUFFICES ASSUME AllocatorInit PROVE HeapInv
  OBVIOUS
<1>1. blocks = Fresh(First, Last)
  BY DEF AllocatorInit, Construct, NoBlocks
<1> QED
  BY <1>1, FreshSound, RangeAssumption DEF AllocatorInit, HeapInv

(* A granted request: what allocate returns and does to the heap.            *)
LEMMA AllocateEffect ==
  ASSUME HeapInv, NEW n \in Sizes, Allocate(n)
  PROVE  /\ HeapInv'
         /\ GrantedAddr(blocks, n) \in First .. Last
         /\ Pool!Unheld(GrantedAddr(blocks, n), n)
         /\ blocks'.used = blocks.used \cup {Block(GrantedAddr(blocks, n), n)}
<1> DEFINE b == Closest(blocks, n)
<1>1. n \in Nat \ {0}
  BY SizesAssumption
<1>2. b \in blocks.start /\ b.size >= n
  BY <1>1, ClosestFits, RangeAssumption DEF HeapInv, Sound, Allocate
<1>3. blocks' = Carve(blocks, b, n)
  BY DEF Allocate, AfterAllocate
<1>4. GrantedAddr(blocks, n) = EndOf(b) - n
  BY DEF GrantedAddr
<1> HIDE DEF b
<1>5. b.addr \in Int /\ b.size \in Nat /\ First <= b.addr /\ EndOf(b) <= Last + 1
  BY <1>2 DEF HeapInv, Sound, InChannel, Blocks
<1>6. n <= b.size
  BY <1>1, <1>2, <1>5
<1>7. /\ blocks'.used = blocks.used \cup {Block(EndOf(b) - n, n)}
      /\ DOMAIN blocks' = {"start", "end", "used"}
  BY <1>1, <1>2, <1>3, <1>6, CarveShape, RangeAssumption DEF HeapInv
<1>8. Sound(blocks', First, Last)
  BY <1>1, <1>2, <1>3, <1>6, CarveSound, RangeAssumption DEF HeapInv
<1>9. HeapInv'
  BY <1>7, <1>8 DEF HeapInv, Allocate
<1>10. GrantedAddr(blocks, n) \in First .. Last
  BY <1>1, <1>4, <1>5, <1>6, RangeAssumption DEF EndOf
<1>11. Pool!Unheld(GrantedAddr(blocks, n), n)
  <2>1. \A c \in blocks.used : c.addr \in Int /\ c.size \in Nat \ {0}
    BY DEF HeapInv, Sound, InChannel, Blocks
  <2>2. \A c \in blocks.used : Apart(b, c)
    BY <1>2 DEF HeapInv, Sound, Disjoint, Blocks
  <2> QED
    BY <2>1, <2>2, <1>1, <1>4, <1>5, <1>6, RangeAssumption
       DEF Pool!Unheld, Apart, EndOf
<1> QED
  BY <1>4, <1>7, <1>9, <1>10, <1>11

(* A release, by itself or as a step of a clear.                             *)
LEMMA DeallocateEffect ==
  ASSUME HeapInv, NEW b \in blocks.used, blocks' = AfterDeallocate(blocks, b)
  PROVE  /\ DOMAIN blocks' = {"start", "end", "used"}
         /\ Sound(blocks', First, Last)
         /\ blocks'.used = blocks.used \ {b}
<1>1. Sound(blocks', First, Last)
  BY DeallocateSound, RangeAssumption DEF HeapInv
<1> QED
  BY <1>1, DeallocateShape, RangeAssumption DEF HeapInv

(* Every call keeps the heap sound.                                          *)
LEMMA NextHeap == HeapInv /\ [AllocatorNext]_allocatorVars => HeapInv'
<1> SUFFICES ASSUME HeapInv, [AllocatorNext]_allocatorVars PROVE HeapInv'
  OBVIOUS
<1>1. ASSUME NEW n \in Sizes, Allocate(n) PROVE HeapInv'
  BY <1>1, AllocateEffect
<1>2. ASSUME NEW n \in Sizes, AllocateFails(n) PROVE HeapInv'
  BY <1>2 DEF AllocateFails, HeapInv
<1>3. ASSUME NEW b \in blocks.used, Deallocate(b) PROVE HeapInv'
  BY <1>3, DeallocateEffect DEF Deallocate, HeapInv
<1>4. ASSUME NEW a \in First .. Last, DeallocateThrows(a) PROVE HeapInv'
  BY <1>4 DEF DeallocateThrows, HeapInv
<1>5. CASE ClearStarts
  BY <1>5 DEF ClearStarts, HeapInv
<1>6. ASSUME NEW b \in clearing, ClearStep(b) PROVE HeapInv'
  <2>1. b \in blocks.used
    BY DEF HeapInv
  <2> QED
    BY <2>1, <1>6, DeallocateEffect DEF ClearStep, HeapInv
<1>7. CASE UNCHANGED allocatorVars
  BY <1>7 DEF allocatorVars, HeapInv
<1> QED
  BY <1>1, <1>2, <1>3, <1>4, <1>5, <1>6, <1>7 DEF AllocatorNext

(* In every reachable state of a channel allocator the blocks tile the       *)
(* channel: inside it, no cell in two of them, no cell in none, the two free *)
(* indexes equal and no two free blocks side by side.                        *)
THEOREM HeapInvariant ==
  AllocatorSpec => [](TypeOK /\ FreeIndexesAgree /\ NoCellTwice /\ FreeCoalesced /\ NoCellLost)
<1>1. HeapInv => TypeOK /\ FreeIndexesAgree /\ NoCellTwice /\ FreeCoalesced /\ NoCellLost
  BY DEF HeapInv, Sound, TypeOK, FreeIndexesAgree, NoCellTwice, FreeCoalesced,
         NoCellLost
<1> QED
  BY <1>1, InitHeap, NextHeap, PTL DEF AllocatorSpec

(* The allocator implements the memory pool: every grant is of cells nobody  *)
(* holds and every refusal is of a request no free run could serve.          *)
THEOREM ImplementsPool == AllocatorSpec => PoolSpec
<1>1. AllocatorInit => Pool!PoolInit
  <2> SUFFICES ASSUME AllocatorInit PROVE Pool!PoolInit
    OBVIOUS
  <2>1. blocks = Fresh(First, Last)
    BY DEF AllocatorInit, Construct, NoBlocks
  <2> QED
    BY <2>1, FreshSound, RangeAssumption DEF AllocatorInit, Pool!PoolInit
<1>2. HeapInv /\ [AllocatorNext]_allocatorVars => [Pool!PoolNext]_(Pool!poolVars)
  <2> SUFFICES ASSUME HeapInv, [AllocatorNext]_allocatorVars
               PROVE  [Pool!PoolNext]_(Pool!poolVars)
    OBVIOUS
  <2>1. ASSUME NEW n \in Sizes, Allocate(n) PROVE Pool!Grant(n)
    <3>1. /\ GrantedAddr(blocks, n) \in First .. Last
          /\ Pool!Unheld(GrantedAddr(blocks, n), n)
          /\ blocks'.used = blocks.used \cup {Block(GrantedAddr(blocks, n), n)}
      BY <2>1, AllocateEffect
    <3>2. reply' = [is |-> "granted", addr |-> GrantedAddr(blocks, n), size |-> n]
      BY <2>1 DEF Allocate
    <3> QED
      BY <3>1, <3>2 DEF Pool!Grant, Pool!Run, Block
  <2>2. ASSUME NEW n \in Sizes, AllocateFails(n) PROVE Pool!Refuse(n)
    <3>1. n \in Nat \ {0}
      BY SizesAssumption
    <3>2. ASSUME NEW a \in First .. Last, Pool!Unheld(a, n) PROVE FALSE
      <4>1. a \in Int /\ First <= a /\ a + n <= Last + 1
        BY <3>2, RangeAssumption DEF Pool!Unheld
      <4>2. \E b \in blocks.used : ~(a + n <= b.addr \/ EndOf(b) <= a)
        BY <4>1, <3>1, <2>2, RefusalJustified, RangeAssumption
           DEF HeapInv, AllocateFails
      <4> QED
        BY <4>2, <3>2 DEF Pool!Unheld, EndOf
    <3> QED
      BY <3>2, <2>2 DEF Pool!Refuse, AllocateFails
  <2>3. ASSUME NEW b \in blocks.used, Deallocate(b) PROVE Pool!Release
    BY <2>3, DeallocateEffect DEF Deallocate, Pool!Release
  <2>4. ASSUME NEW a \in First .. Last, DeallocateThrows(a)
        PROVE  Pool!RejectRelease
    BY <2>4 DEF DeallocateThrows, Pool!RejectRelease
  <2>5. ASSUME ClearStarts PROVE UNCHANGED Pool!poolVars
    BY <2>5 DEF ClearStarts, Pool!poolVars
  <2>6. ASSUME NEW b \in clearing, ClearStep(b) PROVE Pool!Release
    <3>1. b \in blocks.used
      BY DEF HeapInv
    <3> QED
      BY <3>1, <2>6, DeallocateEffect DEF ClearStep, Pool!Release
  <2>7. ASSUME UNCHANGED allocatorVars PROVE UNCHANGED Pool!poolVars
    BY <2>7 DEF allocatorVars, Pool!poolVars
  <2> QED
    BY <2>1, <2>2, <2>3, <2>4, <2>5, <2>6, <2>7 DEF AllocatorNext, Pool!PoolNext
<1> QED
  BY <1>1, <1>2, InitHeap, NextHeap, PTL DEF AllocatorSpec, PoolSpec, Pool!PoolSpec

(* However the hash map orders the releases, a completed clear leaves the    *)
(* heap of a new allocator.                                                  *)
THEOREM ClearGivesFreshHeap == AllocatorSpec => ClearRestores
<1>1. HeapInv /\ [AllocatorNext]_allocatorVars =>
        [clearing # {} /\ clearing' = {} => blocks' = Fresh(First, Last)]_allocatorVars
  <2> SUFFICES ASSUME HeapInv, AllocatorNext, clearing # {}, clearing' = {}
               PROVE  blocks' = Fresh(First, Last)
    BY DEF allocatorVars
  <2>1. PICK b \in clearing : ClearStep(b)
    BY DEF AllocatorNext, Allocate, AllocateFails, Deallocate, DeallocateThrows, ClearStarts
  <2>2. b \in blocks.used /\ blocks.used = clearing
    BY DEF HeapInv
  <2>3. blocks' = AfterDeallocate(blocks, b) /\ clearing \ {b} = {}
    BY <2>1 DEF ClearStep
  <2>4. Sound(blocks', First, Last) /\ blocks'.used = {}
    BY <2>2, <2>3, DeallocateEffect
  <2>5. /\ blocks'.start = {Block(First, Last - First + 1)}
        /\ blocks'.end = blocks'.start
    BY <2>4, EmptyIsFresh, RangeAssumption DEF Sound, IndexesAgree
  <2>6. blocks' = [start |-> blocks'.start, end |-> blocks'.end,
                   used |-> blocks'.used]
    BY <2>3 DEF AfterDeallocate
  <2>7. Fresh(First, Last) = [start |-> {Block(First, Last - First + 1)},
                              end |-> {Block(First, Last - First + 1)},
                              used |-> {}]
    BY RangeAssumption DEF Fresh, add_free_block, NoBlocks
  <2> QED
    BY <2>4, <2>5, <2>6, <2>7
<1> QED
  BY <1>1, InitHeap, NextHeap, PTL DEF AllocatorSpec, ClearRestores

------------------------------------------------------------------------------
(* The placement of DRAM queues.                                             *)
(***************************************************************************)
(* Blocks of one heap.                                                     *)
(***************************************************************************)
(* A heap of addresses first..last: sound, or, if the range is empty, empty. *)
HeapOk(h, first, last) ==
  \/ h = NoBlocks
  \/ first \in Nat /\ last \in Nat /\ first < last /\ Sound(h, first, last)

(* A new or handed-over heap.                                                *)
LEMMA HeapConstruct ==
  ASSUME NEW h, NEW first \in Nat, NEW last \in Int, HeapOk(h, first, last)
  PROVE  /\ HeapOk(Construct(first, last, h), first, last)
         /\ h = NoBlocks => Construct(first, last, h).used = {}
<1>1. CASE h.start # {}
  BY <1>1 DEF Construct, NoBlocks
<1>2. CASE h.start = {} /\ first < last
  <2>1. last \in Nat
    BY <1>2
  <2> QED
    BY <2>1, <1>2, FreshSound DEF Construct, HeapOk
<1>3. CASE h.start = {} /\ ~(first < last)
  BY <1>3 DEF Construct, Fresh, HeapOk, NoBlocks
<1> QED
  BY <1>1, <1>2, <1>3

(* allocate: the run granted lies in the heap and meets no allocated block.  *)
LEMMA HeapAllocate ==
  ASSUME NEW h, NEW first, NEW last, HeapOk(h, first, last),
         NEW n \in Nat \ {0}, Fitting(h, n) # {}
  PROVE  LET u == Block(GrantedAddr(h, n), n)
         IN  /\ HeapOk(AfterAllocate(h, n), first, last)
             /\ AfterAllocate(h, n).used = h.used \cup {u}
             /\ u \notin h.used
             /\ u.addr \in Int /\ first <= u.addr /\ EndOf(u) <= last + 1
             /\ \A c \in h.used : Apart(u, c) /\ c.addr \in Int /\ c.size \in Nat \ {0}
<1> DEFINE b == Closest(h, n)
           u == Block(GrantedAddr(h, n), n)
           g == AfterAllocate(h, n)
<1>1. first \in Nat /\ last \in Nat /\ first < last /\ Sound(h, first, last)
  BY DEF HeapOk, NoBlocks, Fitting
<1>2. b \in h.start /\ b.size >= n
  BY <1>1, ClosestFits DEF Sound
<1>3. u = Block(EndOf(b) - n, n) /\ g = Carve(h, b, n)
  BY DEF GrantedAddr, AfterAllocate
<1> HIDE DEF b, u, g
<1>4. \A c \in h.start \cup h.used : /\ c.addr \in Int /\ c.size \in Nat \ {0}
                                     /\ first <= c.addr /\ EndOf(c) <= last + 1
                                     /\ EndOf(c) = c.addr + c.size
  BY <1>1 DEF Sound, InChannel, Blocks, EndOf
<1>5. n <= b.size
  BY <1>2, <1>4
<1>6. Sound(g, first, last)
  BY <1>1, <1>2, <1>3, <1>5, CarveSound
<1>7. g.used = h.used \cup {u}
  BY <1>1, <1>2, <1>3, <1>5, CarveShape
<1>8. u.addr = EndOf(b) - n /\ u.size = n /\ EndOf(b) = b.addr + b.size /\ EndOf(u) = EndOf(b)
  BY <1>2, <1>3, <1>4 DEF Block, EndOf
<1>9. u.addr \in Int /\ first <= u.addr /\ EndOf(u) <= last + 1
  BY <1>1, <1>2, <1>4, <1>5, <1>8
<1>10. ASSUME NEW c \in h.used PROVE Apart(u, c) /\ u # c
  <2>1. b # c /\ Apart(b, c)
    BY <1>1, <1>2 DEF Sound, Disjoint, Blocks
  <2>2. Apart(u, c)
    BY <2>1, <1>2, <1>4, <1>5, <1>8 DEF Apart
  <2> QED
    BY <2>2, <1>4, <1>8 DEF Apart, EndOf
<1>11. u \notin h.used
  BY <1>10
<1>12. \A c \in h.used : Apart(u, c) /\ c.addr \in Int /\ c.size \in Nat \ {0}
  BY <1>4, <1>10
<1>13. HeapOk(g, first, last)
  BY <1>1, <1>6 DEF HeapOk
<1> QED
  BY <1>7, <1>9, <1>11, <1>12, <1>13 DEF u, g

(* deallocate: the block leaves, the rest stay.                              *)
LEMMA HeapDeallocate ==
  ASSUME NEW h, NEW first, NEW last, HeapOk(h, first, last), NEW u \in h.used
  PROVE  /\ HeapOk(AfterDeallocate(h, u), first, last)
         /\ AfterDeallocate(h, u).used = h.used \ {u}
<1>1. first \in Nat /\ last \in Nat /\ first < last /\ Sound(h, first, last)
  BY DEF HeapOk, NoBlocks
<1> QED
  BY <1>1, DeallocateSound, DeallocateShape DEF HeapOk

(* Buffers, whatever attempt they belong to.                                 *)
BufferSet == [chan : Nat, addr : Int, size : Nat \ {0}, p2p : BOOLEAN]

(* The heap a buffer lives in: a virtual channel, or -1 for the p2p region.  *)
KeyOf(b) == IF b.p2p THEN -1 ELSE b.chan

(* Given the buffers of each queue: a buffer by its queue and its place in it.*)
Owners(B) == {x \in Queues \X Nat : x[2] \in DOMAIN B[x[1]]}

At(B, x) == B[x[1]][x[2]]

(* Every heap is sound in its range.                                         *)
HeapsOk(H, R) ==
  /\ DOMAIN H = DOMAIN R
  /\ \A k \in DOMAIN H : HeapOk(H[k], R[k][1], R[k][2])

(* The buffers L have blocks in the heaps H, each one of its own,            *)
Backed(B, L, H) ==
  /\ L \subseteq Owners(B)
  /\ \A x \in L : /\ KeyOf(At(B, x)) \in DOMAIN H
                  /\ BlockOf(At(B, x)) \in H[KeyOf(At(B, x))].used
  /\ \A x, y \in L : x # y /\ KeyOf(At(B, x)) = KeyOf(At(B, y))
                       => BlockOf(At(B, x)) # BlockOf(At(B, y))

(* and there are no other blocks.                                            *)
Exact(B, L, H) ==
  \A k \in DOMAIN H : \A u \in H[k].used :
    \E x \in L : KeyOf(At(B, x)) = k /\ BlockOf(At(B, x)) = u

(* Buffers of queues in use in a common epoch share no cell of a heap.       *)
Separate(B, E) ==
  \A x, y \in Owners(B) :
    /\ x # y /\ KeyOf(At(B, x)) = KeyOf(At(B, y))
    /\ E[x[1]] \cap E[y[1]] # {}
    => Apart(BlockOf(At(B, x)), BlockOf(At(B, y)))

(* Every buffer lies in the range of its heap.                               *)
Ranged(B, R) ==
  \A x \in Owners(B) :
    /\ KeyOf(At(B, x)) \in DOMAIN R
    /\ R[KeyOf(At(B, x))][1] <= At(B, x).addr
    /\ At(B, x).addr + At(B, x).size <= R[KeyOf(At(B, x))][2] + 1

(* C has the buffers of B, and b as the new one.                             *)
Extends(C, B, new, b) ==
  /\ Owners(C) = Owners(B) \cup {new}
  /\ new \notin Owners(B)
  /\ At(C, new) = b
  /\ \A x \in Owners(B) : At(C, x) = At(B, x)

(* One buffer more for queue q.                                              *)
LEMMA AppendExtends ==
  ASSUME NEW B \in [Queues -> Seq(BufferSet)], NEW q \in Queues,
         NEW b \in BufferSet
  PROVE  /\ [B EXCEPT ![q] = Append(@, b)] \in [Queues -> Seq(BufferSet)]
         /\ Extends([B EXCEPT ![q] = Append(@, b)], B, <<q, Len(B[q]) + 1>>, b)
<1> DEFINE B2 == [B EXCEPT ![q] = Append(@, b)]
           new == <<q, Len(B[q]) + 1>>
<1>1. B[q] \in Seq(BufferSet) /\ Len(B[q]) \in Nat
  OBVIOUS
<1>2. B2[q] = Append(B[q], b) /\ \A r \in Queues \ {q} : B2[r] = B[r]
  OBVIOUS
<1>3. /\ Append(B[q], b) \in Seq(BufferSet)
      /\ DOMAIN Append(B[q], b) = DOMAIN B[q] \cup {Len(B[q]) + 1}
      /\ Append(B[q], b)[Len(B[q]) + 1] = b
      /\ \A i \in DOMAIN B[q] : Append(B[q], b)[i] = B[q][i]
      /\ Len(B[q]) + 1 \notin DOMAIN B[q]
      /\ DOMAIN B[q] \subseteq Nat
  BY <1>1
<1>4. B2 \in [Queues -> Seq(BufferSet)]
  BY <1>2, <1>3
<1>5. new \notin Owners(B)
  BY <1>3 DEF Owners
<1>6. Owners(B2) = Owners(B) \cup {new}
  <2>1. ASSUME NEW x \in Queues \X Nat
        PROVE  x[2] \in DOMAIN B2[x[1]] <=> x[2] \in DOMAIN B[x[1]] \/ x = new
    <3>1. CASE x[1] = q
      BY <3>1, <1>2, <1>3
    <3>2. CASE x[1] # q
      BY <3>2, <1>2
    <3> QED
      BY <3>1, <3>2
  <2>2. new \in Queues \X Nat
    BY <1>1
  <2> QED
    BY <2>1, <2>2 DEF Owners
<1>7. At(B2, new) = b
  BY <1>2, <1>3 DEF At
<1>8. \A x \in Owners(B) : At(B2, x) = At(B, x)
  BY <1>2, <1>3 DEF At, Owners
<1> QED
  BY <1>4, <1>5, <1>6, <1>7, <1>8 DEF Extends

(* A block of n cells is cut from heap k for the new buffer b of queue q.    *)
(* Buffers that have given their block back are not in use in an epoch in    *)
(* which q is.                                                               *)
GiveStep(B, L, H, R, E, q, k, n, b, B2, new, H2) ==
  /\ k \in DOMAIN H /\ n \in Nat \ {0}
  /\ Fitting(H[k], n) # {}
  /\ KeyOf(b) = k /\ BlockOf(b) = Block(GrantedAddr(H[k], n), n)
  /\ HeapsOk(H, R) /\ Backed(B, L, H) /\ Separate(B, E) /\ Ranged(B, R)
  /\ \A x \in Owners(B) \ L : E[x[1]] \cap E[q] = {}
  /\ new[1] = q /\ Extends(B2, B, new, b)
  /\ H2 = [H EXCEPT ![k] = AfterAllocate(@, n)]

(* allocate: the new buffer has the block, and nobody else has cells of it.  *)
LEMMA GiveBlock ==
  ASSUME NEW B, NEW L, NEW H, NEW R, NEW E, NEW q, NEW k, NEW n, NEW b,
         NEW B2, NEW new, NEW H2, GiveStep(B, L, H, R, E, q, k, n, b, B2, new, H2)
  PROVE  /\ HeapsOk(H2, R) /\ Backed(B2, L \cup {new}, H2)
         /\ Separate(B2, E) /\ Ranged(B2, R)
         /\ Exact(B, L, H) => Exact(B2, L \cup {new}, H2)
<1> DEFINE L2 == L \cup {new}
<1> SUFFICES ASSUME k \in DOMAIN H, n \in Nat \ {0}, Fitting(H[k], n) # {},
                    KeyOf(b) = k, BlockOf(b) = Block(GrantedAddr(H[k], n), n),
                    HeapsOk(H, R), Backed(B, L, H), Separate(B, E), Ranged(B, R),
                    \A x \in Owners(B) \ L : E[x[1]] \cap E[q] = {},
                    new[1] = q, Extends(B2, B, new, b),
                    H2 = [H EXCEPT ![k] = AfterAllocate(@, n)]
             PROVE  /\ HeapsOk(H2, R) /\ Backed(B2, L2, H2)
                    /\ Separate(B2, E) /\ Ranged(B2, R)
                    /\ Exact(B, L, H) => Exact(B2, L2, H2)
  BY DEF GiveStep
<1> DEFINE u == BlockOf(b)
<1>1. /\ Owners(B2) = Owners(B) \cup {new}
      /\ new \notin Owners(B)
      /\ At(B2, new) = b
      /\ \A x \in Owners(B) : At(B2, x) = At(B, x)
  BY DEF Extends
<1>2. HeapOk(H[k], R[k][1], R[k][2]) /\ DOMAIN H = DOMAIN R
  BY DEF HeapsOk
<1>3. /\ HeapOk(AfterAllocate(H[k], n), R[k][1], R[k][2])
      /\ AfterAllocate(H[k], n).used = H[k].used \cup {u}
      /\ u \notin H[k].used
      /\ u.addr \in Int /\ R[k][1] <= u.addr /\ EndOf(u) <= R[k][2] + 1
      /\ \A c \in H[k].used : Apart(u, c)
  BY <1>2, HeapAllocate
<1>4. H2[k] = AfterAllocate(H[k], n) /\ DOMAIN H2 = DOMAIN H
      /\ \A j \in DOMAIN H \ {k} : H2[j] = H[j]
  OBVIOUS
<1>5. u.addr = b.addr /\ u.size = b.size /\ EndOf(u) = b.addr + b.size
  BY DEF BlockOf, Block, EndOf
<1> HIDE DEF u
<1>6. HeapsOk(H2, R)
  BY <1>2, <1>3, <1>4 DEF HeapsOk
<1>7. L2 = L \cup {new} /\ L \subseteq Owners(B) /\ new \notin L
  BY <1>1 DEF Backed
<1>8. BlockOf(At(B2, new)) = u /\ KeyOf(At(B2, new)) = k
  BY <1>1 DEF u
<1>9. \A x \in L : At(B2, x) = At(B, x) /\ BlockOf(At(B, x)) \in H[KeyOf(At(B, x))].used
                   /\ KeyOf(At(B, x)) \in DOMAIN H
  BY <1>1, <1>2, <1>7 DEF Backed, Ranged
<1>10. \A x \in L : KeyOf(At(B, x)) = k => BlockOf(At(B, x)) # u
  BY <1>3, <1>9
<1>11. Backed(B2, L2, H2)
  <2>1. L2 \subseteq Owners(B2)
    BY <1>1, <1>7
  <2>2. ASSUME NEW x \in L2
        PROVE  /\ KeyOf(At(B2, x)) \in DOMAIN H2
               /\ BlockOf(At(B2, x)) \in H2[KeyOf(At(B2, x))].used
    <3>1. CASE x = new
      BY <3>1, <1>3, <1>4, <1>8
    <3>2. CASE x \in L
      BY <3>2, <1>3, <1>4, <1>9
    <3> QED
      BY <3>1, <3>2, <1>7
  <2>3. ASSUME NEW x \in L2, NEW y \in L2, x # y, KeyOf(At(B2, x)) = KeyOf(At(B2, y))
        PROVE  BlockOf(At(B2, x)) # BlockOf(At(B2, y))
    <3>1. CASE x \in L /\ y \in L
      BY <3>1, <2>3, <1>9 DEF Backed
    <3>2. CASE x = new \/ y = new
      BY <3>2, <2>3, <1>7, <1>8, <1>9, <1>10
    <3> QED
      BY <3>1, <3>2, <1>7
  <2> QED
    BY <2>1, <2>2, <2>3 DEF Backed
<1>12. ASSUME NEW x \in Owners(B), KeyOf(At(B, x)) = k, E[x[1]] \cap E[q] # {}
       PROVE  Apart(u, BlockOf(At(B, x)))
  BY <1>12, <1>3, <1>9
<1>14. \A c, d : Apart(c, d) => Apart(d, c)
  BY DEF Apart
<1>15. Separate(B2, E)
  <2> SUFFICES ASSUME NEW x \in Owners(B2), NEW y \in Owners(B2), x # y,
                      KeyOf(At(B2, x)) = KeyOf(At(B2, y)),
                      E[x[1]] \cap E[y[1]] # {}
               PROVE  Apart(BlockOf(At(B2, x)), BlockOf(At(B2, y)))
    BY DEF Separate
  <2>1. CASE x \in Owners(B) /\ y \in Owners(B)
    BY <2>1, <1>1 DEF Separate
  <2>2. CASE x = new
    <3>1. y \in Owners(B) /\ KeyOf(At(B, y)) = k /\ E[y[1]] \cap E[q] # {}
      BY <2>2, <1>1, <1>8
    <3> QED
      BY <3>1, <2>2, <1>1, <1>8, <1>12
  <2>3. CASE y = new
    <3>1. x \in Owners(B) /\ KeyOf(At(B, x)) = k /\ E[x[1]] \cap E[q] # {}
      BY <2>3, <1>1, <1>8
    <3> QED
      BY <3>1, <2>3, <1>1, <1>8, <1>12, <1>14
  <2> QED
    BY <2>1, <2>2, <2>3, <1>1
<1>16. Ranged(B2, R)
  BY <1>1, <1>2, <1>3, <1>5 DEF Ranged
<1>17. ASSUME Exact(B, L, H) PROVE Exact(B2, L2, H2)
  <2> SUFFICES ASSUME NEW j \in DOMAIN H2, NEW c \in H2[j].used
               PROVE  \E x \in L2 : KeyOf(At(B2, x)) = j /\ BlockOf(At(B2, x)) = c
    BY DEF Exact
  <2>1. CASE j = k /\ c = u
    BY <2>1, <1>7, <1>8
  <2>2. CASE ~(j = k /\ c = u)
    <3>1. c \in H[j].used /\ j \in DOMAIN H
      BY <2>2, <1>3, <1>4
    <3>2. PICK x \in L : KeyOf(At(B, x)) = j /\ BlockOf(At(B, x)) = c
      BY <3>1, <1>17 DEF Exact
    <3> QED
      BY <3>2, <1>7, <1>9
  <2> QED
    BY <2>1, <2>2
<1> QED
  BY <1>6, <1>11, <1>15, <1>16, <1>17

(* The block of the live buffer y is given back.                             *)
TakeStep(B, L, H, R, y, H2) ==
  /\ y \in L /\ HeapsOk(H, R) /\ Backed(B, L, H)
  /\ H2 = [H EXCEPT ![KeyOf(At(B, y))] = AfterDeallocate(@, BlockOf(At(B, y)))]

(* deallocate: the other buffers keep their blocks.                          *)
LEMMA TakeBlock ==
  ASSUME NEW B, NEW L, NEW H, NEW R, NEW y, NEW H2, TakeStep(B, L, H, R, y, H2)
  PROVE  /\ HeapsOk(H2, R) /\ Backed(B, L \ {y}, H2)
         /\ Exact(B, L, H) => Exact(B, L \ {y}, H2)
<1> DEFINE k == KeyOf(At(B, y))
           L2 == L \ {y}
<1> SUFFICES ASSUME y \in L, HeapsOk(H, R), Backed(B, L, H),
                    H2 = [H EXCEPT ![k] = AfterDeallocate(@, BlockOf(At(B, y)))]
             PROVE  /\ HeapsOk(H2, R) /\ Backed(B, L2, H2)
                    /\ Exact(B, L, H) => Exact(B, L2, H2)
  BY DEF TakeStep
<1> DEFINE u == BlockOf(At(B, y))
<1>0. y \in L /\ KeyOf(At(B, y)) = k /\ k \in DOMAIN H
  BY DEF Backed
<1> HIDE DEF k
<1>1. u \in H[k].used
  BY <1>0 DEF Backed
<1>2. HeapOk(H[k], R[k][1], R[k][2]) /\ DOMAIN H = DOMAIN R
  BY <1>0 DEF HeapsOk
<1>3. /\ HeapOk(AfterDeallocate(H[k], u), R[k][1], R[k][2])
      /\ AfterDeallocate(H[k], u).used = H[k].used \ {u}
  BY <1>1, <1>2, HeapDeallocate
<1>4. H2[k] = AfterDeallocate(H[k], u) /\ DOMAIN H2 = DOMAIN H
      /\ \A j \in DOMAIN H \ {k} : H2[j] = H[j]
  BY <1>0
<1> HIDE DEF u
<1>5. HeapsOk(H2, R)
  BY <1>2, <1>3, <1>4 DEF HeapsOk
<1>6. ASSUME NEW x \in L2
      PROVE  /\ KeyOf(At(B, x)) \in DOMAIN H2
             /\ BlockOf(At(B, x)) \in H2[KeyOf(At(B, x))].used
  <2>1. /\ KeyOf(At(B, x)) \in DOMAIN H
        /\ BlockOf(At(B, x)) \in H[KeyOf(At(B, x))].used
    BY DEF Backed
  <2>2. CASE KeyOf(At(B, x)) = k
    <3>1. BlockOf(At(B, x)) # u
      BY <2>2, <1>0 DEF Backed, u
    <3> QED
      BY <3>1, <2>1, <2>2, <1>3, <1>4
  <2>3. CASE KeyOf(At(B, x)) # k
    BY <2>1, <2>3, <1>4
  <2> QED
    BY <2>2, <2>3
<1>7. Backed(B, L2, H2)
  BY <1>6 DEF Backed
<1>8. ASSUME Exact(B, L, H) PROVE Exact(B, L2, H2)
  <2> SUFFICES ASSUME NEW j \in DOMAIN H2, NEW c \in H2[j].used
               PROVE  \E x \in L2 : KeyOf(At(B, x)) = j /\ BlockOf(At(B, x)) = c
    BY DEF Exact
  <2>1. c \in H[j].used /\ ~(j = k /\ c = u) /\ j \in DOMAIN H
    BY <1>3, <1>4
  <2>2. PICK x \in L : KeyOf(At(B, x)) = j /\ BlockOf(At(B, x)) = c
    BY <2>1, <1>8 DEF Exact
  <2>3. x # y
    BY <2>1, <2>2, <1>0 DEF u
  <2> QED
    BY <2>2, <2>3
<1> QED
  BY <1>5, <1>7, <1>8

------------------------------------------------------------------------------
(* The heaps by key, and the address range of each.                          *)
Keys == Virtual \cup {-1}

Heaps == [k \in Keys |-> IF k = -1 THEN p2p ELSE chan[k]]

Ranges ==
  [k \in Keys |-> IF k = -1 THEN <<P2POffset, P2POffset + P2PSize - 1>> ELSE RangeOf(k)]

(* The buffers of the queues of this pass, those of the queue being          *)
(* allocated included; which of them hold memory; and the epochs a queue is  *)
(* in use.                                                                   *)
InProgress(q) == cur # Nothing /\ q = cur.queue

BuffersOf(q) ==
  IF q \notin ThisPass THEN <<>>
  ELSE IF InProgress(q) THEN cur.buffers ELSE place[q]

Buffers == [q \in Queues |-> BuffersOf(q)]

Live ==
  {x \in Owners(Buffers) : is_static_queue(x[1]) \/ x \in held \/ InProgress(x[1])}

EpochsOf(q) ==
  IF is_static_queue(q) THEN 0 .. Forever ELSE ProducerEpoch(q) .. LastConsumerEpoch(q)

Epochs == [q \in Queues |-> EpochsOf(q)]

(* What a buffer of queue q can look like.                                   *)
Fits(q, b) ==
  /\ b \in [chan : Virtual, addr : Int, size : {shape[q].size}, p2p : BOOLEAN]
  /\ b.p2p => b.chan = 0 /\ TriesP2P(q)
  /\ InP2PHard(q) => b.p2p

(* A rebuilt allocator of wormhole has the blocks of another channel.        *)
OwnRanges == pass = 1 \/ ~Wormhole \/ option.again # "rebuilt"

(* The variables have their types.                                           *)
BasicInv ==
  /\ shape \in QueueParameters /\ option \in Options
  /\ pass \in {1, 2}
  /\ pc \in {"schedule", "place", "reset", "done", "thrown"}
  /\ epoch \in Nat /\ epoch <= Forever
  /\ DOMAIN place = Queues /\ DOMAIN span = Queues
  /\ DOMAIN chan = Virtual

(* Between attempts the queues of the pass hold nothing.                     *)
IdleInv ==
  /\ pc \in {"schedule", "reset", "done"} => cur = Nothing /\ held = {}
  /\ pc \in {"schedule", "reset"} => \A q \in ThisPass : place[q] = <<>>
  /\ \A q \in Queues : shape[q].pass > pass => place[q] = <<>> /\ span[q] = <<-1, -1>>
  /\ pc = "schedule" /\ pass = 1 => \A k \in Keys : Heaps[k].used = {}
  /\ pc = "reset" => static

(* During an attempt: static queues come before dynamic ones, and dynamic    *)
(* ones in their epoch.                                                      *)
TurnInv ==
  /\ todo \subseteq Unplaced
  /\ cur # Nothing => /\ cur.queue \in todo
                      /\ StaticTodo # {} => cur.queue \in StaticTodo
                      /\ StaticTodo = {} => cur.queue \in Beginning
  /\ StaticTodo # {} => \A x \in Owners(Buffers) : is_static_queue(x[1])

(* Held buffers are of dynamic queues not yet over; the queues of buffers    *)
(* given back are over.                                                      *)
HeldInv ==
  /\ \A x \in held : /\ x \in Queues \X Nat
                     /\ x[1] \in ThisPass /\ x[2] \in DOMAIN place[x[1]]
                     /\ ~is_static_queue(x[1])
                     /\ LastConsumerEpoch(x[1]) >= epoch
  /\ \A x \in Owners(Buffers) \ Live :
       \/ LastConsumerEpoch(x[1]) < epoch
       \/ LastConsumerEpoch(x[1]) = epoch /\ EpochAllocated

(* During an attempt: the buffers fit their queues, have a block each, lie   *)
(* in the range of their heap, and meet only if their epochs do not.         *)
MemoryInv ==
  /\ \A q \in Queues : BuffersOf(q) \in Seq(BufferSet)
  /\ \A x \in Owners(Buffers) : Fits(x[1], At(Buffers, x))
  /\ Backed(Buffers, Live, Heaps)
  /\ Separate(Buffers, Epochs)
  /\ Ranged(Buffers, Ranges)
  /\ pass = 1 => Exact(Buffers, Live, Heaps)

(* What is recorded of the epochs of a queue.  A failed static attempt may   *)
(* leave the first epoch of a buffering queue behind.                        *)
SpanOf(q) ==
  /\ place[q] = <<>> => \/ span[q] = <<-1, -1>>
                        \/ shape[q].kind = "buffering" /\ span[q] = <<0, -1>>
  /\ pc = "place" /\ place[q] # <<>> =>
       IF is_static_queue(q) THEN span[q] = <<-1, -1>>
       ELSE \/ span[q] = <<ProducerEpoch(q), AsInt(LastConsumerEpoch(q))>>
            \/ /\ span[q] = <<ProducerEpoch(q), -1>>
               /\ \A i \in DOMAIN place[q] : <<q, i>> \in held

SpanInv == pc \in {"schedule", "place", "reset"} => \A q \in ThisPass : SpanOf(q)

(* Queues whose placement is final.                                          *)
Settled(q) == shape[q].pass < pass \/ (shape[q].pass = pass /\ pc = "done")

(* A final placement is right.                                               *)
SettledInv ==
  \A q \in Queues : Settled(q) =>
    /\ \A i \in DOMAIN place[q] : InItsRegion(q, place[q][i])
    /\ \A r \in Queues : shape[r].pass = shape[q].pass => ~Clash(q, r)

(* The inductive invariant, where every heap has a range of its own.         *)
Inner ==
  /\ BasicInv /\ IdleInv /\ SpanInv /\ SettledInv
  /\ HeapsOk(Heaps, Ranges)
  /\ pc = "place" => TurnInv /\ HeldInv /\ MemoryInv

IInv == OwnRanges => Inner

------------------------------------------------------------------------------
(* The parameters of a queue.                                                *)
LEMMA ShapeFacts ==
  ASSUME BasicInv, NEW q \in Queues
  PROVE  /\ shape[q].kind \in {"parameter", "activation", "output", "buffering",
                               "e2e", "cross", "remote"}
         /\ shape[q].size \in Nat \ {0} /\ shape[q].buffers \in Nat \ {0}
         /\ shape[q].pass \in {1, 2}
         /\ ProducerEpoch(q) \in Nat /\ LastConsumerEpoch(q) \in Nat
         /\ ProducerEpoch(q) <= LastConsumerEpoch(q)
         /\ LastConsumerEpoch(q) <= Forever
<1>1. shape \in Graphs
  BY DEF BasicInv, QueueParameters
<1> QED
  BY <1>1, GraphsAssumption, ConfigAssumption DEF ProducerEpoch, LastConsumerEpoch

(* The virtual channels and their ranges.                                    *)
LEMMA RangeFacts ==
  /\ Virtual \subseteq Nat /\ 0 \in Virtual /\ -1 \notin Virtual
  /\ \A v \in Virtual : RangeOf(v)[1] \in Nat /\ RangeOf(v)[2] \in Int
<1>1. NumChannels \in Nat \ {0}
  BY ConfigAssumption DEF NumChannels
<1>2. Virtual \subseteq Nat /\ 0 \in Virtual /\ -1 \notin Virtual
  BY <1>1 DEF Virtual
<1>3. {Offset, ChannelSize, P2POffset, P2PSize} \subseteq Nat
  BY ConfigAssumption
<1>4. /\ MaxOf(P2POffset + P2PSize, Offset) \in Nat
      /\ MaxOf(Offset, ChannelSize \div 2) \in Nat
      /\ ChannelSize \div 2 \in Nat
  BY <1>3 DEF MaxOf
<1>5. ASSUME NEW v \in Virtual
      PROVE  RangeOf(v)[1] \in Nat /\ RangeOf(v)[2] \in Int
  <2>1. v \in Nat
    BY <1>2
  <2>2. CASE v = 0
    BY <2>2, <1>3 DEF RangeOf
  <2>3. CASE v = 1 /\ Wormhole
    <3>1. RangeOf(v) = <<MaxOf(P2POffset + P2PSize, Offset), ChannelSize - 1>>
      BY <2>3 DEF RangeOf
    <3> QED
      BY <3>1, <1>3, <1>4
  <2>4. CASE v > 1 /\ Wormhole /\ v % 2 = 0
    <3>1. RangeOf(v) = <<Offset, ChannelSize \div 2 - 1>>
      BY <2>4, <2>1 DEF RangeOf
    <3> QED
      BY <3>1, <1>3, <1>4
  <2>5. CASE v > 1 /\ Wormhole /\ v % 2 # 0
    <3>1. v % 2 = 1
      BY <2>1, <2>5
    <3>2. RangeOf(v) = <<MaxOf(Offset, ChannelSize \div 2), ChannelSize - 1>>
      BY <3>1, <2>5, <2>1 DEF RangeOf
    <3> QED
      BY <3>2, <1>3, <1>4
  <2>6. CASE v > 0 /\ ~Wormhole
    <3>1. RangeOf(v) = <<Offset, ChannelSize - 1>>
      BY <2>6, <2>1 DEF RangeOf
    <3> QED
      BY <3>1, <1>3
  <2> QED
    BY <2>1, <2>2, <2>3, <2>4, <2>5, <2>6
<1> QED
  BY <1>2, <1>5

(* What depends only on the queues, the settings and the kind of attempt.    *)
LEMMA FrameFacts ==
  UNCHANGED <<shape, option, pass, static>> =>
    /\ Keys' = Keys /\ Ranges' = Ranges /\ Epochs' = Epochs /\ Virtual' = Virtual
    /\ ThisPass' = ThisPass /\ (OwnRanges' <=> OwnRanges)
    /\ \A q : /\ is_static_queue(q)' <=> is_static_queue(q)
              /\ ProducerEpoch(q)' = ProducerEpoch(q)
              /\ LastConsumerEpoch(q)' = LastConsumerEpoch(q)
              /\ \A b : Fits(q, b)' <=> Fits(q, b)
              /\ \A b : InItsRegion(q, b)' <=> InItsRegion(q, b)
<1> SUFFICES ASSUME UNCHANGED <<shape, option, pass, static>>
             PROVE  /\ Keys' = Keys /\ Ranges' = Ranges /\ Epochs' = Epochs
                    /\ Virtual' = Virtual
                    /\ ThisPass' = ThisPass /\ (OwnRanges' <=> OwnRanges)
                    /\ \A q : /\ is_static_queue(q)' <=> is_static_queue(q)
                              /\ ProducerEpoch(q)' = ProducerEpoch(q)
                              /\ LastConsumerEpoch(q)' = LastConsumerEpoch(q)
                              /\ \A b : Fits(q, b)' <=> Fits(q, b)
                              /\ \A b : InItsRegion(q, b)' <=> InItsRegion(q, b)
  OBVIOUS
<1>1. Wormhole' <=> Wormhole
  BY DEF Wormhole
<1>2. Virtual' = Virtual
  BY <1>1 DEF Virtual, NumChannels
<1>3. \A v : RangeOf(v)' = RangeOf(v)
  BY <1>1 DEF RangeOf
<1>4. Keys' = Keys /\ Ranges' = Ranges
  BY <1>2, <1>3 DEF Keys, Ranges
<1>5. ThisPass' = ThisPass /\ (OwnRanges' <=> OwnRanges)
  BY <1>1 DEF ThisPass, OwnRanges
<1>6. \A q : is_static_queue(q)' <=> is_static_queue(q)
  BY DEF is_static_queue, IsInput
<1>7. \A q : /\ ProducerEpoch(q)' = ProducerEpoch(q)
             /\ LastConsumerEpoch(q)' = LastConsumerEpoch(q)
  BY DEF ProducerEpoch, LastConsumerEpoch, EpochToEpoch
<1>8. Epochs' = Epochs
  BY <1>6, <1>7 DEF Epochs, EpochsOf
<1>9. \A q : (InP2PHard(q)' <=> InP2PHard(q)) /\ (TriesP2P(q)' <=> TriesP2P(q))
  BY <1>1 DEF InP2PHard, InP2PSoft, TriesP2P
<1>10. \A q : \A b : Fits(q, b)' <=> Fits(q, b)
  BY <1>2, <1>9 DEF Fits
<1>11. \A q : \A b : InItsRegion(q, b)' <=> InItsRegion(q, b)
  BY <1>9 DEF InItsRegion
<1> QED
  BY <1>2, <1>4, <1>5, <1>6, <1>7, <1>8, <1>10, <1>11

(* The queue whose turn it is.                                               *)
LEMMA TurnFacts ==
  ASSUME TurnInv, NEW q \in todo, Turn(q)
  PROVE  /\ q \in Queues /\ q \in ThisPass /\ place[q] = <<>>
         /\ StaticTodo # {} => q \in StaticTodo
         /\ StaticTodo = {} => q \in Beginning
         /\ cur.buffers = BuffersOf(q)
         /\ \A r : InProgress(r) => r = q
<1>1. q \in Queues /\ q \in ThisPass /\ place[q] = <<>>
  BY DEF TurnInv, Unplaced, ThisPass
<1>2. CASE cur = Nothing
  <2>1. cur.buffers = <<>> /\ ~InProgress(q)
    BY <1>2 DEF Nothing, InProgress
  <2>2. BuffersOf(q) = <<>>
    BY <1>1, <2>1 DEF BuffersOf
  <2> QED
    BY <1>1, <1>2, <2>1, <2>2 DEF Turn, IsNext, InProgress
<1>3. CASE cur # Nothing
  <2>1. q = cur.queue /\ InProgress(q)
    BY <1>3 DEF Turn, InProgress
  <2> QED
    BY <1>1, <1>3, <2>1 DEF TurnInv, BuffersOf, InProgress
<1> QED
  BY <1>2, <1>3

(* A queue given another buffer is in use in no epoch of a queue that has    *)
(* given its memory back.                                                    *)
LEMMA GoneIsOver ==
  ASSUME BasicInv, TurnInv, HeldInv, NEW q \in todo, Turn(q)
  PROVE  \A x \in Owners(Buffers) \ Live : Epochs[x[1]] \cap Epochs[q] = {}
<1> SUFFICES ASSUME NEW x \in Owners(Buffers) \ Live
             PROVE  Epochs[x[1]] \cap Epochs[q] = {}
  OBVIOUS
<1>1. ~is_static_queue(x[1]) /\ x[1] \in Queues
  BY DEF Live, Owners
<1>2. StaticTodo = {}
  BY <1>1 DEF TurnInv
<1>3. q \in Beginning /\ q \in Queues
  BY <1>2, TurnFacts
<1>4. ~is_static_queue(q) /\ ProducerEpoch(q) = epoch
  BY <1>3 DEF Beginning, StaticTodo
<1>5. LastConsumerEpoch(x[1]) < epoch
  BY <1>3 DEF HeldInv, EpochAllocated
<1>6. /\ Epochs[x[1]] = ProducerEpoch(x[1]) .. LastConsumerEpoch(x[1])
      /\ Epochs[q] = epoch .. LastConsumerEpoch(q)
  BY <1>1, <1>3, <1>4 DEF Epochs, EpochsOf
<1>7. /\ ProducerEpoch(x[1]) \in Nat /\ LastConsumerEpoch(x[1]) \in Nat
      /\ epoch \in Nat /\ LastConsumerEpoch(q) \in Nat
  BY <1>1, <1>3, ShapeFacts DEF BasicInv
<1> QED
  BY <1>5, <1>6, <1>7

(* The buffer is appended to those of the queue, and is live.                *)
LEMMA PlacedBuffers ==
  ASSUME BasicInv, TurnInv, HeldInv, NEW q \in todo, Turn(q),
         \A r \in Queues : BuffersOf(r) \in Seq(BufferSet),
         NEW b \in BufferSet, Placed(q, b),
         UNCHANGED <<shape, option, pass, pc, static, epoch>>
  PROVE  /\ Buffers' = [Buffers EXCEPT ![q] = Append(@, b)]
         /\ Extends(Buffers', Buffers, <<q, Len(Buffers[q]) + 1>>, b)
         /\ Live' = Live \cup {<<q, Len(Buffers[q]) + 1>>}
<1> DEFINE sofar == Append(cur.buffers, b)
           new == <<q, Len(Buffers[q]) + 1>>
<1>1. /\ q \in Queues /\ q \in ThisPass /\ place[q] = <<>>
      /\ cur.buffers = BuffersOf(q)
      /\ \A r : InProgress(r) => r = q
  BY TurnFacts
<1>2. BuffersOf(q) \in Seq(BufferSet) /\ Buffers[q] = BuffersOf(q)
  BY <1>1 DEF Buffers
<1>3. sofar \in Seq(BufferSet) /\ sofar # <<>> /\ DOMAIN sofar = 1 .. Len(sofar)
      /\ Len(sofar) = Len(Buffers[q]) + 1
  <2>1. sofar = Append(Buffers[q], b) /\ Buffers[q] \in Seq(BufferSet)
    BY <1>1, <1>2
  <2> HIDE DEF sofar
  <2>2. sofar \in Seq(BufferSet) /\ Len(sofar) = Len(Buffers[q]) + 1
    BY <2>1
  <2>3. Len(Buffers[q]) \in Nat
    BY <2>1
  <2> QED
    BY <2>2, <2>3
<1>4. ThisPass' = ThisPass /\ \A r : is_static_queue(r)' <=> is_static_queue(r)
  BY FrameFacts
<1>5. \/ cur' = [queue |-> q, buffers |-> sofar] /\ UNCHANGED <<todo, place, held, span>>
      \/ /\ cur' = Nothing
         /\ place' = [place EXCEPT ![q] = sofar]
         /\ is_static_queue(q) => UNCHANGED held
         /\ is_static_queue(q) \/ held' = held \cup {<<q, i>> : i \in DOMAIN sofar}
  <2>1. CASE Len(sofar) < shape[q].buffers
    BY <2>1 DEF Placed
  <2>2. CASE ~(Len(sofar) < shape[q].buffers) /\ is_static_queue(q)
    BY <2>2 DEF Placed
  <2>3. CASE ~(Len(sofar) < shape[q].buffers) /\ ~is_static_queue(q)
    BY <2>3 DEF Placed
  <2> QED
    BY <2>1, <2>2, <2>3
<1> HIDE DEF sofar
<1>6. /\ BuffersOf(q)' = sofar
      /\ \A r \in Queues \ {q} : BuffersOf(r)' = BuffersOf(r) /\ ~InProgress(r)'
  <2>1. CASE cur' = [queue |-> q, buffers |-> sofar] /\ UNCHANGED <<todo, place, held, span>>
    <3>1. cur'.queue = q /\ cur'.buffers = sofar /\ cur' # Nothing
      BY <2>1, <1>3 DEF Nothing
    <3>2. BuffersOf(q)' = sofar
      BY <3>1, <1>1, <1>4 DEF BuffersOf, InProgress
    <3>3. ASSUME NEW r \in Queues \ {q}
          PROVE  BuffersOf(r)' = BuffersOf(r) /\ ~InProgress(r)'
      <4>1. ~InProgress(r) /\ ~InProgress(r)'
        BY <3>1, <1>1 DEF InProgress
      <4> QED
        BY <4>1, <2>1, <1>4 DEF BuffersOf
    <3> QED
      BY <3>2, <3>3
  <2>2. CASE cur' = Nothing /\ place' = [place EXCEPT ![q] = sofar]
    <3>1. \A r : ~InProgress(r)'
      BY <2>2 DEF InProgress
    <3>2. place'[q] = sofar /\ \A r \in Queues \ {q} : place'[r] = place[r]
      BY <2>2, <1>1 DEF BasicInv
    <3>3. \A r \in Queues \ {q} : ~InProgress(r)
      BY <1>1
    <3> QED
      BY <3>1, <3>2, <3>3, <1>1, <1>4 DEF BuffersOf
  <2> QED
    BY <1>5, <2>1, <2>2
<1>7. Buffers' = [Buffers EXCEPT ![q] = sofar]
  BY <1>1, <1>6 DEF Buffers
<1>8. Buffers' = [Buffers EXCEPT ![q] = Append(@, b)]
  BY <1>1, <1>2, <1>7 DEF sofar
<1>9. Buffers \in [Queues -> Seq(BufferSet)]
  BY DEF Buffers
<1>10. Extends(Buffers', Buffers, new, b)
  BY <1>1, <1>8, <1>9, AppendExtends
<1> HIDE DEF new
<1>11. /\ Owners(Buffers') = Owners(Buffers) \cup {new} /\ new \notin Owners(Buffers)
  BY <1>10 DEF Extends
<1>12. new = <<q, Len(sofar)>> /\ new[1] = q /\ new[2] = Len(sofar)
  BY <1>3 DEF new
<1>13. ASSUME NEW x \in Owners(Buffers), x[1] = q
       PROVE  x \in Live
  <2>1. cur # Nothing
    <3> SUFFICES ASSUME cur = Nothing PROVE FALSE
      OBVIOUS
    <3>1. BuffersOf(q) = <<>>
      BY <1>1 DEF Nothing
    <3> QED
      BY <3>1, <1>2, <1>13 DEF Owners
  <2>2. InProgress(q)
    BY <2>1, TurnFacts DEF Turn, InProgress
  <2> QED
    BY <2>2, <1>13 DEF Live
<1>14. Live' = {x \in Owners(Buffers') : is_static_queue(x[1]) \/ x \in held' \/ InProgress(x[1])'}
  BY <1>4 DEF Live
<1>15. ASSUME NEW x \in Owners(Buffers'), x[1] = q
       PROVE  x \in Live'
  <2>1. x[2] \in DOMAIN sofar /\ x = <<q, x[2]>>
    BY <1>15, <1>6, <1>1 DEF Owners, Buffers
  <2>2. CASE cur' = [queue |-> q, buffers |-> sofar]
    <3>1. InProgress(q)'
      BY <2>2, <1>3 DEF InProgress, Nothing
    <3> QED
      BY <3>1, <1>14, <1>15
  <2>3. CASE is_static_queue(q)
    BY <2>3, <1>14, <1>15
  <2>4. CASE held' = held \cup {<<q, i>> : i \in DOMAIN sofar}
    BY <2>4, <2>1, <1>14, <1>15
  <2> QED
    BY <1>5, <2>2, <2>3, <2>4
<1>16. ASSUME NEW x \in Owners(Buffers), x[1] # q
       PROVE  x \in Live' <=> x \in Live
  <2>1. x[1] \in Queues \ {q} /\ x \in Owners(Buffers')
    BY <1>11, <1>16 DEF Owners
  <2>2. ~InProgress(x[1]) /\ ~InProgress(x[1])'
    BY <2>1, <1>1, <1>6
  <2>3. x \in held' <=> x \in held
    BY <1>5, <1>16
  <2> QED
    BY <2>1, <2>2, <2>3, <1>14 DEF Live
<1>17. Live' = Live \cup {new}
  <2>1. Live' \subseteq Owners(Buffers') /\ Live \subseteq Owners(Buffers)
    BY DEF Live
  <2> QED
    BY <2>1, <1>11, <1>12, <1>13, <1>15, <1>16
<1> QED
  BY <1>8, <1>10, <1>17 DEF new

(* The placement of a queue of an earlier pass stays right.                  *)
LEMMA SettledKept ==
  ASSUME BasicInv, SettledInv, UNCHANGED <<shape, option>>,
         \A r \in Queues : shape[r].pass < pass =>
           place'[r] = place[r] /\ span'[r] = span[r],
         NEW q \in Queues, shape[q].pass < pass
  PROVE  /\ \A i \in DOMAIN place'[q] : InItsRegion(q, place[q][i])'
         /\ \A r \in Queues : shape[r].pass = shape[q].pass => ~Clash(q, r)'
<1>1. Settled(q)
  BY DEF Settled
<1>2. \A r \in Queues : shape[r].pass = shape[q].pass =>
        place'[r] = place[r] /\ span'[r] = span[r]
  OBVIOUS
<1>3. (TriesP2P(q)' <=> TriesP2P(q)) /\ (InP2PHard(q)' <=> InP2PHard(q))
  BY DEF TriesP2P, InP2PHard, InP2PSoft, Wormhole
<1>4. ASSUME NEW r \in Queues, shape[r].pass = shape[q].pass
      PROVE  ~Clash(q, r)'
  <2>1. /\ place'[r] = place[r] /\ span'[r] = span[r]
        /\ place'[q] = place[q] /\ span'[q] = span[q]
    BY <1>2, <1>4
  <2>2. Lifetime(q)' = Lifetime(q) /\ Lifetime(r)' = Lifetime(r)
    BY <2>1 DEF Lifetime
  <2>3. ~Clash(q, r)
    BY <1>1, <1>4 DEF SettledInv
  <2> QED
    BY <2>1, <2>2, <2>3 DEF Clash
<1>5. place'[q] = place[q]
  BY <1>2
<1>6. \A i \in DOMAIN place[q] : InItsRegion(q, place[q][i])
  BY <1>1 DEF SettledInv
<1>7. \A i \in DOMAIN place'[q] : InItsRegion(q, place[q][i])'
  BY <1>3, <1>5, <1>6 DEF InItsRegion
<1> QED
  BY <1>4, <1>7

(* While a pass is under way only its own placements change.                 *)
LEMMA SettledStays ==
  ASSUME BasicInv, SettledInv, UNCHANGED <<shape, option, pass>>, pc' # "done",
         \A r \in Queues \ ThisPass : place'[r] = place[r] /\ span'[r] = span[r]
  PROVE  SettledInv'
<1>1. \A r \in Queues : shape[r].pass < pass =>
        place'[r] = place[r] /\ span'[r] = span[r]
  <2>1. \A r \in ThisPass : shape[r].pass = pass /\ pass \in {1, 2}
    BY DEF ThisPass, BasicInv
  <2> QED
    BY <2>1
<1>2. \A q \in Queues : Settled(q)' => shape[q].pass < pass
  BY DEF Settled
<1>3. \A q \in Queues : shape[q].pass < pass =>
        /\ \A i \in DOMAIN place'[q] : InItsRegion(q, place[q][i])'
        /\ \A r \in Queues : shape[r].pass = shape[q].pass => ~Clash(q, r)'
  BY <1>1, SettledKept
<1> QED
  BY <1>2, <1>3 DEF SettledInv

(* The order of the attempt is kept when a buffer is placed.                 *)
LEMMA PlacedOrder ==
  ASSUME BasicInv, IdleInv, SpanInv, SettledInv, TurnInv, HeldInv, pc = "place",
         NEW q \in todo, Turn(q),
         \A r \in Queues : BuffersOf(r) \in Seq(BufferSet),
         NEW b \in BufferSet, Placed(q, b),
         UNCHANGED <<shape, option, pass, pc, static, epoch>>
  PROVE  /\ TurnInv' /\ HeldInv' /\ IdleInv' /\ SpanInv' /\ SettledInv'
         /\ DOMAIN place' = Queues /\ DOMAIN span' = Queues
<1> DEFINE sofar == Append(cur.buffers, b)
           new == <<q, Len(Buffers[q]) + 1>>
<1>1. /\ q \in Queues /\ q \in ThisPass /\ place[q] = <<>>
      /\ StaticTodo # {} => q \in StaticTodo
      /\ StaticTodo = {} => q \in Beginning
      /\ cur.buffers = BuffersOf(q)
  BY TurnFacts
<1>2. /\ ThisPass' = ThisPass
      /\ \A r : /\ is_static_queue(r)' <=> is_static_queue(r)
                /\ ProducerEpoch(r)' = ProducerEpoch(r)
                /\ LastConsumerEpoch(r)' = LastConsumerEpoch(r)
  BY FrameFacts
<1>3. DOMAIN sofar \subseteq Nat /\ sofar # <<>>
  <2>1. cur.buffers \in Seq(BufferSet)
    BY <1>1
  <2> QED
    BY <2>1
<1>4. \/ /\ cur' = [queue |-> q, buffers |-> sofar]
         /\ UNCHANGED <<todo, place, held, span>>
      \/ /\ cur' = Nothing
         /\ todo' = todo \ {q}
         /\ place' = [place EXCEPT ![q] = sofar]
         /\ \/ is_static_queue(q) /\ UNCHANGED <<held, span>>
            \/ /\ ~is_static_queue(q)
               /\ held' = held \cup {<<q, i>> : i \in DOMAIN sofar}
               /\ span' = [span EXCEPT ![q][1] = ProducerEpoch(q)]
  <2>1. CASE Len(sofar) < shape[q].buffers
    BY <2>1 DEF Placed
  <2>2. CASE ~(Len(sofar) < shape[q].buffers) /\ is_static_queue(q)
    BY <2>2 DEF Placed
  <2>3. CASE ~(Len(sofar) < shape[q].buffers) /\ ~is_static_queue(q)
    BY <2>3 DEF Placed
  <2> QED
    BY <2>1, <2>2, <2>3
<1> HIDE DEF sofar
<1>5. /\ Owners(Buffers') = Owners(Buffers) \cup {new}
      /\ Live' = Live \cup {new} /\ new[1] = q
  BY PlacedBuffers DEF Extends
<1> HIDE DEF new
<1>6. DOMAIN place' = Queues /\ DOMAIN span' = Queues
  BY <1>4 DEF BasicInv
<1>7. \A r \in Queues \ {q} : place'[r] = place[r] /\ span'[r] = span[r]
  BY <1>1, <1>4 DEF BasicInv
<1>8. todo' \subseteq todo
  BY <1>4
<1>9. /\ StaticTodo' = {r \in todo' : is_static_queue(r)}
      /\ Beginning' = {r \in todo' \ StaticTodo' : ProducerEpoch(r) = epoch}
  BY <1>2 DEF StaticTodo, Beginning
<1>10. StaticTodo' \subseteq StaticTodo
  BY <1>8, <1>9 DEF StaticTodo
<1>11. ~is_static_queue(q) => StaticTodo = {} /\ ProducerEpoch(q) = epoch
  BY <1>1 DEF StaticTodo, Beginning
<1>12. TurnInv'
  <2>1. todo' \subseteq Unplaced'
    <3>1. todo \subseteq Unplaced
      BY DEF TurnInv
    <3>2. CASE UNCHANGED <<todo, place>>
      BY <3>1, <3>2, <1>2 DEF Unplaced
    <3>3. CASE todo' = todo \ {q}
      BY <3>1, <3>3, <1>2, <1>7 DEF Unplaced, ThisPass
    <3> QED
      BY <3>2, <3>3, <1>4
  <2>2. ASSUME cur' # Nothing
        PROVE  /\ cur'.queue \in todo'
               /\ StaticTodo' # {} => cur'.queue \in StaticTodo'
               /\ StaticTodo' = {} => cur'.queue \in Beginning'
    <3>1. cur'.queue = q /\ todo' = todo
      BY <2>2, <1>4
    <3>2. StaticTodo' = StaticTodo /\ Beginning' = Beginning
      BY <3>1, <1>9 DEF StaticTodo, Beginning
    <3> QED
      BY <3>1, <3>2, <1>1
  <2>3. ASSUME StaticTodo' # {}, NEW x \in Owners(Buffers') PROVE is_static_queue(x[1])'
    <3>1. StaticTodo # {}
      BY <2>3, <1>10
    <3>2. is_static_queue(q)
      BY <3>1, <1>11
    <3> QED
      BY <2>3, <3>1, <3>2, <1>2, <1>5 DEF TurnInv
  <2> QED
    BY <2>1, <2>2, <2>3 DEF TurnInv
<1>13. HeldInv'
  <2>1. ASSUME NEW x \in held'
        PROVE  /\ x \in Queues \X Nat
               /\ x[1] \in ThisPass /\ x[2] \in DOMAIN place'[x[1]]
               /\ ~is_static_queue(x[1])
               /\ LastConsumerEpoch(x[1]) >= epoch
    <3>1. CASE x \in held
      <4>1. /\ x \in Queues \X Nat
            /\ x[1] \in ThisPass /\ x[2] \in DOMAIN place[x[1]]
            /\ ~is_static_queue(x[1])
            /\ LastConsumerEpoch(x[1]) >= epoch
        BY <3>1 DEF HeldInv
      <4>2. x[1] # q
        BY <4>1, <1>1
      <4> QED
        BY <4>1, <4>2, <1>7
    <3>2. CASE x \notin held
      <4>1. /\ held' = held \cup {<<q, i>> : i \in DOMAIN sofar}
            /\ place' = [place EXCEPT ![q] = sofar] /\ ~is_static_queue(q)
        BY <3>2, <2>1, <1>4
      <4>2. PICK i \in DOMAIN sofar : x = <<q, i>>
        BY <4>1, <3>2, <2>1
      <4>3. place'[q] = sofar
        BY <4>1, <1>1 DEF BasicInv
      <4>4. LastConsumerEpoch(q) >= epoch
        BY <4>1, <1>1, <1>11, ShapeFacts
      <4> QED
        BY <4>1, <4>2, <4>3, <4>4, <1>1, <1>3
    <3> QED
      BY <3>1, <3>2
  <2>2. ASSUME NEW x \in Owners(Buffers') \ Live'
        PROVE  LastConsumerEpoch(x[1]) < epoch
    <3>1. x \in Owners(Buffers) \ Live
      BY <1>5, <2>2
    <3>2. ~EpochAllocated
      BY <1>1 DEF EpochAllocated
    <3> QED
      BY <3>1, <3>2 DEF HeldInv
  <2> QED
    BY <2>1, <2>2, <1>2 DEF HeldInv
<1>14. IdleInv'
  <2>1. \A r \in Queues : shape[r].pass > pass => r # q
    <3>1. shape[q].pass = pass /\ pass \in {1, 2}
      BY <1>1 DEF ThisPass, BasicInv
    <3> QED
      BY <3>1
  <2> QED
    BY <2>1, <1>7 DEF IdleInv
<1>15. SpanInv'
  <2> SUFFICES ASSUME NEW r \in ThisPass' PROVE SpanOf(r)'
    BY DEF SpanInv
  <2>1. r \in ThisPass /\ r \in Queues /\ SpanOf(r)
    BY <1>2 DEF SpanInv, ThisPass
  <2>2. CASE r # q
    <3>1. place'[r] = place[r] /\ span'[r] = span[r]
      BY <2>1, <2>2, <1>7
    <3>2. \A i : <<r, i>> \in held => <<r, i>> \in held'
      BY <1>4
    <3> QED
      BY <2>1, <3>1, <3>2, <1>2 DEF SpanOf
  <2>3. CASE r = q /\ UNCHANGED <<place, span, held>>
    BY <2>1, <2>3, <1>2 DEF SpanOf
  <2>4. CASE r = q /\ place' = [place EXCEPT ![q] = sofar]
    <3>1. place'[q] = sofar /\ sofar # <<>>
      BY <2>4, <1>1, <1>3 DEF BasicInv
    <3>2. \/ span[q] = <<-1, -1>>
          \/ shape[q].kind = "buffering" /\ span[q] = <<0, -1>>
      BY <2>1, <2>4, <1>1 DEF SpanOf
    <3>3. CASE is_static_queue(q) /\ UNCHANGED <<held, span>>
      <4>1. shape[q].kind # "buffering"
        BY <3>3 DEF is_static_queue, IsInput
      <4> QED
        BY <4>1, <3>1, <3>2, <3>3, <2>4, <1>2 DEF SpanOf
    <3>4. CASE /\ ~is_static_queue(q)
               /\ held' = held \cup {<<q, i>> : i \in DOMAIN sofar}
               /\ span' = [span EXCEPT ![q][1] = ProducerEpoch(q)]
      <4>1. span'[q] = [span[q] EXCEPT ![1] = ProducerEpoch(q)]
        BY <3>4, <1>1 DEF BasicInv
      <4>2. span'[q] = <<ProducerEpoch(q), -1>>
        BY <3>2, <4>1
      <4>3. \A i \in DOMAIN place'[q] : <<q, i>> \in held'
        BY <3>1, <3>4
      <4> QED
        BY <3>1, <3>4, <4>2, <4>3, <2>4, <1>2 DEF SpanOf
    <3> QED
      BY <2>4, <3>3, <3>4, <1>4, <3>1, <1>1
  <2> QED
    BY <2>2, <2>3, <2>4, <1>4
<1>16. SettledInv'
  <2>1. \A r \in Queues \ ThisPass : place'[r] = place[r] /\ span'[r] = span[r]
    BY <1>1, <1>7
  <2> QED
    BY <2>1, SettledStays
<1> QED
  BY <1>6, <1>12, <1>13, <1>14, <1>15, <1>16

(* Placing a buffer keeps the invariant, whichever heap it comes from.       *)
LEMMA PlacedKeeps ==
  ASSUME Inner, pc = "place", NEW q \in todo, Turn(q),
         NEW k \in Keys, NEW b \in BufferSet, KeyOf(b) = k, Fits(q, b),
         Fitting(Heaps[k], shape[q].size) # {},
         BlockOf(b) = Block(GrantedAddr(Heaps[k], shape[q].size), shape[q].size),
         Heaps' = [Heaps EXCEPT ![k] = AfterAllocate(@, shape[q].size)],
         DOMAIN chan' = Virtual, Placed(q, b),
         UNCHANGED <<shape, option, pass, pc, static, epoch>>
  PROVE  Inner'
<1> DEFINE n == shape[q].size
           new == <<q, Len(Buffers[q]) + 1>>
<1>1. /\ BasicInv /\ IdleInv /\ SpanInv /\ SettledInv /\ HeapsOk(Heaps, Ranges)
      /\ TurnInv /\ HeldInv /\ MemoryInv
  BY DEF Inner
<1>2. q \in Queues
  BY <1>1, TurnFacts
<1>3. n \in Nat \ {0}
  BY <1>1, <1>2, ShapeFacts
<1>4. /\ Keys' = Keys /\ Ranges' = Ranges /\ Epochs' = Epochs /\ Virtual' = Virtual
      /\ \A r : \A c : Fits(r, c)' <=> Fits(r, c)
  BY FrameFacts
<1>5. \A r \in Queues : BuffersOf(r) \in Seq(BufferSet)
  BY <1>1 DEF MemoryInv
<1>6. /\ Buffers' = [Buffers EXCEPT ![q] = Append(@, b)]
      /\ Extends(Buffers', Buffers, new, b)
      /\ Live' = Live \cup {new}
  BY <1>1, <1>5, PlacedBuffers
<1>7. /\ TurnInv' /\ HeldInv' /\ IdleInv' /\ SpanInv' /\ SettledInv'
      /\ DOMAIN place' = Queues /\ DOMAIN span' = Queues
  BY <1>1, <1>5, PlacedOrder
<1>8. BasicInv'
  BY <1>1, <1>4, <1>7 DEF BasicInv, QueueParameters
<1>9. Buffers \in [Queues -> Seq(BufferSet)]
  BY <1>5 DEF Buffers
<1>10. Buffers' \in [Queues -> Seq(BufferSet)]
  BY <1>2, <1>6, <1>9, AppendExtends
<1>11. \A x \in Owners(Buffers) \ Live : Epochs[x[1]] \cap Epochs[q] = {}
  BY <1>1, GoneIsOver
<1>12. k \in DOMAIN Heaps /\ new[1] = q
  BY DEF Heaps
<1>13. /\ Backed(Buffers, Live, Heaps) /\ Separate(Buffers, Epochs)
       /\ Ranged(Buffers, Ranges)
  BY <1>1 DEF MemoryInv
<1> HIDE DEF n, new
<1>14. /\ HeapsOk(Heaps', Ranges) /\ Backed(Buffers', Live', Heaps')
       /\ Separate(Buffers', Epochs) /\ Ranged(Buffers', Ranges)
       /\ Exact(Buffers, Live, Heaps) => Exact(Buffers', Live', Heaps')
  <2>1. /\ Fitting(Heaps[k], n) # {}
        /\ BlockOf(b) = Block(GrantedAddr(Heaps[k], n), n)
        /\ Heaps' = [Heaps EXCEPT ![k] = AfterAllocate(@, n)]
    BY DEF n
  <2>2. /\ k \in DOMAIN Heaps /\ n \in Nat \ {0} /\ KeyOf(b) = k /\ HeapsOk(Heaps, Ranges)
        /\ Backed(Buffers, Live, Heaps) /\ Separate(Buffers, Epochs)
        /\ Ranged(Buffers, Ranges)
        /\ \A x \in Owners(Buffers) \ Live : Epochs[x[1]] \cap Epochs[q] = {}
        /\ new[1] = q /\ Extends(Buffers', Buffers, new, b) /\ Live' = Live \cup {new}
    BY <1>1, <1>3, <1>6, <1>11, <1>12, <1>13
  <2> QED
    BY <2>1, <2>2, GiveBlock DEF GiveStep
<1>15. MemoryInv'
  <2>1. \A r \in Queues : BuffersOf(r)' \in Seq(BufferSet)
    BY <1>10 DEF Buffers
  <2>2. ASSUME NEW x \in Owners(Buffers') PROVE Fits(x[1], At(Buffers, x))'
    <3>1. CASE x \in Owners(Buffers)
      <4>1. At(Buffers', x) = At(Buffers, x) /\ Fits(x[1], At(Buffers, x))
        BY <3>1, <1>1, <1>6 DEF Extends, MemoryInv
      <4> QED
        BY <4>1, <1>4 DEF Fits, TriesP2P, InP2PSoft, InP2PHard, Wormhole
    <3>2. CASE x = new
      <4>1. At(Buffers', x) = b /\ x[1] = q
        BY <3>2, <1>6, <1>12 DEF Extends
      <4> QED
        BY <4>1, <1>4 DEF Fits, TriesP2P, InP2PSoft, InP2PHard, Wormhole
    <3> QED
      BY <3>1, <3>2, <1>6 DEF Extends
  <2>3. pass' = 1 => Exact(Buffers', Live', Heaps')
    BY <1>1, <1>14 DEF MemoryInv
  <2> QED
    BY <2>1, <2>2, <2>3, <1>4, <1>14 DEF MemoryInv
<1> QED
  BY <1>4, <1>7, <1>8, <1>14, <1>15 DEF Inner

(* allocate_buffers, a buffer in the p2p region.                             *)
LEMMA PlaceInP2PKeeps ==
  ASSUME Inner, NEW q \in todo, PlaceInP2P(q)
  PROVE  Inner'
<1> DEFINE n == shape[q].size
           b == Buffer(0, GrantedAddr(p2p, n), q, TRUE)
<1>1. BasicInv /\ TurnInv /\ HeapsOk(Heaps, Ranges) /\ pc = "place" /\ Turn(q)
  BY DEF Inner, PlaceInP2P
<1>2. q \in Queues /\ n \in Nat \ {0}
  BY <1>1, TurnFacts, ShapeFacts
<1>3. /\ b = [chan |-> 0, addr |-> GrantedAddr(p2p, n), size |-> n, p2p |-> TRUE]
      /\ BlockOf(b) = Block(GrantedAddr(p2p, n), n)
      /\ KeyOf(b) = -1 /\ b.p2p = TRUE
  BY DEF Buffer, BlockOf, KeyOf
<1> HIDE DEF b
<1>4. Fitting(p2p, n) # {} /\ TriesP2P(q)
  BY DEF PlaceInP2P, FitsP2P
<1>5. -1 \in Keys /\ Heaps[-1] = p2p /\ 0 \in Virtual
  BY RangeFacts DEF Keys, Heaps
<1>6. HeapOk(p2p, Ranges[-1][1], Ranges[-1][2])
  BY <1>1, <1>5 DEF HeapsOk, Heaps
<1>7. Block(GrantedAddr(p2p, n), n).addr \in Int
  BY <1>2, <1>4, <1>6, HeapAllocate
<1>8. GrantedAddr(p2p, n) \in Int
  BY <1>7 DEF Block
<1>9. b \in BufferSet /\ Fits(q, b)
  <2>1. b.p2p /\ b.chan = 0
    BY <1>3
  <2>2. /\ b \in BufferSet
        /\ b \in [chan : Virtual, addr : Int, size : {shape[q].size}, p2p : BOOLEAN]
    BY <1>2, <1>3, <1>5, <1>8 DEF BufferSet
  <2> QED
    BY <2>1, <2>2, <1>4 DEF Fits
<1>10. /\ p2p' = AfterAllocate(p2p, n) /\ Placed(q, b)
       /\ UNCHANGED <<shape, option, pass, pc, static, epoch, chan>>
  BY DEF PlaceInP2P, b
<1>11. Keys' = Keys
  BY <1>10, FrameFacts
<1>12. Heaps' = [Heaps EXCEPT ![-1] = AfterAllocate(@, n)]
  BY <1>5, <1>10, <1>11 DEF Heaps
<1>13. DOMAIN chan' = Virtual
  BY <1>1, <1>10 DEF BasicInv
<1>14. /\ Fitting(Heaps[-1], n) # {}
       /\ BlockOf(b) = Block(GrantedAddr(Heaps[-1], n), n)
  BY <1>3, <1>4, <1>5
<1>15. /\ UNCHANGED <<shape, option, pass, pc, static, epoch>> /\ Placed(q, b)
       /\ b \in BufferSet /\ Fits(q, b) /\ pc = "place" /\ Turn(q) /\ KeyOf(b) = -1
       /\ -1 \in Keys
  BY <1>1, <1>3, <1>5, <1>9, <1>10
<1> QED
  BY <1>12, <1>13, <1>14, <1>15, PlacedKeeps

(* allocate_buffers, a buffer in the channel the picker names.               *)
LEMMA PlaceInChannelKeeps ==
  ASSUME Inner, NEW q \in todo, NEW from, NEW v \in Virtual, PlaceInChannel(q, from, v)
  PROVE  Inner'
<1> DEFINE n == shape[q].size
           b == Buffer(v, GrantedAddr(chan[v], n), q, FALSE)
<1>1. BasicInv /\ TurnInv /\ HeapsOk(Heaps, Ranges) /\ pc = "place" /\ Turn(q)
  BY DEF Inner, PlaceInChannel
<1>2. q \in Queues /\ n \in Nat \ {0}
  BY <1>1, TurnFacts, ShapeFacts
<1>3. /\ b = [chan |-> v, addr |-> GrantedAddr(chan[v], n), size |-> n, p2p |-> FALSE]
      /\ BlockOf(b) = Block(GrantedAddr(chan[v], n), n)
      /\ KeyOf(b) = v /\ b.p2p = FALSE
  BY DEF Buffer, BlockOf, KeyOf
<1> HIDE DEF b
<1>4. Fitting(chan[v], n) # {} /\ ~InP2PHard(q)
  BY DEF PlaceInChannel, FirstFit, WithRoom
<1>5. v \in Keys /\ v # -1 /\ Heaps[v] = chan[v] /\ v \in Nat
  BY RangeFacts DEF Keys, Heaps
<1>6. HeapOk(chan[v], Ranges[v][1], Ranges[v][2])
  BY <1>1, <1>5 DEF HeapsOk, Heaps
<1>7. Block(GrantedAddr(chan[v], n), n).addr \in Int
  BY <1>2, <1>4, <1>6, HeapAllocate
<1>8. GrantedAddr(chan[v], n) \in Int
  BY <1>7 DEF Block
<1>9. b \in BufferSet /\ Fits(q, b)
  <2>1. ~b.p2p
    BY <1>3
  <2>2. /\ b \in BufferSet
        /\ b \in [chan : Virtual, addr : Int, size : {shape[q].size}, p2p : BOOLEAN]
    BY <1>2, <1>3, <1>5, <1>8 DEF BufferSet
  <2> QED
    BY <2>1, <2>2, <1>4 DEF Fits
<1>10. /\ chan' = [chan EXCEPT ![v] = AfterAllocate(@, n)] /\ Placed(q, b)
       /\ UNCHANGED <<shape, option, pass, pc, static, epoch, p2p>>
  BY DEF PlaceInChannel, b
<1>11. Keys' = Keys
  BY <1>10, FrameFacts
<1>12. Heaps' = [Heaps EXCEPT ![v] = AfterAllocate(@, n)]
  <2>1. DOMAIN chan = Virtual
    BY <1>1 DEF BasicInv
  <2> QED
    BY <2>1, <1>5, <1>10, <1>11 DEF Heaps, Keys
<1>13. DOMAIN chan' = Virtual
  BY <1>1, <1>10 DEF BasicInv
<1>14. /\ Fitting(Heaps[v], n) # {}
       /\ BlockOf(b) = Block(GrantedAddr(Heaps[v], n), n)
  BY <1>3, <1>4, <1>5
<1>15. /\ UNCHANGED <<shape, option, pass, pc, static, epoch>> /\ Placed(q, b)
       /\ b \in BufferSet /\ Fits(q, b) /\ pc = "place" /\ Turn(q) /\ KeyOf(b) = v
       /\ v \in Keys
  BY <1>1, <1>3, <1>5, <1>9, <1>10
<1> QED
  BY <1>12, <1>13, <1>14, <1>15, PlacedKeeps

(* What depends only on the queues, the settings and the pass.               *)
LEMMA SettingsFacts ==
  UNCHANGED <<shape, option, pass>> =>
    /\ Keys' = Keys /\ Ranges' = Ranges /\ Virtual' = Virtual
    /\ ThisPass' = ThisPass
<1> SUFFICES ASSUME UNCHANGED <<shape, option, pass>>
             PROVE  /\ Keys' = Keys /\ Ranges' = Ranges /\ Virtual' = Virtual
                    /\ ThisPass' = ThisPass
  OBVIOUS
<1>1. Wormhole' <=> Wormhole
  BY DEF Wormhole
<1>2. Virtual' = Virtual
  BY <1>1 DEF Virtual, NumChannels
<1>3. \A v : RangeOf(v)' = RangeOf(v)
  BY <1>1 DEF RangeOf
<1>4. Keys' = Keys /\ Ranges' = Ranges
  BY <1>2, <1>3 DEF Keys, Ranges
<1> QED
  BY <1>2, <1>4 DEF ThisPass

(* An attempt that has not begun has nothing to keep.                        *)
LEMMA FreshAttempt ==
  /\ \A q \in ThisPass : place[q] = <<>>
  /\ cur = Nothing /\ held = {} /\ todo = Unplaced
  /\ pass = 1 => \A k \in Keys : Heaps[k].used = {}
  => TurnInv /\ HeldInv /\ MemoryInv
<1> SUFFICES ASSUME \A q \in ThisPass : place[q] = <<>>,
                    cur = Nothing, held = {}, todo = Unplaced,
                    pass = 1 => \A k \in Keys : Heaps[k].used = {}
             PROVE  TurnInv /\ HeldInv /\ MemoryInv
  OBVIOUS
<1>1. \A q : BuffersOf(q) = <<>>
  BY DEF BuffersOf, InProgress
<1>2. Owners(Buffers) = {} /\ Live = {}
  <2>1. \A q \in Queues : Buffers[q] = <<>>
    BY <1>1 DEF Buffers
  <2> QED
    BY <2>1 DEF Owners, Live
<1>3. TurnInv /\ HeldInv
  BY <1>2 DEF TurnInv, HeldInv
<1>4. \A q \in Queues : BuffersOf(q) \in Seq(BufferSet)
  <2>1. <<>> \in Seq(BufferSet)
    OBVIOUS
  <2> QED
    BY <2>1, <1>1, Zenon
<1>5. pass = 1 => Exact(Buffers, Live, Heaps)
  <2>1. DOMAIN Heaps = Keys
    BY DEF Heaps
  <2> QED
    BY <2>1 DEF Exact
<1>6. Backed(Buffers, Live, Heaps) /\ Separate(Buffers, Epochs) /\ Ranged(Buffers, Ranges)
  BY <1>2 DEF Backed, Separate, Ranged
<1> QED
  BY <1>2, <1>3, <1>4, <1>5, <1>6 DEF MemoryInv

(* allocate_queues starts its first attempt with empty heaps or those handed *)
(* handed over.                                                              *)
LEMMA ScheduleKeeps == ASSUME Inner, Schedule PROVE Inner'
<1>1. /\ BasicInv /\ IdleInv /\ SpanInv /\ SettledInv /\ HeapsOk(Heaps, Ranges)
      /\ pc = "schedule" /\ pc' = "place"
      /\ UNCHANGED <<shape, option, pass, cur, chan, p2p, picker, place, held, span>>
      /\ todo' = Unplaced /\ epoch' = 0
  BY DEF Inner, Schedule
<1>2. /\ Keys' = Keys /\ Ranges' = Ranges /\ Virtual' = Virtual
      /\ ThisPass' = ThisPass
  BY <1>1, SettingsFacts
<1>3. Heaps' = Heaps /\ Unplaced' = Unplaced
  BY <1>1, <1>2 DEF Heaps, Unplaced
<1>4. \A q \in ThisPass : place[q] = <<>>
  BY <1>1 DEF IdleInv
<1>5. TurnInv' /\ HeldInv' /\ MemoryInv'
  <2>1. (/\ \A q \in ThisPass : place[q] = <<>>
         /\ cur = Nothing /\ held = {} /\ todo = Unplaced
         /\ pass = 1 => \A k \in Keys : Heaps[k].used = {})'
    BY <1>1, <1>2, <1>3, <1>4 DEF IdleInv
  <2> QED
    BY <2>1, FreshAttempt, PTL
<1>6. BasicInv'
  BY <1>1, <1>2, ConfigAssumption DEF BasicInv, QueueParameters
<1>7. IdleInv'
  BY <1>1 DEF IdleInv
<1>8. SpanInv'
  BY <1>1, <1>2, <1>4 DEF SpanInv, SpanOf
<1>9. SettledInv'
  BY <1>1, SettledStays
<1> QED
  BY <1>1, <1>2, <1>3, <1>5, <1>6, <1>7, <1>8, <1>9 DEF Inner

(* After a failed static attempt and the clearing, the dynamic one starts.   *)
LEMMA FallbackKeeps == ASSUME Inner, Fallback PROVE Inner'
<1>1. /\ BasicInv /\ IdleInv /\ SpanInv /\ SettledInv /\ HeapsOk(Heaps, Ranges)
      /\ pc = "reset" /\ pc' = "place"
      /\ UNCHANGED <<shape, option, pass, cur, chan, p2p, place, held, span>>
      /\ todo' = Unplaced /\ epoch' = 0
      /\ \A w \in Virtual : chan[w].used = {}
      /\ p2p.used = {}
  BY DEF Inner, Fallback
<1>2. /\ Keys' = Keys /\ Ranges' = Ranges /\ Virtual' = Virtual
      /\ ThisPass' = ThisPass
  BY <1>1, SettingsFacts
<1>3. Heaps' = Heaps /\ Unplaced' = Unplaced
  BY <1>1, <1>2 DEF Heaps, Unplaced
<1>4. \A q \in ThisPass : place[q] = <<>>
  BY <1>1 DEF IdleInv
<1>5. TurnInv' /\ HeldInv' /\ MemoryInv'
  <2>1. \A k \in Keys : Heaps[k].used = {}
    BY <1>1 DEF Keys, Heaps
  <2>2. (/\ \A q \in ThisPass : place[q] = <<>>
         /\ cur = Nothing /\ held = {} /\ todo = Unplaced
         /\ pass = 1 => \A k \in Keys : Heaps[k].used = {})'
    BY <2>1, <1>1, <1>2, <1>3, <1>4 DEF IdleInv
  <2> QED
    BY <2>2, FreshAttempt, PTL
<1>6. BasicInv'
  BY <1>1, <1>2, ConfigAssumption DEF BasicInv, QueueParameters
<1>7. IdleInv'
  BY <1>1 DEF IdleInv
<1>8. SpanInv'
  BY <1>1, <1>2, <1>4 DEF SpanInv, SpanOf
<1>9. SettledInv'
  BY <1>1, SettledStays
<1> QED
  BY <1>1, <1>2, <1>3, <1>5, <1>6, <1>7, <1>8, <1>9 DEF Inner

(* A static attempt that runs out of memory is given up.                     *)
LEMMA StaticFailsKeeps == ASSUME Inner, NEW q, StaticFails(q) PROVE Inner'
<1>1. /\ BasicInv /\ IdleInv /\ SpanInv /\ SettledInv /\ HeapsOk(Heaps, Ranges)
      /\ pc = "place" /\ pc' = "reset" /\ static /\ static'
      /\ UNCHANGED <<shape, option, pass, static, todo, epoch, chan, p2p, picker, span>>
      /\ place' = [r \in Queues |-> IF r \in ThisPass THEN <<>> ELSE place[r]]
      /\ cur' = Nothing /\ held' = {}
  BY DEF Inner, StaticFails
<1>2. /\ Keys' = Keys /\ Ranges' = Ranges /\ Virtual' = Virtual
      /\ ThisPass' = ThisPass
  BY <1>1, SettingsFacts
<1>3. Heaps' = Heaps
  BY <1>1, <1>2 DEF Heaps
<1>4. /\ \A r \in ThisPass : place'[r] = <<>>
      /\ \A r \in Queues \ ThisPass : place'[r] = place[r] /\ span'[r] = span[r]
  BY <1>1 DEF ThisPass
<1>5. BasicInv'
  BY <1>1, <1>2 DEF BasicInv, QueueParameters
<1>6. IdleInv'
  <2>1. \A r \in Queues : shape[r].pass > pass => r \notin ThisPass
    BY <1>1 DEF ThisPass, BasicInv
  <2> QED
    BY <2>1, <1>1, <1>2, <1>4 DEF IdleInv
<1>7. SpanInv'
  <2> SUFFICES ASSUME NEW r \in ThisPass
               PROVE  \/ span[r] = <<-1, -1>>
                      \/ shape[r].kind = "buffering" /\ span[r] = <<0, -1>>
    BY <1>1, <1>2, <1>4 DEF SpanInv, SpanOf
  <2>1. SpanOf(r)
    BY <1>1 DEF SpanInv
  <2>2. CASE place[r] = <<>>
    BY <2>1, <2>2 DEF SpanOf
  <2>3. CASE place[r] # <<>> /\ is_static_queue(r)
    BY <2>1, <2>3, <1>1 DEF SpanOf
  <2>4. CASE place[r] # <<>> /\ ~is_static_queue(r)
    <3>1. shape[r].kind = "buffering"
      BY <2>4, <1>1 DEF is_static_queue
    <3>2. ProducerEpoch(r) = 0 /\ AsInt(LastConsumerEpoch(r)) = -1
      BY <3>1 DEF ProducerEpoch, LastConsumerEpoch, EpochToEpoch, AsInt
    <3> QED
      BY <2>1, <2>4, <3>1, <3>2, <1>1 DEF SpanOf
  <2> QED
    BY <2>2, <2>3, <2>4
<1>8. SettledInv'
  BY <1>1, <1>4, SettledStays
<1> QED
  BY <1>1, <1>2, <1>3, <1>5, <1>6, <1>7, <1>8 DEF Inner

(* A dynamic attempt that runs out of memory throws.                         *)
LEMMA DynamicFailsKeeps == ASSUME Inner, NEW q, DynamicFails(q) PROVE Inner'
<1>1. /\ BasicInv /\ IdleInv /\ SpanInv /\ SettledInv /\ HeapsOk(Heaps, Ranges)
      /\ pc' = "thrown"
      /\ UNCHANGED <<shape, option, pass, static, todo, cur, epoch, chan, p2p,
                     picker, place, held, span>>
  BY DEF Inner, DynamicFails
<1>2. Keys' = Keys /\ Ranges' = Ranges /\ Virtual' = Virtual
  BY <1>1, SettingsFacts
<1>3. Heaps' = Heaps
  BY <1>1, <1>2 DEF Heaps
<1>4. BasicInv' /\ IdleInv' /\ SpanInv'
  BY <1>1, <1>2 DEF BasicInv, QueueParameters, IdleInv, SpanInv
<1>5. SettledInv'
  BY <1>1, SettledStays
<1> QED
  BY <1>1, <1>2, <1>3, <1>4, <1>5 DEF Inner

(* A step of reset_dram_allocator, in either kind of heap.                   *)
LEMMA ResetKeeps ==
  ASSUME Inner, pc = "reset", NEW k \in Keys, NEW b \in Heaps[k].used,
         Heaps' = [Heaps EXCEPT ![k] = AfterDeallocate(@, b)],
         DOMAIN chan' = Virtual,
         UNCHANGED <<shape, option, pass, pc, static, todo, cur, epoch,
                     picker, place, held, span>>
  PROVE  Inner'
<1>1. /\ BasicInv /\ IdleInv /\ SpanInv /\ SettledInv /\ HeapsOk(Heaps, Ranges)
  BY DEF Inner
<1>2. /\ Keys' = Keys /\ Ranges' = Ranges /\ Virtual' = Virtual
      /\ ThisPass' = ThisPass
  BY SettingsFacts
<1>3. HeapsOk(Heaps', Ranges')
  <2>1. k \in DOMAIN Heaps /\ HeapOk(Heaps[k], Ranges[k][1], Ranges[k][2])
    BY <1>1 DEF HeapsOk, Heaps
  <2>2. HeapOk(AfterDeallocate(Heaps[k], b), Ranges[k][1], Ranges[k][2])
    BY <2>1, HeapDeallocate
  <2> QED
    BY <2>1, <2>2, <1>1, <1>2 DEF HeapsOk
<1>4. BasicInv'
  BY <1>1, <1>2 DEF BasicInv, QueueParameters
<1>5. IdleInv'
  BY <1>1, <1>2 DEF IdleInv
<1>6. SpanInv'
  BY <1>1, <1>2 DEF SpanInv, SpanOf
<1>7. SettledInv'
  BY <1>1, SettledStays
<1> QED
  BY <1>3, <1>4, <1>5, <1>6, <1>7 DEF Inner

(* clear_dram frees one more block of a channel,                             *)
LEMMA ClearChannelKeeps ==
  ASSUME Inner, NEW v \in Virtual, NEW b \in chan[v].used, ClearChannel(v, b)
  PROVE  Inner'
<1>1. /\ pc = "reset" /\ chan' = [chan EXCEPT ![v] = AfterDeallocate(@, b)]
      /\ UNCHANGED <<shape, option, pass, pc, static, todo, cur, epoch, p2p,
                     picker, place, held, span>>
  BY DEF ClearChannel
<1>2. DOMAIN chan = Virtual
  BY DEF Inner, BasicInv
<1>3. v \in Keys /\ v # -1 /\ Heaps[v] = chan[v]
  BY RangeFacts DEF Keys, Heaps
<1>4. Keys' = Keys
  BY <1>1, SettingsFacts
<1>5. Heaps' = [Heaps EXCEPT ![v] = AfterDeallocate(@, b)]
  BY <1>1, <1>2, <1>3, <1>4 DEF Heaps, Keys
<1>6. DOMAIN chan' = Virtual /\ b \in Heaps[v].used
  BY <1>1, <1>2, <1>3
<1> QED
  BY <1>1, <1>3, <1>5, <1>6, ResetKeeps

(* or of the p2p region.                                                     *)
LEMMA ClearP2PKeeps ==
  ASSUME Inner, NEW b \in p2p.used, ClearP2P(b)
  PROVE  Inner'
<1>1. /\ pc = "reset" /\ p2p' = AfterDeallocate(p2p, b)
      /\ UNCHANGED <<shape, option, pass, pc, static, todo, cur, epoch, chan,
                     picker, place, held, span>>
  BY DEF ClearP2P
<1>2. DOMAIN chan = Virtual
  BY DEF Inner, BasicInv
<1>3. -1 \in Keys /\ Heaps[-1] = p2p
  BY DEF Keys, Heaps
<1>4. Keys' = Keys
  BY <1>1, SettingsFacts
<1>5. Heaps' = [Heaps EXCEPT ![-1] = AfterDeallocate(@, b)]
  BY <1>1, <1>3, <1>4 DEF Heaps
<1>6. DOMAIN chan' = Virtual /\ b \in Heaps[-1].used
  BY <1>1, <1>2, <1>3
<1> QED
  BY <1>1, <1>3, <1>5, <1>6, ResetKeeps

(* Placed queues keep their buffers when nothing is placed.                  *)
LEMMA BuffersStay ==
  UNCHANGED <<shape, option, pass, static, cur, place>> =>
    /\ \A q : BuffersOf(q)' = BuffersOf(q)
    /\ Buffers' = Buffers
    /\ \A q : InProgress(q)' <=> InProgress(q)
<1> SUFFICES ASSUME UNCHANGED <<shape, option, pass, static, cur, place>>
             PROVE  /\ \A q : BuffersOf(q)' = BuffersOf(q)
                    /\ Buffers' = Buffers
                    /\ \A q : InProgress(q)' <=> InProgress(q)
  OBVIOUS
<1>1. ThisPass' = ThisPass
  BY FrameFacts
<1>2. \A q : InProgress(q)' <=> InProgress(q)
  BY DEF InProgress
<1>3. \A q : BuffersOf(q)' = BuffersOf(q)
  BY <1>1, <1>2 DEF BuffersOf
<1>4. Buffers' = Buffers
  BY <1>3 DEF Buffers
<1> QED
  BY <1>2, <1>3, <1>4

(* The dynamic attempt goes on to the next epoch.                            *)
LEMMA NextEpochKeeps == ASSUME Inner, NextEpoch PROVE Inner'
<1>1. /\ BasicInv /\ IdleInv /\ SpanInv /\ SettledInv /\ HeapsOk(Heaps, Ranges)
      /\ TurnInv /\ HeldInv /\ MemoryInv
      /\ pc = "place" /\ cur = Nothing /\ StaticTodo = {} /\ Ending = {}
      /\ epoch < Forever /\ epoch' = epoch + 1
      /\ UNCHANGED <<shape, option, pass, pc, static, todo, cur, chan, p2p,
                     picker, place, held, span>>
  BY DEF Inner, NextEpoch, EpochAllocated
<1>2. /\ Keys' = Keys /\ Ranges' = Ranges /\ Epochs' = Epochs /\ Virtual' = Virtual
      /\ ThisPass' = ThisPass
      /\ \A q : /\ is_static_queue(q)' <=> is_static_queue(q)
                /\ ProducerEpoch(q)' = ProducerEpoch(q)
                /\ LastConsumerEpoch(q)' = LastConsumerEpoch(q)
                /\ \A b : Fits(q, b)' <=> Fits(q, b)
  BY <1>1, FrameFacts
<1>3. /\ \A q : BuffersOf(q)' = BuffersOf(q)
      /\ Buffers' = Buffers
      /\ \A q : InProgress(q)' <=> InProgress(q)
  BY <1>1, BuffersStay
<1>4. Live' = Live /\ Heaps' = Heaps
  BY <1>1, <1>2, <1>3 DEF Live, Heaps
<1>5. StaticTodo' = {} /\ Unplaced' = Unplaced
  BY <1>1, <1>2 DEF StaticTodo, Unplaced
<1>6. BasicInv'
  BY <1>1, <1>2, ConfigAssumption DEF BasicInv, QueueParameters
<1>7. IdleInv'
  BY <1>1, <1>2 DEF IdleInv
<1>8. SpanInv'
  BY <1>1, <1>2 DEF SpanInv, SpanOf
<1>9. SettledInv'
  BY <1>1, SettledStays
<1>10. TurnInv'
  BY <1>1, <1>5 DEF TurnInv
<1>11. HeldInv'
  <2>1. ASSUME NEW x \in held PROVE LastConsumerEpoch(x[1]) >= epoch + 1
    <3>1. LastConsumerEpoch(x[1]) >= epoch /\ x[1] \in Queues
      BY <1>1 DEF HeldInv
    <3>2. LastConsumerEpoch(x[1]) # epoch
      BY <1>1 DEF Ending
    <3>3. LastConsumerEpoch(x[1]) \in Nat /\ epoch \in Nat
      BY <1>1, <3>1, ShapeFacts DEF BasicInv
    <3> QED
      BY <3>1, <3>2, <3>3
  <2>2. ASSUME NEW x \in Owners(Buffers) \ Live
        PROVE  LastConsumerEpoch(x[1]) < epoch + 1
    <3>1. x[1] \in Queues
      BY DEF Owners
    <3>2. LastConsumerEpoch(x[1]) \in Nat /\ epoch \in Nat
      BY <1>1, <3>1, ShapeFacts DEF BasicInv
    <3> QED
      BY <1>1, <3>2 DEF HeldInv
  <2>3. \A x \in held : /\ x \in Queues \X Nat
                        /\ x[1] \in ThisPass /\ x[2] \in DOMAIN place[x[1]]
                        /\ ~is_static_queue(x[1])
    BY <1>1 DEF HeldInv
  <2> QED
    BY <2>1, <2>2, <2>3, <1>1, <1>2, <1>3, <1>4 DEF HeldInv
<1>12. MemoryInv'
  <2>1. \A x \in Owners(Buffers) : Fits(x[1], At(Buffers, x))'
    BY <1>1, <1>2, <1>3 DEF MemoryInv, Fits, TriesP2P, InP2PSoft, InP2PHard, Wormhole
  <2> QED
    BY <2>1, <1>1, <1>2, <1>3, <1>4 DEF MemoryInv
<1> QED
  BY <1>1, <1>2, <1>4, <1>6, <1>7, <1>8, <1>9, <1>10, <1>11, <1>12 DEF Inner

(* deallocate_buffers gives back a buffer of a queue whose last epoch it is. *)
LEMMA FreeBufferKeeps ==
  ASSUME Inner, NEW q, NEW i, FreeBuffer(q, i)
  PROVE  Inner'
<1> DEFINE x == <<q, i>>
           b == place[q][i]
<1>1. /\ BasicInv /\ IdleInv /\ SpanInv /\ SettledInv /\ HeapsOk(Heaps, Ranges)
      /\ TurnInv /\ HeldInv /\ MemoryInv
      /\ pc = "place" /\ EpochAllocated
      /\ x \in held /\ LastConsumerEpoch(q) = epoch
      /\ held' = held \ {x}
      /\ span' = [span EXCEPT ![q][2] = AsInt(epoch)]
      /\ UNCHANGED <<shape, option, pass, pc, static, todo, cur, epoch, picker, place>>
  BY DEF Inner, FreeBuffer, EpochAllocated, Ending
<1>2. /\ Keys' = Keys /\ Ranges' = Ranges /\ Epochs' = Epochs /\ Virtual' = Virtual
      /\ ThisPass' = ThisPass
      /\ \A r : /\ is_static_queue(r)' <=> is_static_queue(r)
                /\ ProducerEpoch(r)' = ProducerEpoch(r)
                /\ LastConsumerEpoch(r)' = LastConsumerEpoch(r)
  BY <1>1, FrameFacts
<1>3. /\ \A r : BuffersOf(r)' = BuffersOf(r)
      /\ Buffers' = Buffers
      /\ \A r : InProgress(r)' <=> InProgress(r)
  BY <1>1, BuffersStay
<1>4. /\ q \in Queues /\ i \in Nat /\ q \in ThisPass /\ i \in DOMAIN place[q]
      /\ ~is_static_queue(q) /\ x[1] = q
  BY <1>1 DEF HeldInv
<1>5. \A r : ~InProgress(r)
  BY <1>1 DEF EpochAllocated, InProgress
<1>6. Buffers[q] = place[q]
  BY <1>4, <1>5 DEF Buffers, BuffersOf
<1>7. x \in Owners(Buffers) /\ At(Buffers, x) = b
  BY <1>4, <1>6 DEF Owners, At
<1> HIDE DEF x, b
<1>8. x \in Live
  BY <1>1, <1>7 DEF Live
<1>9. Live' = Live \ {x}
  BY <1>1, <1>2, <1>3, <1>4, <1>5 DEF Live
<1>10. /\ Backed(Buffers, Live, Heaps) /\ Separate(Buffers, Epochs)
       /\ Ranged(Buffers, Ranges) /\ (pass = 1 => Exact(Buffers, Live, Heaps))
  BY <1>1 DEF MemoryInv
<1>11. KeyOf(b) \in DOMAIN Heaps
  BY <1>7, <1>8, <1>10 DEF Backed
<1>12. /\ Heaps' = [Heaps EXCEPT ![KeyOf(b)] = AfterDeallocate(@, BlockOf(b))]
       /\ DOMAIN chan' = Virtual
  <2>1. DOMAIN chan = Virtual /\ -1 \in Keys /\ KeyOf(b) \in Keys
    BY <1>1, <1>11 DEF BasicInv, Keys, Heaps
  <2>2. CASE b.p2p
    <3>1. /\ p2p' = AfterDeallocate(p2p, BlockOf(b)) /\ UNCHANGED chan
          /\ KeyOf(b) = -1
      BY <2>2 DEF FreeBuffer, KeyOf, b
    <3> QED
      BY <2>1, <3>1, <1>2 DEF Heaps
  <2>3. CASE ~b.p2p
    <3>1. /\ chan' = [chan EXCEPT ![b.chan] = AfterDeallocate(@, BlockOf(b))]
          /\ UNCHANGED p2p /\ KeyOf(b) = b.chan
      BY <2>3 DEF FreeBuffer, KeyOf, b
    <3>2. b.chan \in Virtual /\ b.chan # -1
      <4>1. Fits(q, b)
        BY <1>1, <1>4, <1>7 DEF MemoryInv
      <4> QED
        BY <4>1, RangeFacts DEF Fits
    <3> QED
      BY <2>1, <3>1, <3>2, <1>2 DEF Heaps, Keys
  <2> QED
    BY <2>2, <2>3
<1>13. /\ HeapsOk(Heaps', Ranges) /\ Backed(Buffers, Live', Heaps')
       /\ Exact(Buffers, Live, Heaps) => Exact(Buffers, Live', Heaps')
  <2>1. TakeStep(Buffers, Live, Heaps, Ranges, x, Heaps')
    BY <1>1, <1>7, <1>8, <1>10, <1>12 DEF TakeStep
  <2> QED
    BY <2>1, <1>9, TakeBlock
<1>14. MemoryInv'
  <2>1. \A y \in Owners(Buffers) : Fits(y[1], At(Buffers, y))'
    BY <1>1, <1>2, <1>3 DEF MemoryInv, Fits, TriesP2P, InP2PSoft, InP2PHard, Wormhole
  <2>2. \A r \in Queues : BuffersOf(r)' \in Seq(BufferSet)
    BY <1>1, <1>3 DEF MemoryInv
  <2> QED
    BY <2>1, <2>2, <1>1, <1>2, <1>3, <1>10, <1>13 DEF MemoryInv
<1>15. StaticTodo' = StaticTodo /\ Beginning' = Beginning /\ Unplaced' = Unplaced
  BY <1>1, <1>2 DEF StaticTodo, Beginning, Unplaced
<1>16. TurnInv'
  BY <1>1, <1>2, <1>3, <1>15 DEF TurnInv
<1>17. HeldInv'
  <2>1. EpochAllocated'
    BY <1>1, <1>15 DEF EpochAllocated
  <2>2. ASSUME NEW y \in Owners(Buffers) \ Live'
        PROVE  \/ LastConsumerEpoch(y[1]) < epoch
               \/ LastConsumerEpoch(y[1]) = epoch
    BY <1>1, <1>4, <1>9 DEF HeldInv
  <2> QED
    BY <2>1, <2>2, <1>1, <1>2, <1>3 DEF HeldInv
<1>18. /\ \A r \in Queues \ {q} : span'[r] = span[r]
       /\ span'[q] = [span[q] EXCEPT ![2] = AsInt(epoch)]
       /\ DOMAIN span' = Queues
  BY <1>1, <1>4 DEF BasicInv
<1>19. SpanInv'
  <2> SUFFICES ASSUME NEW r \in ThisPass PROVE SpanOf(r)'
    BY <1>2 DEF SpanInv
  <2>1. SpanOf(r) /\ r \in Queues
    BY <1>1 DEF SpanInv, ThisPass
  <2>2. CASE r # q
    <3>1. span'[r] = span[r]
      BY <2>1, <2>2, <1>18
    <3>2. \A j : <<r, j>> \in held => <<r, j>> \in held'
      BY <2>2, <1>1, <1>4
    <3> QED
      BY <2>1, <3>1, <3>2, <1>1, <1>2 DEF SpanOf
  <2>3. CASE r = q
    <3>1. place[q] # <<>>
      BY <1>4
    <3>2. \/ span[q] = <<ProducerEpoch(q), AsInt(LastConsumerEpoch(q))>>
          \/ span[q] = <<ProducerEpoch(q), -1>>
      BY <2>1, <2>3, <3>1, <1>1, <1>4 DEF SpanOf
    <3>3. span'[q] = <<ProducerEpoch(q), AsInt(LastConsumerEpoch(q))>>
      BY <3>2, <1>1, <1>18
    <3>4. AsInt(LastConsumerEpoch(q))' = AsInt(LastConsumerEpoch(q))
      BY <1>2 DEF AsInt
    <3> QED
      BY <2>3, <3>1, <3>3, <3>4, <1>1, <1>2, <1>4 DEF SpanOf
  <2> QED
    BY <2>2, <2>3
<1>20. BasicInv'
  BY <1>1, <1>2, <1>12, <1>18 DEF BasicInv, QueueParameters
<1>21. IdleInv'
  <2>1. \A r \in Queues : shape[r].pass > pass => r # q
    <3>1. shape[q].pass = pass /\ pass \in {1, 2}
      BY <1>1, <1>4 DEF ThisPass, BasicInv
    <3> QED
      BY <3>1
  <2> QED
    BY <2>1, <1>1, <1>18 DEF IdleInv
<1>22. SettledInv'
  <2>1. \A r \in Queues \ ThisPass : place'[r] = place[r] /\ span'[r] = span[r]
    BY <1>1, <1>4, <1>18
  <2> QED
    BY <2>1, <1>1, SettledStays
<1> QED
  BY <1>1, <1>2, <1>13, <1>14, <1>16, <1>17, <1>19, <1>20, <1>21, <1>22 DEF Inner

(* Where the virtual channels lie: inside the usable part of the channel,    *)
(* beside the p2p region, and beside the other half.                         *)
LEMMA ChannelRanges ==
  ASSUME NEW v \in Virtual
  PROVE  /\ v \in Nat
         /\ Offset <= RangeOf(v)[1] /\ RangeOf(v)[2] + 1 <= ChannelSize
         /\ RangeOf(v)[1] \in Nat /\ RangeOf(v)[2] \in Int
         /\ RealChannel(v) = 0 => \/ RangeOf(v)[2] < P2POffset
                                  \/ P2POffset + P2PSize <= RangeOf(v)[1]
         /\ \A w \in Virtual : v < w /\ RealChannel(v) = RealChannel(w) =>
              RangeOf(v)[2] < RangeOf(w)[1]
<1> DEFINE half == ChannelSize \div 2
<1>1. /\ Offset \in Nat /\ ChannelSize \in Nat /\ P2POffset \in Nat /\ P2PSize \in Nat
      /\ P2POffset + P2PSize <= ChannelSize
  BY ConfigAssumption
<1>2. half \in Nat /\ half <= ChannelSize
  BY <1>1
<1> HIDE DEF half
<1>3. \A w \in Virtual : w \in Nat
  BY RangeFacts
<1>4. /\ MaxOf(P2POffset + P2PSize, Offset) \in Nat
      /\ MaxOf(P2POffset + P2PSize, Offset) >= P2POffset + P2PSize
      /\ MaxOf(P2POffset + P2PSize, Offset) >= Offset
      /\ MaxOf(Offset, half) \in Nat
      /\ MaxOf(Offset, half) >= Offset /\ MaxOf(Offset, half) >= half
  BY <1>1, <1>2 DEF MaxOf
<1>5. RangeOf(0) = <<Offset, P2POffset - 1>>
  BY DEF RangeOf
<1>6. CASE ~Wormhole
  <2>1. \A w \in Virtual : RealChannel(w) = w
    BY <1>6 DEF RealChannel
  <2>2. CASE v = 0
    BY <2>1, <2>2, <1>1, <1>3, <1>5
  <2>3. CASE v # 0
    <3>1. RangeOf(v) = <<Offset, ChannelSize - 1>>
      BY <2>3, <1>3, <1>6 DEF RangeOf
    <3> QED
      BY <2>1, <2>3, <3>1, <1>1, <1>3
  <2> QED
    BY <2>2, <2>3
<1>7. CASE Wormhole
  <2>1. \A w \in Virtual : RealChannel(w) = w \div 2
    BY <1>7 DEF RealChannel
  <2>2. RangeOf(1) = <<MaxOf(P2POffset + P2PSize, Offset), ChannelSize - 1>>
    BY <1>7 DEF RangeOf
  <2>3. \A w \in Virtual : w > 1 /\ w % 2 = 0 => RangeOf(w) = <<Offset, half - 1>>
    BY <1>3, <1>7 DEF RangeOf, half
  <2>4. \A w \in Virtual : w > 1 /\ w % 2 = 1 =>
          RangeOf(w) = <<MaxOf(Offset, half), ChannelSize - 1>>
    BY <1>3, <1>7 DEF RangeOf, half
  <2>5. ASSUME NEW w \in Virtual, v < w, RealChannel(v) = RealChannel(w)
        PROVE  w = v + 1 /\ v % 2 = 0 /\ w % 2 = 1
    BY <2>1, <2>5, <1>3
  <2>6. CASE v = 0
    BY <2>2, <2>5, <2>6, <1>1, <1>3, <1>4, <1>5
  <2>7. CASE v = 1
    BY <2>1, <2>2, <2>5, <2>7, <1>1, <1>3, <1>4
  <2>8. CASE v > 1 /\ v % 2 = 0
    <3>1. RealChannel(v) # 0
      BY <2>1, <2>8, <1>3
    <3>2. RangeOf(v) = <<Offset, half - 1>>
      BY <2>3, <2>8
    <3>3. ASSUME NEW w \in Virtual, v < w, RealChannel(v) = RealChannel(w)
          PROVE  RangeOf(v)[2] < RangeOf(w)[1]
      <4>1. RangeOf(w) = <<MaxOf(Offset, half), ChannelSize - 1>>
        BY <2>4, <2>5, <2>8, <3>3, <1>3
      <4> QED
        BY <4>1, <3>2, <1>1, <1>2, <1>4
    <3> QED
      BY <3>1, <3>2, <3>3, <1>1, <1>2, <1>3
  <2>9. CASE v > 1 /\ v % 2 = 1
    <3>1. RealChannel(v) # 0
      BY <2>1, <2>9, <1>3
    <3>2. RangeOf(v) = <<MaxOf(Offset, half), ChannelSize - 1>>
      BY <2>4, <2>9
    <3> QED
      BY <2>5, <2>9, <3>1, <3>2, <1>1, <1>3, <1>4
  <2> QED
    BY <2>6, <2>7, <2>8, <2>9, <1>3
<1> QED
  BY <1>6, <1>7

(* A placed queue of the pass as Finish finds it.                            *)
LEMMA FinalBuffers ==
  ASSUME Inner, Finish, NEW q \in ThisPass, NEW i \in DOMAIN place[q]
  PROVE  LET b == place[q][i]
         IN  /\ Fits(q, b) /\ b.addr \in Int /\ b.size \in Nat \ {0}
             /\ <<q, i>> \in Owners(Buffers) /\ At(Buffers, <<q, i>>) = b
             /\ Ranges[KeyOf(b)][1] <= b.addr
             /\ b.addr + b.size <= Ranges[KeyOf(b)][2] + 1
             /\ Lifetime(q) = Epochs[q]
<1> DEFINE b == place[q][i]
           x == <<q, i>>
<1>1. /\ BasicInv /\ SpanInv /\ HeldInv /\ MemoryInv
      /\ pc = "place" /\ cur = Nothing /\ Ending = {} /\ epoch = Forever
  BY DEF Inner, Finish, EpochAllocated
<1>2. q \in Queues /\ shape[q].size \in Nat \ {0}
  BY <1>1, ShapeFacts DEF ThisPass
<1>3. Buffers[q] = place[q] /\ BuffersOf(q) = place[q]
  BY <1>1, <1>2 DEF Buffers, BuffersOf, InProgress
<1>4. place[q] \in Seq(BufferSet)
  BY <1>1, <1>2, <1>3 DEF MemoryInv
<1>5. i \in Nat
  BY <1>4
<1>6. x \in Owners(Buffers) /\ At(Buffers, x) = b
  BY <1>2, <1>3, <1>5 DEF Owners, At
<1>7. Fits(q, b)
  BY <1>1, <1>6 DEF MemoryInv
<1>8. b.addr \in Int /\ b.size \in Nat \ {0}
  BY <1>2, <1>7 DEF Fits
<1>9. /\ Ranges[KeyOf(b)][1] <= b.addr
      /\ b.addr + b.size <= Ranges[KeyOf(b)][2] + 1
  BY <1>1, <1>6 DEF MemoryInv, Ranged
<1>10. held = {}
  <2> SUFFICES ASSUME NEW y \in held PROVE FALSE
    OBVIOUS
  <2>1. y[1] \in Queues /\ LastConsumerEpoch(y[1]) >= Forever
    BY <1>1 DEF HeldInv
  <2>2. LastConsumerEpoch(y[1]) = Forever
    BY <2>1, <1>1, ShapeFacts, ConfigAssumption
  <2> QED
    BY <2>2, <1>1 DEF Ending
<1>11. Lifetime(q) = Epochs[q]
  <2>1. SpanOf(q) /\ place[q] # <<>>
    BY <1>1 DEF SpanInv
  <2>2. CASE is_static_queue(q)
    <3>1. span[q] = <<-1, -1>>
      BY <2>1, <2>2, <1>1 DEF SpanOf
    <3> QED
      BY <3>1, <2>2, <1>2 DEF Lifetime, Epochs, EpochsOf
  <2>3. CASE ~is_static_queue(q)
    <3>1. span[q] = <<ProducerEpoch(q), AsInt(LastConsumerEpoch(q))>>
      BY <2>1, <2>3, <1>1, <1>10 DEF SpanOf
    <3>2. /\ ProducerEpoch(q) \in Nat /\ LastConsumerEpoch(q) \in Nat
      BY <1>1, <1>2, ShapeFacts
    <3>3. Lifetime(q) = ProducerEpoch(q) .. LastConsumerEpoch(q)
      BY <3>1, <3>2 DEF Lifetime, AsInt
    <3> QED
      BY <3>3, <2>3, <1>2 DEF Epochs, EpochsOf
  <2> QED
    BY <2>2, <2>3
<1> QED
  BY <1>6, <1>7, <1>8, <1>9, <1>11

(* What the placement is after Finish.                                       *)
LEMMA FinalPlace ==
  ASSUME Inner, Finish, NEW q \in ThisPass
  PROVE  /\ DOMAIN place'[q] = DOMAIN place[q]
         /\ \A i \in DOMAIN place[q] :
              /\ place'[q][i].chan = RealChannel(place[q][i].chan)
              /\ place'[q][i].addr = place[q][i].addr
              /\ place'[q][i].size = place[q][i].size
              /\ place'[q][i].p2p = place[q][i].p2p
         /\ Lifetime(q)' = Lifetime(q)
<1>1. q \in Queues
  BY DEF ThisPass
<1>2. /\ place'[q] = [i \in DOMAIN place[q] |->
                       [place[q][i] EXCEPT !.chan = RealChannel(@)]]
      /\ UNCHANGED span
  BY <1>1 DEF Finish
<1>3. Lifetime(q)' = Lifetime(q)
  BY <1>2 DEF Lifetime
<1>4. ASSUME NEW i \in DOMAIN place[q]
      PROVE  /\ place'[q][i].chan = RealChannel(place[q][i].chan)
             /\ place'[q][i].addr = place[q][i].addr
             /\ place'[q][i].size = place[q][i].size
             /\ place'[q][i].p2p = place[q][i].p2p
  <2>1. Fits(q, place[q][i])
    BY FinalBuffers
  <2>2. DOMAIN place[q][i] = {"chan", "addr", "size", "p2p"}
    BY <2>1 DEF Fits
  <2>3. place'[q][i] = [place[q][i] EXCEPT !.chan = RealChannel(@)]
    BY <1>2
  <2> QED
    BY <2>2, <2>3
<1> QED
  BY <1>2, <1>3, <1>4

(* Buffers of one real channel that lie in different heaps do not meet.      *)
LEMMA HeapsApart ==
  ASSUME NEW k \in Keys, NEW l \in Keys, k # l,
         (IF k = -1 THEN 0 ELSE RealChannel(k)) = (IF l = -1 THEN 0 ELSE RealChannel(l)),
         NEW b, NEW c, b.addr \in Int, b.size \in Nat, c.addr \in Int, c.size \in Nat,
         Ranges[k][1] <= b.addr, b.addr + b.size <= Ranges[k][2] + 1,
         Ranges[l][1] <= c.addr, c.addr + c.size <= Ranges[l][2] + 1
  PROVE  Apart(BlockOf(b), BlockOf(c))
<1>1. /\ EndOf(BlockOf(b)) = b.addr + b.size /\ BlockOf(b).addr = b.addr
      /\ EndOf(BlockOf(c)) = c.addr + c.size /\ BlockOf(c).addr = c.addr
  BY DEF BlockOf, Block, EndOf
<1>2. /\ P2POffset \in Nat /\ P2PSize \in Nat
      /\ Ranges[-1] = <<P2POffset, P2POffset + P2PSize - 1>>
      /\ \A v \in Virtual : Ranges[v] = RangeOf(v) /\ v # -1
  BY ConfigAssumption, RangeFacts DEF Keys, Ranges
<1>3. \A v \in Virtual : RangeOf(v)[1] \in Nat /\ RangeOf(v)[2] \in Int /\ v \in Nat
  BY RangeFacts
<1>4. CASE k = -1 \/ l = -1
  <2>1. ASSUME NEW v \in Virtual, RealChannel(v) = 0
        PROVE  RangeOf(v)[2] < P2POffset \/ P2POffset + P2PSize <= RangeOf(v)[1]
    BY <2>1, ChannelRanges
  <2>2. CASE k = -1
    <3>1. l \in Virtual /\ RealChannel(l) = 0
      BY <2>2 DEF Keys
    <3> QED
      BY <3>1, <2>1, <2>2, <1>1, <1>2, <1>3 DEF Apart
  <2>3. CASE l = -1
    <3>1. k \in Virtual /\ RealChannel(k) = 0
      BY <2>3 DEF Keys
    <3> QED
      BY <3>1, <2>1, <2>3, <1>1, <1>2, <1>3 DEF Apart
  <2> QED
    BY <1>4, <2>2, <2>3
<1>5. CASE k # -1 /\ l # -1
  <2>1. k \in Virtual /\ l \in Virtual /\ RealChannel(k) = RealChannel(l)
    BY <1>5 DEF Keys
  <2>2. \/ k < l /\ RangeOf(k)[2] < RangeOf(l)[1]
        \/ l < k /\ RangeOf(l)[2] < RangeOf(k)[1]
    BY <2>1, <1>3, ChannelRanges
  <2> QED
    BY <2>1, <2>2, <1>1, <1>2, <1>3 DEF Apart
<1> QED
  BY <1>4, <1>5

(* A buffer's channel and the heap it lies in.                               *)
LEMMA KeyOfFits ==
  ASSUME NEW q, NEW b, Fits(q, b)
  PROVE  /\ KeyOf(b) \in Keys
         /\ RealChannel(b.chan) = (IF KeyOf(b) = -1 THEN 0 ELSE RealChannel(KeyOf(b)))
         /\ b.p2p <=> KeyOf(b) = -1
         /\ b.chan \in Virtual
<1>1. b.chan \in Virtual /\ b.chan # -1
  BY RangeFacts DEF Fits
<1>2. CASE b.p2p
  <2>1. b.chan = 0
    BY <1>2 DEF Fits
  <2>2. RealChannel(0) = 0
    BY DEF RealChannel
  <2> QED
    BY <1>1, <1>2, <2>1, <2>2 DEF KeyOf, Keys
<1>3. CASE ~b.p2p
  BY <1>1, <1>3 DEF KeyOf, Keys
<1> QED
  BY <1>2, <1>3

(* Finish leaves every buffer of the pass in a region it may be in,          *)
LEMMA FinishInRegion ==
  ASSUME Inner, Finish, NEW q \in ThisPass
  PROVE  \A i \in DOMAIN place'[q] : InItsRegion(q, place[q][i])'
<1> SUFFICES ASSUME NEW i \in DOMAIN place[q]
             PROVE  InItsRegion(q, place[q][i])'
  BY FinalPlace
<1> DEFINE b == place[q][i]
           c == place'[q][i]
<1>1. /\ c.chan = RealChannel(b.chan) /\ c.addr = b.addr
      /\ c.size = b.size /\ c.p2p = b.p2p
  BY FinalPlace
<1>2. /\ Fits(q, b) /\ b.addr \in Int /\ b.size \in Nat \ {0}
      /\ Ranges[KeyOf(b)][1] <= b.addr
      /\ b.addr + b.size <= Ranges[KeyOf(b)][2] + 1
  BY FinalBuffers
<1>3. (TriesP2P(q)' <=> TriesP2P(q)) /\ (InP2PHard(q)' <=> InP2PHard(q))
  BY DEF Finish, TriesP2P, InP2PHard, InP2PSoft, Wormhole
<1>4. /\ KeyOf(b) \in Keys
      /\ RealChannel(b.chan) = (IF KeyOf(b) = -1 THEN 0 ELSE RealChannel(KeyOf(b)))
      /\ b.p2p <=> KeyOf(b) = -1
      /\ b.chan \in Virtual
  BY <1>2, KeyOfFits
<1>5. /\ P2POffset \in Nat /\ P2PSize \in Nat /\ Offset \in Nat /\ ChannelSize \in Nat
      /\ Ranges[-1] = <<P2POffset, P2POffset + P2PSize - 1>>
      /\ \A v \in Virtual : Ranges[v] = RangeOf(v)
  BY ConfigAssumption, RangeFacts DEF Keys, Ranges
<1>6. (b.p2p => TriesP2P(q)) /\ (InP2PHard(q) => b.p2p)
  BY <1>2 DEF Fits
<1> HIDE DEF b, c
<1>7. CASE b.p2p
  <2>1. c.p2p /\ c.chan = 0
    BY <1>1, <1>4, <1>7
  <2>2. P2POffset <= c.addr /\ c.addr + c.size <= P2POffset + P2PSize
    BY <1>1, <1>2, <1>4, <1>5, <1>7
  <2> QED
    BY <2>1, <2>2, <1>3, <1>6, <1>7 DEF InItsRegion, c
<1>8. CASE ~b.p2p
  <2>1. KeyOf(b) \in Virtual /\ RealChannel(b.chan) = RealChannel(KeyOf(b))
    BY <1>4, <1>8 DEF Keys
  <2>2. /\ Offset <= RangeOf(KeyOf(b))[1] /\ RangeOf(KeyOf(b))[2] + 1 <= ChannelSize
        /\ RangeOf(KeyOf(b))[1] \in Nat /\ RangeOf(KeyOf(b))[2] \in Int
        /\ RealChannel(KeyOf(b)) = 0 => \/ RangeOf(KeyOf(b))[2] < P2POffset
                                        \/ P2POffset + P2PSize <= RangeOf(KeyOf(b))[1]
    BY <2>1, ChannelRanges
  <2>3. Offset <= c.addr /\ c.addr + c.size <= ChannelSize
    BY <2>1, <2>2, <1>1, <1>2, <1>5
  <2>4. c.chan = 0 => c.addr + c.size <= P2POffset \/ P2POffset + P2PSize <= c.addr
    BY <2>1, <2>2, <1>1, <1>2, <1>5
  <2>5. c.chan = 0 => Apart(BlockOf(c), Block(P2POffset, P2PSize))
    BY <2>4 DEF Apart, BlockOf, Block, EndOf
  <2>6. ~c.p2p
    BY <1>1, <1>8
  <2> QED
    BY <2>3, <2>5, <2>6, <1>3, <1>6, <1>8 DEF InItsRegion, c
<1> QED
  BY <1>7, <1>8

(* and no two of them in use in one epoch in the same cells.                 *)
LEMMA FinishSeparate ==
  ASSUME Inner, Finish, NEW q \in ThisPass, NEW r \in ThisPass
  PROVE  ~Clash(q, r)'
<1> SUFFICES ASSUME Lifetime(q)' \cap Lifetime(r)' # {},
                    NEW i \in DOMAIN place'[q], NEW j \in DOMAIN place'[r],
                    <<q, i>> # <<r, j>>,
                    place'[q][i].chan = place'[r][j].chan
             PROVE  Apart(BlockOf(place'[q][i]), BlockOf(place'[r][j]))
  BY DEF Clash
<1> DEFINE b == place[q][i]
           c == place[r][j]
<1>1. i \in DOMAIN place[q] /\ j \in DOMAIN place[r]
  BY FinalPlace
<1>2. /\ place'[q][i].addr = b.addr /\ place'[q][i].size = b.size
      /\ place'[r][j].addr = c.addr /\ place'[r][j].size = c.size
      /\ RealChannel(b.chan) = RealChannel(c.chan)
  BY <1>1, FinalPlace
<1>3. /\ Fits(q, b) /\ b.addr \in Int /\ b.size \in Nat \ {0}
      /\ <<q, i>> \in Owners(Buffers) /\ At(Buffers, <<q, i>>) = b
      /\ Ranges[KeyOf(b)][1] <= b.addr
      /\ b.addr + b.size <= Ranges[KeyOf(b)][2] + 1
      /\ Lifetime(q)' = Epochs[q]
  BY <1>1, FinalBuffers, FinalPlace
<1>4. /\ Fits(r, c) /\ c.addr \in Int /\ c.size \in Nat \ {0}
      /\ <<r, j>> \in Owners(Buffers) /\ At(Buffers, <<r, j>>) = c
      /\ Ranges[KeyOf(c)][1] <= c.addr
      /\ c.addr + c.size <= Ranges[KeyOf(c)][2] + 1
      /\ Lifetime(r)' = Epochs[r]
  BY <1>1, FinalBuffers, FinalPlace
<1>5. /\ BlockOf(place'[q][i]) = BlockOf(b) /\ BlockOf(place'[r][j]) = BlockOf(c)
  BY <1>2 DEF BlockOf
<1> HIDE DEF b, c
<1>6. CASE KeyOf(b) = KeyOf(c)
  <2>1. Separate(Buffers, Epochs)
    BY DEF Inner, Finish, EpochAllocated, MemoryInv
  <2>2. Epochs[q] \cap Epochs[r] # {}
    BY <1>3, <1>4
  <2>3. <<q, i>>[1] = q /\ <<r, j>>[1] = r
    OBVIOUS
  <2>4. Apart(BlockOf(At(Buffers, <<q, i>>)), BlockOf(At(Buffers, <<r, j>>)))
    BY <2>1, <2>2, <2>3, <1>3, <1>4, <1>6 DEF Separate
  <2> QED
    BY <2>4, <1>3, <1>4, <1>5
<1>7. CASE KeyOf(b) # KeyOf(c)
  <2>1. /\ KeyOf(b) \in Keys /\ KeyOf(c) \in Keys
        /\ RealChannel(b.chan) = (IF KeyOf(b) = -1 THEN 0 ELSE RealChannel(KeyOf(b)))
        /\ RealChannel(c.chan) = (IF KeyOf(c) = -1 THEN 0 ELSE RealChannel(KeyOf(c)))
    BY <1>3, <1>4, KeyOfFits
  <2>2. Apart(BlockOf(b), BlockOf(c))
    BY <2>1, <1>2, <1>3, <1>4, <1>7, HeapsApart
  <2> QED
    BY <2>2, <1>5
<1> QED
  BY <1>6, <1>7

(* An attempt that has placed every queue is final.                          *)
LEMMA FinishKeeps == ASSUME Inner, Finish PROVE Inner'
<1>1. /\ BasicInv /\ IdleInv /\ SettledInv /\ HeapsOk(Heaps, Ranges) /\ HeldInv
      /\ pc = "place" /\ pc' = "done" /\ cur = Nothing /\ Ending = {} /\ epoch = Forever
      /\ UNCHANGED <<shape, option, pass, static, todo, cur, epoch, chan, p2p,
                     picker, held, span>>
      /\ DOMAIN place' = Queues
      /\ \A q \in Queues \ ThisPass : place'[q] = place[q]
  BY DEF Inner, Finish, EpochAllocated
<1>2. Keys' = Keys /\ Ranges' = Ranges /\ Virtual' = Virtual
  BY <1>1, SettingsFacts
<1>3. Heaps' = Heaps
  BY <1>1, <1>2 DEF Heaps
<1>4. BasicInv' /\ SpanInv'
  BY <1>1, <1>2 DEF BasicInv, QueueParameters, SpanInv
<1>5. held = {}
  <2> SUFFICES ASSUME NEW y \in held PROVE FALSE
    OBVIOUS
  <2>1. y[1] \in Queues /\ LastConsumerEpoch(y[1]) >= Forever
    BY <1>1 DEF HeldInv
  <2>2. LastConsumerEpoch(y[1]) = Forever
    BY <2>1, <1>1, ShapeFacts, ConfigAssumption
  <2> QED
    BY <2>2, <1>1 DEF Ending
<1>6. IdleInv'
  <2>1. \A r \in Queues : shape[r].pass > pass => r \notin ThisPass
    BY <1>1 DEF ThisPass, BasicInv
  <2> QED
    BY <2>1, <1>1, <1>5 DEF IdleInv
<1>7. SettledInv'
  <2>1. \A r \in Queues : shape[r].pass < pass =>
          place'[r] = place[r] /\ span'[r] = span[r]
    <3>1. \A r \in ThisPass : shape[r].pass = pass /\ pass \in {1, 2}
      BY <1>1 DEF ThisPass, BasicInv
    <3> QED
      BY <3>1, <1>1
  <2> SUFFICES ASSUME NEW q \in Queues, Settled(q)'
               PROVE  /\ \A i \in DOMAIN place'[q] : InItsRegion(q, place[q][i])'
                      /\ \A r \in Queues : shape[r].pass = shape[q].pass => ~Clash(q, r)'
    BY <1>1 DEF SettledInv
  <2>2. CASE shape[q].pass < pass
    BY <2>1, <2>2, <1>1, SettledKept
  <2>3. CASE shape[q].pass = pass
    <3>1. \A r \in Queues : shape[r].pass = shape[q].pass => r \in ThisPass
      BY <2>3 DEF ThisPass
    <3> QED
      BY <3>1, FinishInRegion, FinishSeparate
  <2> QED
    BY <2>2, <2>3, <1>1 DEF Settled
<1> QED
  BY <1>1, <1>2, <1>3, <1>4, <1>6, <1>7 DEF Inner

(* The second call begins with the queues that were left out of the first.   *)
LEMMA SecondCall ==
  ASSUME Inner, pc = "done", pass = 1, pass' = 2, pc' = "schedule",
         UNCHANGED <<shape, option, static, todo, cur, epoch, place, held, span>>,
         DOMAIN chan' = Virtual, HeapsOk(Heaps', Ranges)
  PROVE  Inner'
<1>1. BasicInv /\ IdleInv /\ SettledInv
  BY DEF Inner
<1>2. /\ Virtual' = Virtual /\ Keys' = Keys /\ Ranges' = Ranges
  <2>1. Wormhole' <=> Wormhole
    BY DEF Wormhole
  <2>2. Virtual' = Virtual
    BY <2>1 DEF Virtual, NumChannels
  <2>3. \A v : RangeOf(v)' = RangeOf(v)
    BY <2>1 DEF RangeOf
  <2> QED
    BY <2>2, <2>3 DEF Keys, Ranges
<1>3. BasicInv'
  BY <1>1, <1>2 DEF BasicInv, QueueParameters
<1>4. \A q \in Queues : shape[q].pass \in {1, 2}
  BY <1>1, ShapeFacts
<1>5. \A q \in ThisPass' : place[q] = <<>> /\ span[q] = <<-1, -1>>
  BY <1>1 DEF ThisPass, IdleInv
<1>6. IdleInv'
  BY <1>1, <1>4, <1>5 DEF IdleInv
<1>7. SpanInv'
  BY <1>5 DEF SpanInv, SpanOf
<1>8. SettledInv'
  <2>1. \A q \in Queues : Settled(q)' => Settled(q)
    BY <1>4 DEF Settled
  <2>2. \A q : Lifetime(q)' = Lifetime(q)
    BY DEF Lifetime
  <2>3. \A q, r : Clash(q, r)' <=> Clash(q, r)
    BY <2>2 DEF Clash
  <2>4. \A q : (TriesP2P(q)' <=> TriesP2P(q)) /\ (InP2PHard(q)' <=> InP2PHard(q))
    BY DEF TriesP2P, InP2PHard, InP2PSoft, Wormhole
  <2>5. \A q \in Queues : \A i \in DOMAIN place[q] :
          InItsRegion(q, place[q][i])' <=> InItsRegion(q, place[q][i])
    BY <2>4 DEF InItsRegion
  <2> QED
    BY <2>1, <2>3, <2>5, <1>1 DEF SettledInv
<1> QED
  BY <1>2, <1>3, <1>6, <1>7, <1>8 DEF Inner

(* The second call, with the allocators of the first.                        *)
LEMMA AgainWithSameKeeps == ASSUME Inner, AgainWithSame PROVE Inner'
<1>1. /\ pc = "done" /\ pass = 1 /\ pass' = 2 /\ pc' = "schedule"
      /\ UNCHANGED <<shape, option, static, todo, cur, epoch, chan, p2p, picker,
                     place, held, span>>
  BY DEF AgainWithSame
<1>2. DOMAIN chan' = Virtual
  BY <1>1 DEF Inner, BasicInv
<1>3. Keys' = Keys
  BY <1>1 DEF Keys, Virtual, NumChannels, Wormhole
<1>4. Heaps' = Heaps
  BY <1>1, <1>3 DEF Heaps
<1>5. HeapsOk(Heaps', Ranges)
  BY <1>4 DEF Inner
<1> QED
  BY <1>1, <1>2, <1>5, SecondCall

(* The heaps a constructor builds from those it is handed.                   *)
LEMMA BuildsHeaps ==
  ASSUME NEW handed, NEW h, NEW H,
         \A v \in Virtual : HeapOk(handed[HandedTo(v)], RangeOf(v)[1], RangeOf(v)[2]),
         HeapOk(h, P2POffset, P2POffset + P2PSize - 1),
         H = [k \in Keys |-> IF k = -1 THEN BuildP2P(h) ELSE BuildChannels(handed)[k]]
  PROVE  /\ HeapsOk(H, Ranges)
         /\ (\A v \in Virtual : handed[HandedTo(v)] = NoBlocks) /\ h = NoBlocks
              => \A k \in Keys : H[k].used = {}
<1>1. /\ P2POffset \in Nat /\ P2POffset + P2PSize - 1 \in Int
      /\ Ranges[-1] = <<P2POffset, P2POffset + P2PSize - 1>>
      /\ \A v \in Virtual : Ranges[v] = RangeOf(v) /\ v # -1
      /\ DOMAIN Ranges = Keys
  BY ConfigAssumption, RangeFacts DEF Keys, Ranges
<1>2. \A v \in Virtual : RangeOf(v)[1] \in Nat /\ RangeOf(v)[2] \in Int
  BY RangeFacts
<1>3. /\ HeapOk(BuildP2P(h), P2POffset, P2POffset + P2PSize - 1)
      /\ h = NoBlocks => BuildP2P(h).used = {}
  BY <1>1, HeapConstruct DEF BuildP2P
<1>4. ASSUME NEW v \in Virtual
      PROVE  /\ HeapOk(BuildChannels(handed)[v], RangeOf(v)[1], RangeOf(v)[2])
             /\ handed[HandedTo(v)] = NoBlocks => BuildChannels(handed)[v].used = {}
  <2>1. BuildChannels(handed)[v] =
          Construct(RangeOf(v)[1], RangeOf(v)[2], handed[HandedTo(v)])
    BY DEF BuildChannels
  <2> QED
    BY <2>1, <1>2, HeapConstruct
<1>5. /\ H[-1] = BuildP2P(h) /\ DOMAIN H = Keys
      /\ \A v \in Virtual : H[v] = BuildChannels(handed)[v]
  BY <1>1 DEF Keys
<1>6. \A k \in Keys : k = -1 \/ k \in Virtual
  BY DEF Keys
<1> QED
  BY <1>1, <1>3, <1>4, <1>5, <1>6 DEF HeapsOk

(* The second call with rebuilt allocators: on grayskull each gets the       *)
(* blocks of its own channel.                                                *)
LEMMA AgainRebuiltKeeps == ASSUME Inner, ~Wormhole, AgainRebuilt PROVE Inner'
<1>1. /\ pc = "done" /\ pass = 1 /\ pass' = 2 /\ pc' = "schedule"
      /\ UNCHANGED <<shape, option, static, todo, cur, epoch, place, held, span>>
      /\ chan' = BuildChannels(chan) /\ p2p' = BuildP2P(p2p)
  BY DEF AgainRebuilt
<1>2. DOMAIN chan' = Virtual
  BY <1>1 DEF BuildChannels
<1>3. Keys' = Keys
  BY <1>1 DEF Keys, Virtual, NumChannels, Wormhole
<1>4. Heaps' = [k \in Keys |-> IF k = -1 THEN BuildP2P(p2p) ELSE BuildChannels(chan)[k]]
  BY <1>1, <1>3 DEF Heaps
<1>5. \A v \in Virtual : HeapOk(chan[HandedTo(v)], RangeOf(v)[1], RangeOf(v)[2])
  <2>1. \A v \in Virtual : /\ v \in Keys /\ Heaps[v] = chan[v] /\ Ranges[v] = RangeOf(v)
                           /\ HandedTo(v) = v
    BY RangeFacts DEF Keys, Heaps, Ranges, HandedTo
  <2>2. \A k \in Keys : HeapOk(Heaps[k], Ranges[k][1], Ranges[k][2])
    BY DEF Inner, HeapsOk, Heaps
  <2> QED
    BY <2>1, <2>2
<1>6. HeapOk(p2p, P2POffset, P2POffset + P2PSize - 1)
  <2>1. -1 \in Keys /\ Heaps[-1] = p2p
        /\ Ranges[-1][1] = P2POffset /\ Ranges[-1][2] = P2POffset + P2PSize - 1
    BY DEF Keys, Heaps, Ranges
  <2>2. \A k \in Keys : HeapOk(Heaps[k], Ranges[k][1], Ranges[k][2])
    BY DEF Inner, HeapsOk, Heaps
  <2> QED
    BY <2>1, <2>2
<1>7. HeapsOk(Heaps', Ranges)
  BY <1>4, <1>5, <1>6, BuildsHeaps
<1> QED
  BY <1>1, <1>2, <1>7, SecondCall

(* The constructor builds empty heaps.                                       *)
LEMMA InitInner == Init => Inner
<1> SUFFICES ASSUME Init PROVE Inner
  OBVIOUS
<1>1. /\ shape \in QueueParameters /\ option \in Options
      /\ pass = 1 /\ pc = "schedule"
      /\ cur = Nothing /\ epoch = 0 /\ held = {}
      /\ chan = BuildChannels(EmptyHeaps) /\ p2p = BuildP2P(NoBlocks)
      /\ place = [q \in Queues |-> <<>>]
      /\ span = [q \in Queues |-> <<-1, -1>>]
  BY DEF Init
<1>2. BasicInv
  BY <1>1, ConfigAssumption DEF BasicInv, BuildChannels
<1>3. \A v \in Virtual : EmptyHeaps[HandedTo(v)] = NoBlocks
  <2>1. \A v \in Virtual : HandedTo(v) \in Virtual
    BY RangeFacts DEF HandedTo
  <2> QED
    BY <2>1 DEF EmptyHeaps
<1>4. Heaps = [k \in Keys |-> IF k = -1 THEN BuildP2P(NoBlocks)
                              ELSE BuildChannels(EmptyHeaps)[k]]
  BY <1>1 DEF Heaps
<1>5. HeapsOk(Heaps, Ranges) /\ \A k \in Keys : Heaps[k].used = {}
  <2>1. \A v \in Virtual :
          HeapOk(EmptyHeaps[HandedTo(v)], RangeOf(v)[1], RangeOf(v)[2])
    BY <1>3 DEF HeapOk
  <2>2. HeapOk(NoBlocks, P2POffset, P2POffset + P2PSize - 1)
    BY DEF HeapOk
  <2> QED
    BY <2>1, <2>2, <1>3, <1>4, BuildsHeaps
<1>6. \A q \in Queues : place[q] = <<>> /\ span[q] = <<-1, -1>>
  BY <1>1
<1>7. IdleInv /\ SpanInv
  BY <1>1, <1>5, <1>6 DEF IdleInv, SpanInv, SpanOf, ThisPass
<1>8. SettledInv
  BY <1>6 DEF SettledInv, Clash
<1> QED
  BY <1>1, <1>2, <1>5, <1>7, <1>8 DEF Inner

(* A step that changes nothing.                                              *)
LEMMA StutterKeeps == ASSUME Inner, UNCHANGED dramVars PROVE Inner'
<1>1. /\ UNCHANGED <<shape, option, pass, pc, static, todo, cur, epoch, chan, p2p,
                     picker, place, held, span>>
  BY DEF dramVars
<1>2. /\ Keys' = Keys /\ Ranges' = Ranges /\ Epochs' = Epochs /\ Virtual' = Virtual
      /\ ThisPass' = ThisPass
      /\ \A q : /\ is_static_queue(q)' <=> is_static_queue(q)
                /\ ProducerEpoch(q)' = ProducerEpoch(q)
                /\ LastConsumerEpoch(q)' = LastConsumerEpoch(q)
  BY <1>1, FrameFacts
<1>3. /\ \A q : BuffersOf(q)' = BuffersOf(q)
      /\ Buffers' = Buffers
      /\ \A q : InProgress(q)' <=> InProgress(q)
  BY <1>1, BuffersStay
<1>4. Live' = Live /\ Heaps' = Heaps
  BY <1>1, <1>2, <1>3 DEF Live, Heaps
<1>5. /\ StaticTodo' = StaticTodo /\ Beginning' = Beginning /\ Unplaced' = Unplaced
      /\ (EpochAllocated' <=> EpochAllocated)
  BY <1>1, <1>2 DEF StaticTodo, Beginning, Unplaced, EpochAllocated
<1>6. BasicInv' <=> BasicInv
  BY <1>1, <1>2 DEF BasicInv, QueueParameters
<1>7. IdleInv' <=> IdleInv
  BY <1>1, <1>2, <1>4 DEF IdleInv
<1>8. SpanInv' <=> SpanInv
  <2>1. \A q : SpanOf(q)' <=> SpanOf(q)
    BY <1>1, <1>2 DEF SpanOf, AsInt
  <2> QED
    BY <2>1, <1>1, <1>2 DEF SpanInv
<1>9. SettledInv' <=> SettledInv
  <2>1. \A q : Lifetime(q)' = Lifetime(q)
    BY <1>1 DEF Lifetime
  <2>2. \A q, r : Clash(q, r)' <=> Clash(q, r)
    BY <1>1, <2>1 DEF Clash
  <2>3. \A q : (TriesP2P(q)' <=> TriesP2P(q)) /\ (InP2PHard(q)' <=> InP2PHard(q))
    BY <1>1 DEF TriesP2P, InP2PHard, InP2PSoft, Wormhole
  <2>4. \A q \in Queues : \A i \in DOMAIN place[q] :
          InItsRegion(q, place[q][i])' <=> InItsRegion(q, place[q][i])
    BY <2>3, <1>1 DEF InItsRegion
  <2>5. \A q : Settled(q)' <=> Settled(q)
    BY <1>1 DEF Settled
  <2> QED
    BY <2>2, <2>4, <2>5, <1>1 DEF SettledInv
<1>10. TurnInv' <=> TurnInv
  BY <1>1, <1>2, <1>3, <1>5 DEF TurnInv
<1>11. HeldInv' <=> HeldInv
  BY <1>1, <1>2, <1>3, <1>4, <1>5 DEF HeldInv
<1>12. MemoryInv' <=> MemoryInv
  <2>1. \A x \in Owners(Buffers) : Fits(x[1], At(Buffers, x))' <=> Fits(x[1], At(Buffers, x))
    BY <1>1, <1>2, <1>3 DEF Fits, TriesP2P, InP2PSoft, InP2PHard, Wormhole
  <2> QED
    BY <2>1, <1>1, <1>2, <1>3, <1>4 DEF MemoryInv
<1> QED
  BY <1>1, <1>2, <1>4, <1>6, <1>7, <1>8, <1>9, <1>10, <1>11, <1>12 DEF Inner

(* The settings never change, and the first pass comes first.                *)
LEMMA SettingsStay ==
  ASSUME [Next]_dramVars
  PROVE  UNCHANGED option /\ (UNCHANGED pass \/ pass = 1)
BY DEF Next, dramVars, Schedule, PlaceInP2P, PlaceInChannel, StaticFails, DynamicFails,
       ClearChannel, ClearP2P, Fallback, FreeBuffer, NextEpoch, Finish, AgainWithSame,
       AgainRebuilt

(* Every step keeps the invariant as long as each heap has a range of its    *)
(* own.                                                                      *)
LEMMA NextInner ==
  ASSUME Inner, [Next]_dramVars, OwnRanges'
  PROVE  Inner'
<1>1. CASE Schedule
  BY <1>1, ScheduleKeeps
<1>2. ASSUME NEW q \in todo, PlaceInP2P(q) PROVE Inner'
  BY <1>2, PlaceInP2PKeeps
<1>3. ASSUME NEW q \in todo, NEW from \in Virtual, NEW v \in Virtual,
             PlaceInChannel(q, from, v)
      PROVE  Inner'
  BY <1>3, PlaceInChannelKeeps
<1>4. ASSUME NEW q \in todo, StaticFails(q) PROVE Inner'
  BY <1>4, StaticFailsKeeps
<1>5. ASSUME NEW q \in todo, DynamicFails(q) PROVE Inner'
  BY <1>5, DynamicFailsKeeps
<1>6. ASSUME NEW v \in Virtual, NEW b \in chan[v].used, ClearChannel(v, b) PROVE Inner'
  BY <1>6, ClearChannelKeeps
<1>7. ASSUME NEW b \in p2p.used, ClearP2P(b) PROVE Inner'
  BY <1>7, ClearP2PKeeps
<1>8. CASE Fallback
  BY <1>8, FallbackKeeps
<1>9. ASSUME NEW h \in Ending, FreeBuffer(h[1], h[2]) PROVE Inner'
  BY <1>9, FreeBufferKeeps
<1>10. CASE NextEpoch
  BY <1>10, NextEpochKeeps
<1>11. CASE Finish
  BY <1>11, FinishKeeps
<1>12. CASE AgainWithSame
  BY <1>12, AgainWithSameKeeps
<1>13. CASE AgainRebuilt
  <2>1. ~Wormhole
    BY <1>13 DEF AgainRebuilt, OwnRanges, Wormhole
  <2> QED
    BY <2>1, <1>13, AgainRebuiltKeeps
<1>14. CASE UNCHANGED dramVars
  BY <1>14, StutterKeeps
<1> QED
  BY <1>1, <1>2, <1>3, <1>4, <1>5, <1>6, <1>7, <1>8, <1>9, <1>10, <1>11, <1>12, <1>13,
     <1>14 DEF Next

(* The buffers that hold memory are those the queues own.                    *)
LEMMA OwnedAreLive ==
  ASSUME Inner, pc = "place"
  PROVE  Owned = {At(Buffers, x) : x \in Live}
<1>1. TurnInv /\ HeldInv /\ MemoryInv /\ BasicInv
  BY DEF Inner
<1>2. \A q \in ThisPass : ~InProgress(q) => Buffers[q] = place[q]
  BY DEF Buffers, BuffersOf, ThisPass
<1>3. \A q \in ThisPass : InProgress(q) =>
        Buffers[q] = cur.buffers /\ place[q] = <<>>
  BY <1>1 DEF Buffers, BuffersOf, ThisPass, InProgress, TurnInv, Unplaced
<1>4. \A q \in Queues : q \notin ThisPass => Buffers[q] = <<>>
  BY DEF Buffers, BuffersOf
<1>5. \A q \in Queues : DOMAIN Buffers[q] \subseteq Nat
  <2>1. \A q \in Queues : Buffers[q] \in Seq(BufferSet)
    BY <1>1 DEF MemoryInv, Buffers
  <2> QED
    BY <2>1
<1>6. ASSUME NEW c \in Owned
      PROVE  \E x \in Live : c = At(Buffers, x)
  <2>1. CASE \E i \in DOMAIN cur.buffers : c = cur.buffers[i]
    <3>1. PICK i \in DOMAIN cur.buffers : c = cur.buffers[i]
      BY <2>1
    <3>2. cur # Nothing
      BY DEF Nothing
    <3>3. InProgress(cur.queue) /\ cur.queue \in ThisPass /\ cur.queue \in Queues
      BY <3>2, <1>1 DEF InProgress, TurnInv, Unplaced, ThisPass
    <3>4. Buffers[cur.queue] = cur.buffers
      BY <3>3, <1>3
    <3>5. <<cur.queue, i>> \in Live /\ At(Buffers, <<cur.queue, i>>) = c
      BY <3>1, <3>3, <3>4, <1>5 DEF Live, Owners, At
    <3> QED
      BY <3>5
  <2>2. CASE \E h \in held : c = place[h[1]][h[2]]
    <3>1. PICK h \in held : c = place[h[1]][h[2]]
      BY <2>2
    <3>2. h \in Queues \X Nat /\ h[1] \in ThisPass /\ h[2] \in DOMAIN place[h[1]]
      BY <1>1 DEF HeldInv
    <3>3. Buffers[h[1]] = place[h[1]]
      BY <3>2, <1>2, <1>3
    <3> QED
      BY <3>1, <3>2, <3>3 DEF Live, Owners, At
  <2>3. CASE \E q \in ThisPass : is_static_queue(q) /\ \E i \in DOMAIN place[q] : c = place[q][i]
    <3>1. PICK q \in ThisPass : /\ is_static_queue(q)
                                /\ \E i \in DOMAIN place[q] : c = place[q][i]
      BY <2>3
    <3>2. PICK i \in DOMAIN place[q] : c = place[q][i]
      BY <3>1
    <3>3. Buffers[q] = place[q] /\ q \in Queues
      BY <3>1, <3>2, <1>2, <1>3 DEF ThisPass
    <3>4. <<q, i>> \in Live /\ At(Buffers, <<q, i>>) = c
      BY <3>1, <3>2, <3>3, <1>5 DEF Live, Owners, At
    <3> QED
      BY <3>4
  <2> QED
    BY <2>1, <2>2, <2>3 DEF Owned
<1>7. ASSUME NEW x \in Live PROVE At(Buffers, x) \in Owned
  <2>1. x[1] \in Queues /\ x[2] \in DOMAIN Buffers[x[1]] /\ x = <<x[1], x[2]>>
    BY DEF Live, Owners
  <2>2. x[1] \in ThisPass
    BY <2>1, <1>4
  <2>3. CASE InProgress(x[1])
    <3>1. Buffers[x[1]] = cur.buffers
      BY <2>2, <2>3, <1>3
    <3> QED
      BY <2>1, <3>1 DEF Owned, At
  <2>4. CASE ~InProgress(x[1]) /\ x \in held
    <3>1. At(Buffers, x) = place[x[1]][x[2]]
      BY <2>2, <2>4, <1>2 DEF At
    <3> QED
      BY <2>4, <3>1 DEF Owned
  <2>5. CASE ~InProgress(x[1]) /\ is_static_queue(x[1])
    <3>1. Buffers[x[1]] = place[x[1]]
      BY <2>2, <2>5, <1>2
    <3> QED
      BY <2>1, <2>2, <2>5, <3>1 DEF Owned, At
  <2> QED
    BY <2>3, <2>4, <2>5 DEF Live
<1> QED
  BY <1>6, <1>7

(* The inductive invariant holds in every reachable state.                   *)
THEOREM Invariant == Spec => []IInv
<1>1. Init => IInv
  BY InitInner DEF IInv
<1>2. IInv /\ [Next]_dramVars => IInv'
  <2> SUFFICES ASSUME IInv, [Next]_dramVars, OwnRanges' PROVE Inner'
    BY DEF IInv
  <2>1. OwnRanges
    BY SettingsStay DEF OwnRanges, Wormhole
  <2> QED
    BY <2>1, NextInner DEF IInv
<1> QED
  BY <1>1, <1>2, PTL DEF Spec

(* In every reachable state of the first call the heaps hold exactly the     *)
(* blocks of the buffers the queues own: allocate_buffers and                *)
(* deallocate_buffers leak nothing and free nothing under its owner.         *)
THEOREM HeapsMatchQueues == Spec => []HeapsHoldWhatQueuesOwn
<1>1. IInv => HeapsHoldWhatQueuesOwn
  <2> SUFFICES ASSUME Inner, pc = "place", pass = 1
               PROVE  /\ \A v \in Virtual :
                           chan[v].used = {BlockOf(b) : b \in {c \in Owned : ~c.p2p /\ c.chan = v}}
                      /\ p2p.used = {BlockOf(b) : b \in {c \in Owned : c.p2p}}
    BY DEF IInv, OwnRanges, HeapsHoldWhatQueuesOwn
  <2>1. /\ Backed(Buffers, Live, Heaps) /\ Exact(Buffers, Live, Heaps)
        /\ \A x \in Owners(Buffers) : Fits(x[1], At(Buffers, x))
    BY DEF Inner, MemoryInv
  <2>2. \A c \in Owned : \E x \in Live : c = At(Buffers, x)
    BY OwnedAreLive
  <2>3. \A x \in Live : At(Buffers, x) \in Owned
    BY OwnedAreLive
  <2>4. \A c \in Owned : /\ BlockOf(c) \in Heaps[KeyOf(c)].used
                         /\ c.p2p <=> KeyOf(c) = -1
    <3>1. \A x \in Live : Fits(x[1], At(Buffers, x))
      BY <2>1 DEF Backed
    <3> QED
      BY <2>1, <2>2, <3>1, KeyOfFits DEF Backed
  <2>5. \A k \in Keys : \A u \in Heaps[k].used :
          \E c \in Owned : KeyOf(c) = k /\ BlockOf(c) = u
    <3>1. DOMAIN Heaps = Keys
      BY DEF Heaps
    <3> QED
      BY <3>1, <2>1, <2>3 DEF Exact
  <2>6. ASSUME NEW v \in Virtual
        PROVE  chan[v].used = {BlockOf(b) : b \in {c \in Owned : ~c.p2p /\ c.chan = v}}
    <3>1. v \in Keys /\ v # -1 /\ Heaps[v] = chan[v]
      BY RangeFacts DEF Keys, Heaps
    <3>2. \A c \in Owned : KeyOf(c) = v <=> ~c.p2p /\ c.chan = v
      BY <3>1 DEF KeyOf
    <3> QED
      BY <3>1, <3>2, <2>4, <2>5
  <2>7. p2p.used = {BlockOf(b) : b \in {c \in Owned : c.p2p}}
    <3>1. -1 \in Keys /\ Heaps[-1] = p2p
      BY DEF Keys, Heaps
    <3> QED
      BY <3>1, <2>4, <2>5
  <2> QED
    BY <2>6, <2>7
<1> QED
  BY <1>1, Invariant, PTL

(* A finished placement is right unless a second call on wormhole rebuilt    *)
(* the allocators: two buffers placed by one call and in use in a common     *)
(* epoch share no DRAM, in the real channels of the netlist, and each lies   *)
(* in a region its queue may use.                                            *)
THEOREM PlacementIsRight == Spec => [](OwnRanges => BuffersPlacedRight)
<1>1. Inner => BuffersPlacedRight
  <2> SUFFICES ASSUME Inner, pc = "done"
               PROVE  /\ \A q, r \in Queues : shape[q].pass = shape[r].pass => ~Clash(q, r)
                      /\ \A q \in Queues : \A i \in DOMAIN place[q] :
                           InItsRegion(q, place[q][i])
    BY DEF BuffersPlacedRight, LiveBuffersDisjoint, RegionsRespected
  <2>1. BasicInv /\ IdleInv /\ SettledInv
    BY DEF Inner
  <2>2. ASSUME NEW q \in Queues
        PROVE  Settled(q) \/ place[q] = <<>>
    <3>1. shape[q].pass \in {1, 2} /\ pass \in {1, 2}
      BY <2>1, ShapeFacts DEF BasicInv
    <3> QED
      BY <3>1, <2>1 DEF Settled, IdleInv
  <2>3. \A q \in Queues : place[q] = <<>> => \A r : ~Clash(q, r)
    BY DEF Clash
  <2> QED
    BY <2>1, <2>2, <2>3 DEF SettledInv
<1>2. IInv => (OwnRanges => BuffersPlacedRight)
  BY <1>1 DEF IInv
<1> QED
  BY <1>2, Invariant, PTL

(* So it is in every state of a device where no second call is made that     *)
(* way: on grayskull, and on wormhole with the allocators kept.              *)
THEOREM PlacementIsRightWithOwnRanges ==
  ASSUME \A o \in Options : ~(o.arch = "wormhole" /\ o.again = "rebuilt")
  PROVE  Spec => []BuffersPlacedRight
<1>1. BasicInv => OwnRanges
  BY DEF BasicInv, OwnRanges, Wormhole
<1>2. Init => Inner
  BY InitInner
<1>3. Inner /\ [Next]_dramVars => Inner'
  <2> SUFFICES ASSUME Inner, [Next]_dramVars PROVE Inner'
    OBVIOUS
  <2>1. option' = option /\ option \in Options
    BY SettingsStay DEF Inner, BasicInv
  <2>2. OwnRanges'
    BY <2>1 DEF OwnRanges, Wormhole
  <2> QED
    BY <2>2, NextInner
<1>4. Inner => OwnRanges
  BY <1>1 DEF Inner
<1> QED
  BY <1>2, <1>3, <1>4, PlacementIsRight, PTL DEF Spec

------------------------------------------------------------------------------
(* The host memory allocator.                                                *)
(* While the allocator is created anew in channel 0 only, what was handed    *)
(* out in the current channel lies below the current address, and no buffer  *)
(* is in a channel yet to be reached.                                        *)
LaidOut ==
  \A b \in placed :
    b.chan < channel \/ (b.chan = channel /\ b.addr + b.size <= address)

HostInv ==
  /\ Host!TypeOK
  /\ request.count > 0 => request.size > 0
  /\ Host!BuffersInChannel
  /\ Host!WritesAligned
  /\ RecreatedIn \subseteq {0} => LaidOut /\ Host!BuffersDisjoint

(* What alignment computes: the least suitable address is not below a.       *)
LEMMA AlignFacts ==
  ASSUME NEW a \in Nat
  PROVE  /\ Host!align_host_address(a) \in Nat
         /\ Host!align_host_address(a) >= a
         /\ (IF blackhole THEN Host!align_host_address(a)
             ELSE Host!align_host_address(a) + 32) % 64 = 0
<1>1. CASE blackhole
  BY <1>1 DEF Host!align_host_address, Host!AlignTo
<1>2. CASE ~blackhole
  BY <1>2 DEF Host!align_host_address, Host!AlignTo
<1> QED
  BY <1>1, <1>2

(* Nothing has been handed out at first.                                     *)
LEMMA HostInit == ASSUME Host!HostAssumption PROVE Host!Init => HostInv
<1> SUFFICES ASSUME Host!Init PROVE HostInv
  OBVIOUS
<1>1. Host!TypeOK
  <2>1. channel \in 0 .. LastChannel /\ address \in Nat /\ queues \in Nat
    BY DEF Host!HostAssumption, Host!Init
  <2>2. request \in [size : Nat, count : Nat]
    BY DEF Host!Init
  <2>3. blackhole \in BOOLEAN /\ fatal \in BOOLEAN /\ placed = {}
    BY Zenon DEF Host!Init
  <2> QED
    BY <2>1, <2>2, <2>3 DEF Host!TypeOK
<1>2. Host!BuffersInChannel /\ Host!WritesAligned /\ LaidOut /\ Host!BuffersDisjoint
  BY DEF Host!Init, Host!BuffersInChannel, Host!WritesAligned, LaidOut, Host!BuffersDisjoint
<1>3. request.count = 0
  BY DEF Host!Init
<1> QED
  BY <1>1, <1>2, <1>3 DEF HostInv

(* Each step keeps the layout.                                               *)
LEMMA HostNext == ASSUME Host!HostAssumption PROVE HostInv /\ [Host!Next]_(Host!vars) => HostInv'
<1> SUFFICES ASSUME HostInv, [Host!Next]_(Host!vars) PROVE HostInv'
  OBVIOUS
<1>1. ASSUME NEW n \in HostSizes, NEW k \in Grids, Host!PlaceQueue(n, k) PROVE HostInv'
  BY <1>1 DEF Host!HostAssumption, HostInv, Host!TypeOK, Host!PlaceQueue, Host!BuffersInChannel,
     Host!WritesAligned, LaidOut, Host!BuffersDisjoint
<1>2. CASE Host!allocate_memory
  <2> DEFINE new == Host!HostBuffer(channel, Host!Aligned, request.size)
  <2>1. /\ Host!Aligned \in Nat /\ Host!Aligned >= address
        /\ (IF blackhole THEN Host!Aligned ELSE Host!Aligned + 32) % 64 = 0
    BY AlignFacts DEF Host!Aligned, HostInv, Host!TypeOK
  <2>2. /\ request.size \in Nat \ {0} /\ request.count \in Nat \ {0}
        /\ request' = [request EXCEPT !.count = @ - 1]
        /\ channel' = channel /\ queues' = queues /\ fatal' = fatal
        /\ blackhole' = blackhole
        /\ placed' = placed \cup {new}
        /\ Host!Aligned + request.size <= HostChannelSize
    BY <1>2 DEF Host!allocate_memory, HostInv, Host!TypeOK, Host!Idle, Host!Fits
  <2>3. address' \in Nat /\ address' >= Host!Aligned + request.size
    BY <1>2, <2>1, <2>2, AlignFacts DEF Host!allocate_memory
  <2>4. /\ new.chan = channel /\ new.addr = Host!Aligned /\ new.size = request.size
        /\ new = Host!HostBuffer(new.chan, new.addr, new.size)
    BY DEF Host!HostBuffer
  <2> HIDE DEF new
  <2>5. Host!TypeOK'
    <3>1. request' \in [size : Nat, count : Nat]
      BY <2>2 DEF HostInv, Host!TypeOK
    <3> QED
      BY <3>1, <2>1, <2>2, <2>3, <2>4 DEF HostInv, Host!TypeOK
  <2>6. (request.count > 0 => request.size > 0)'
    BY <2>2 DEF HostInv, Host!TypeOK
  <2>7. Host!BuffersInChannel'
    BY <2>2, <2>4 DEF HostInv, Host!BuffersInChannel
  <2>8. Host!WritesAligned'
    BY <2>1, <2>2, <2>4 DEF HostInv, Host!WritesAligned
  <2>9. ASSUME RecreatedIn \subseteq {0} PROVE LaidOut' /\ Host!BuffersDisjoint'
    <3>1. \A b \in placed : b.addr \in Nat /\ b.size \in Nat /\ b.chan \in Int
      BY DEF HostInv, Host!TypeOK
    <3>2. \A b \in placed : b.chan = channel => b.addr + b.size <= Host!Aligned
      BY <3>1, <2>9, <2>1 DEF HostInv, LaidOut, Host!TypeOK
    <3>3. LaidOut'
      BY <3>1, <2>9, <2>1, <2>2, <2>3, <2>4 DEF HostInv, LaidOut, Host!TypeOK
    <3>4. Host!BuffersDisjoint'
      BY <3>1, <3>2, <2>9, <2>2, <2>4 DEF HostInv, Host!BuffersDisjoint
    <3> QED
      BY <3>3, <3>4
  <2> QED
    BY <2>5, <2>6, <2>7, <2>8, <2>9 DEF HostInv
<1>3. CASE Host!NextChannel
  BY <1>3 DEF Host!HostAssumption, HostInv, Host!TypeOK, Host!NextChannel, Host!BuffersInChannel,
     Host!WritesAligned, LaidOut, Host!BuffersDisjoint
<1>4. CASE Host!OutOfChannels
  BY <1>4 DEF HostInv, Host!TypeOK, Host!OutOfChannels, Host!BuffersInChannel,
     Host!WritesAligned, LaidOut, Host!BuffersDisjoint
<1>5. CASE Host!Recreate
  <2>1. Host!Aligned \in Nat /\ Host!Aligned >= address
    BY AlignFacts DEF Host!Aligned, HostInv, Host!TypeOK
  <2>2. (Host!TypeOK /\ Host!BuffersInChannel /\ Host!WritesAligned)'
    BY <2>1, <1>5 DEF Host!HostAssumption, HostInv, Host!TypeOK, Host!Recreate,
       Host!BuffersInChannel, Host!WritesAligned
  <2>3. ASSUME RecreatedIn \subseteq {0} PROVE LaidOut' /\ Host!BuffersDisjoint'
    BY <2>1, <2>3, <1>5 DEF HostInv, Host!TypeOK, Host!Recreate, LaidOut, Host!BuffersDisjoint
  <2> QED
    BY <2>2, <2>3, <1>5 DEF HostInv, Host!Recreate
<1>6. CASE UNCHANGED Host!vars
  BY <1>6 DEF Host!vars, HostInv, Host!TypeOK, Host!BuffersInChannel, Host!WritesAligned, LaidOut,
     Host!BuffersDisjoint
<1> QED
  BY <1>1, <1>2, <1>3, <1>4, <1>5, <1>6 DEF Host!Next

(* The allocator keeps its types, and every buffer it hands out is aligned   *)
(* for 64-byte writes and ends inside its channel, however often the         *)
(* allocator is created anew.                                                *)
THEOREM HostBuffersWellPlaced ==
  ASSUME Host!HostAssumption PROVE Host!Spec => [](Host!TypeOK /\ Host!BuffersInChannel /\ Host!WritesAligned)
<1>1. HostInv => Host!TypeOK /\ Host!BuffersInChannel /\ Host!WritesAligned
  BY DEF HostInv
<1> QED
  BY <1>1, HostInit, HostNext, PTL DEF Host!Spec

(* As long as the allocator is created anew only before it has left channel  *)
(* 0, no two host buffers overlap.                                           *)
THEOREM HostBuffersDisjoint ==
  ASSUME Host!HostAssumption, RecreatedIn \subseteq {0} PROVE Host!Spec => []Host!BuffersDisjoint
<1>1. HostInv => Host!BuffersDisjoint
  BY DEF HostInv
<1> QED
  BY <1>1, HostInit, HostNext, PTL DEF Host!Spec
==============================================================================
