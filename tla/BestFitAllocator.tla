-------------------------- MODULE BestFitAllocator ---------------------------
(* One channel allocator as its caller, DramAllocator, drives it: requests   *)
(* and releases in any order, and now and then a full reset, which releases  *)
(* the allocated blocks one by one in the unspecified order of an            *)
(* unordered_map (clear_allocated_blocks).                                   *)
EXTENDS BestFit, FiniteSets

CONSTANTS
  First, Last,   \* first and last usable address of the channel
  Sizes          \* the request sizes

ASSUME RangeAssumption == First \in Nat /\ Last \in Nat /\ First < Last
ASSUME SizesAssumption == Sizes \subseteq Nat \ {0}

VARIABLES
  blocks,     \* the heap
  clearing,   \* blocks clear_allocated_blocks has still to release
  reply       \* what the last call returned

allocatorVars == <<blocks, clearing, reply>>

AllocatorInit ==
  /\ blocks = Construct(First, Last, NoBlocks)
  /\ clearing = {}
  /\ reply = [is |-> "none"]

Allocate(n) ==
  /\ clearing = {}
  /\ Fitting(blocks, n) # {}
  /\ blocks' = AfterAllocate(blocks, n)
  /\ reply' = [is |-> "granted", addr |-> GrantedAddr(blocks, n), size |-> n]
  /\ UNCHANGED clearing

AllocateFails(n) ==
  /\ clearing = {}
  /\ Fitting(blocks, n) = {}
  /\ reply' = [is |-> "refused", size |-> n]
  /\ UNCHANGED <<blocks, clearing>>

Deallocate(b) ==
  /\ clearing = {}
  /\ blocks' = AfterDeallocate(blocks, b)
  /\ reply' = [is |-> "released", addr |-> b.addr]
  /\ UNCHANGED clearing

(* deallocate throws on an address that heads no allocated block.            *)
DeallocateThrows(a) ==
  /\ clearing = {}
  /\ \A b \in blocks.used : b.addr # a
  /\ reply' = [is |-> "thrown"]
  /\ UNCHANGED <<blocks, clearing>>

ClearStarts ==
  /\ clearing = {}
  /\ clearing' = blocks.used
  /\ UNCHANGED <<blocks, reply>>

ClearStep(b) ==
  /\ blocks' = AfterDeallocate(blocks, b)
  /\ clearing' = clearing \ {b}
  /\ reply' = [is |-> "released", addr |-> b.addr]

AllocatorNext ==
  \/ \E n \in Sizes : Allocate(n) \/ AllocateFails(n)
  \/ \E b \in blocks.used : Deallocate(b)
  \/ \E a \in First .. Last : DeallocateThrows(a)
  \/ ClearStarts
  \/ \E b \in clearing : ClearStep(b)

AllocatorSpec == AllocatorInit /\ [][AllocatorNext]_allocatorVars

------------------------------------------------------------------------------
(* The state is well formed: blocks are intervals of positive length inside  *)
(* the channel, and a clear only has allocated blocks left to release.       *)
TypeOK ==
  /\ DOMAIN blocks = {"start", "end", "used"}
  /\ InChannel(blocks, First, Last)
  /\ clearing \subseteq blocks.used

(* The index by first address and the index by end hold the same free        *)
(* blocks, so remove_free_block on one never strands an entry in the other.  *)
FreeIndexesAgree == IndexesAgree(blocks)

(* No cell is in two blocks: neither handed out twice by allocate nor both   *)
(* handed out and free.                                                      *)
NoCellTwice == Disjoint(blocks)

(* deallocate leaves no two free blocks side by side, in whatever order      *)
(* neighbours are released.                                                  *)
FreeCoalesced == Coalesced(blocks)

(* allocate and deallocate lose no memory: every cell of the channel is in a *)
(* free or an allocated block.                                               *)
NoCellLost == NothingLost(blocks, First, Last)

(* Once clear_allocated_blocks has released the last block, in whichever     *)
(* order the hash map gave them, the heap is the single block a new          *)
(* allocator starts with.                                                    *)
ClearRestores ==
  [][clearing # {} /\ clearing' = {} => blocks' = Fresh(First, Last)]_allocatorVars

(* The allocator implements the memory pool: what it grants nobody holds,    *)
(* and it refuses only a request that no free run of cells could serve, so   *)
(* its memory is never fragmented by its own bookkeeping.                    *)
Pool == INSTANCE MemoryPool WITH held <- blocks.used
PoolSpec == Pool!PoolSpec

==============================================================================
