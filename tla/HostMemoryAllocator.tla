------------------------ MODULE HostMemoryAllocator --------------------------
(* Host memory for queues the host reads or writes: class                    *)
(* HostMemoryAllocator (csrc/placer/host_memory_allocator.cpp) as            *)
(* place_host_queues (host_memory.cpp) drives it.  Buffers are laid end to   *)
(* end, each at an aligned address, through one channel after another;       *)
(* nothing is ever freed.                                                    *)
(*                                                                           *)
(* Addresses are bytes.  A queue size is a positive int and a channel has at *)
(* most 2^30 bytes, so the code's 32-bit sums do not wrap.                   *)
EXTENDS Integers, FiniteSets

CONSTANTS
  LastChannel,    \* channels are 0 .. LastChannel
  ChannelStart,   \* first address of a channel entered later
  ChannelSize,    \* bytes in a channel
  Sizes, Grids,   \* bytes per buffer and buffers per queue
  MaxQueues,      \* bound: queues placed
  RecreatedIn     \* channels in which the allocator may be created anew

\* What the theorems assume of the constants.
HostAssumption ==
  /\ LastChannel \in Nat /\ ChannelStart \in Nat /\ ChannelSize \in Nat
  /\ Sizes \subseteq Nat \ {0} /\ Grids \subseteq Nat \ {0}
  /\ MaxQueues \in Nat

VARIABLES
  blackhole,  \* 64-byte alignment instead of odd multiples of 32?
  channel,    \* current_allocation_channel
  address,    \* current_allocation_address
  request,    \* the buffer size asked for and the number still to place
  placed,     \* the host buffers handed out
  queues,     \* queues placed so far
  fatal       \* did a request run out of channels?

vars == <<blackhole, channel, address, request, placed, queues, fatal>>

AlignTo(a, n) == ((a + n - 1) \div n) * n

align_host_address(a) ==
  IF blackhole THEN AlignTo(a, 64)
  ELSE IF (AlignTo(a, 32) \div 32) % 2 = 0 THEN AlignTo(a, 32) + 32
                                           ELSE AlignTo(a, 32)

Aligned == align_host_address(address)

Idle == request.count = 0

HostBuffer(c, a, n) == [chan |-> c, addr |-> a, size |-> n]

Init ==
  /\ blackhole \in BOOLEAN
  /\ channel = 0 /\ address = 0
  /\ request = [size |-> 0, count |-> 0]
  /\ placed = {} /\ queues = 0 /\ fatal = FALSE

(* place_host_queues: the next queue of the graph.                           *)
PlaceQueue(n, k) ==
  /\ Idle /\ ~fatal /\ queues < MaxQueues
  /\ request' = [size |-> n, count |-> k]
  /\ queues' = queues + 1
  /\ UNCHANGED <<blackhole, channel, address, placed, fatal>>

Fits == Aligned + request.size <= ChannelSize

allocate_memory ==
  /\ ~Idle /\ ~fatal /\ Fits
  /\ placed' = placed \cup {HostBuffer(channel, Aligned, request.size)}
  /\ address' = align_host_address(Aligned + request.size)
  /\ request' = [request EXCEPT !.count = @ - 1]
  /\ UNCHANGED <<blackhole, channel, queues, fatal>>

NextChannel ==
  /\ ~Idle /\ ~fatal /\ ~Fits
  /\ channel < LastChannel
  /\ channel' = channel + 1
  /\ address' = ChannelStart
  /\ UNCHANGED <<blackhole, request, placed, queues, fatal>>

OutOfChannels ==
  /\ ~Idle /\ ~fatal /\ ~Fits
  /\ channel = LastChannel
  /\ fatal' = TRUE
  /\ UNCHANGED <<blackhole, channel, address, request, placed, queues>>

(* run_pre_netlist_generation_buda_passes goes on with a new allocator: it   *)
(* is given the address the old one had reached, and starts at channel 0.    *)
Recreate ==
  /\ channel \in RecreatedIn
  /\ Idle /\ ~fatal
  /\ channel' = 0
  /\ address' = Aligned
  /\ UNCHANGED <<blackhole, request, placed, queues, fatal>>

Next ==
  \/ \E n \in Sizes, k \in Grids : PlaceQueue(n, k)
  \/ allocate_memory
  \/ NextChannel
  \/ OutOfChannels
  \/ Recreate

Spec == Init /\ [][Next]_vars /\ WF_vars(allocate_memory \/ NextChannel \/ OutOfChannels)

------------------------------------------------------------------------------
(* Every variable stays in its range.                                        *)
TypeOK ==
  /\ blackhole \in BOOLEAN
  /\ channel \in 0 .. LastChannel /\ address \in Nat
  /\ request \in [size : Nat, count : Nat]
  /\ \A b \in placed : b = HostBuffer(b.chan, b.addr, b.size)
                       /\ b.chan \in 0 .. LastChannel
                       /\ b.addr \in Nat /\ b.size \in Nat \ {0}
  /\ queues \in Nat /\ fatal \in BOOLEAN

(* No two host buffers share a byte of a channel.                            *)
BuffersDisjoint ==
  \A b, c \in placed :
    b # c /\ b.chan = c.chan =>
      b.addr + b.size <= c.addr \/ c.addr + c.size <= b.addr

(* A buffer ends inside its channel, although alignment moves its start.     *)
BuffersInChannel == \A b \in placed : b.addr + b.size <= ChannelSize

(* Writes to the host are 64-byte aligned: the address itself on blackhole,  *)
(* and the address after the 32-byte tile header elsewhere.                  *)
WritesAligned ==
  \A b \in placed : (IF blackhole THEN b.addr ELSE b.addr + 32) % 64 = 0
==============================================================================
