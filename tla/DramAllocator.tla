--------------------------- MODULE DramAllocator -----------------------------
(* DRAM placement of one chip: place_dram_queues (csrc/placer/dram.cpp) over *)
(* class DramAllocator (csrc/placer/dram_allocator.cpp).                     *)
(*                                                                           *)
(* Every queue is cut into buffers, one per reading core, and every buffer   *)
(* gets a run of addresses in a channel.  On wormhole a channel is two       *)
(* virtual channels; channel 0 also holds the p2p region, with a heap of its *)
(* own.  A static queue keeps its buffers for good; a dynamic one is given   *)
(* its space from the epoch that produces it to the last that reads it, and  *)
(* the space is then reused.  The placer first tries to make all queues      *)
(* static, and if that fails starts over with dynamic ones.                  *)
(*                                                                           *)
(* The code is sequential: the choices of this model are the queues of the   *)
(* graph, the options, the ties std::sort and the hash maps break as they    *)
(* like, and the channel the closest-core heuristic prefers.                 *)
EXTENDS BestFit, Sequences, FiniteSets, FiniteSetsExt

CONSTANTS
  Channels,             \* number of channels
  Offset, ChannelSize,  \* first usable address and size of a channel
  P2POffset, P2PSize,   \* the p2p region of channel 0
  UInt32,               \* 2^32, scaled: the width of the size sums
  Queues,               \* the queues of the graph
  Graphs,               \* the graphs to consider: the parameters of each queue
  Options,              \* the settings to consider
  Forever               \* UINT_MAX, scaled: an epoch after the last one

(* The p2p region lies in channel 0: it ends at one gigabyte, as the config   *)
(* of the placer asserts, which is the size of a channel on grayskull and    *)
(* half of it on wormhole.  Sizes and epochs are unsigned.                   *)
ASSUME ConfigAssumption ==
  /\ Channels \in Nat \ {0}
  /\ {Offset, ChannelSize, P2POffset, P2PSize, Forever, UInt32} \subseteq Nat
  /\ P2POffset + P2PSize <= ChannelSize

ASSUME GraphsAssumption ==
  \A g \in Graphs : \A q \in Queues : LET s == g[q] IN
    /\ s.kind \in {"parameter", "activation", "output", "buffering",
                   "e2e", "cross", "remote"}
    /\ s.size \in Nat \ {0} /\ s.buffers \in Nat \ {0} /\ s.pass \in {1, 2}
    /\ s.first \in Nat /\ s.last \in Nat
    /\ s.first <= s.last /\ s.last <= Forever

VARIABLES
  shape,     \* the parameters of each queue
  option,    \* the settings
  pass,      \* 1, or 2 while queues added later are placed
  pc,        \* schedule, place, reset, done, thrown
  static,    \* is this attempt the all-static one?
  todo,      \* queues of this pass still to be allocated in this attempt
  cur,       \* the queue being allocated and its buffers so far
  epoch,     \* the epoch the dynamic queues have reached
  chan,      \* the heap of each virtual channel
  p2p,       \* the heap of the p2p region
  picker,    \* the state of the channel picker
  place,     \* dram_buffers of each queue
  held,      \* the buffers <<queue, index>> of dynamic queues still in use
  span       \* epoch_allocate and epoch_deallocate of each queue

dramVars == <<shape, option, pass, pc, static, todo, cur, epoch, chan, p2p,
              picker, place, held, span>>

------------------------------------------------------------------------------
(* The parameters of the queues, which place_dram_queues reads off the graph *)
(* and its placement; sizes are in units of the DRAM alignment.              *)
QueueParameters == {g \in Graphs : DOMAIN g = Queues}

Wormhole == option.arch = "wormhole"

(* Queues.  What a queue is decides how it may be placed: inputs, queues     *)
(* that cross epoch types or chips and gradient accumulators are static in   *)
(* any attempt; a short buffering queue is dynamic in any attempt; only an   *)
(* epoch-to-epoch queue ends before Forever.                                 *)
IsInput(q) == shape[q].kind \in {"parameter", "activation"}

InP2PSoft(q) == shape[q].kind = "activation" /\ shape[q].buffers = 1

InP2PHard(q) == shape[q].kind = "remote" /\ ~Wormhole

EpochToEpoch(q) == shape[q].kind \in {"e2e", "cross", "remote"}

ProducerEpoch(q) == IF EpochToEpoch(q) THEN shape[q].first ELSE 0

LastConsumerEpoch(q) == IF EpochToEpoch(q) THEN shape[q].last ELSE Forever

is_static_queue(q) ==
  \/ static /\ shape[q].kind # "buffering"
  \/ IsInput(q)
  \/ shape[q].kind \in {"cross", "remote"}

ThisPass == {q \in Queues : shape[q].pass = pass}

------------------------------------------------------------------------------
(* The constructor: the address range of each virtual channel.               *)
NumChannels == IF Wormhole THEN 2 * Channels ELSE Channels

Virtual == 0 .. (NumChannels - 1)

RealChannel(v) == IF Wormhole THEN v \div 2 ELSE v

MaxOf(a, b) == IF a < b THEN b ELSE a

RangeOf(v) ==
  CASE v = 0 -> <<Offset, P2POffset - 1>>
    [] v = 1 /\ Wormhole -> <<MaxOf(P2POffset + P2PSize, Offset), ChannelSize - 1>>
    [] v > 1 /\ Wormhole /\ v % 2 = 0 -> <<Offset, ChannelSize \div 2 - 1>>
    [] v > 1 /\ Wormhole /\ v % 2 = 1 -> <<MaxOf(Offset, ChannelSize \div 2), ChannelSize - 1>>
    [] v > 0 /\ ~Wormhole -> <<Offset, ChannelSize - 1>>

(* The second half of channel 0 is handed the blocks of the first.           *)
HandedTo(v) == IF v = 1 /\ Wormhole THEN 0 ELSE v

BuildChannels(handed) ==
  [v \in Virtual |-> Construct(RangeOf(v)[1], RangeOf(v)[2], handed[HandedTo(v)])]

BuildP2P(handed) == Construct(P2POffset, P2POffset + P2PSize - 1, handed)

EmptyHeaps == [v \in Virtual |-> NoBlocks]

get_capacity(h) == MapThenSumSet(LAMBDA b : b.size, h.start)

------------------------------------------------------------------------------
(* Channel pickers.  A picker's state is the next channel of each of its     *)
(* rotations; the flip-flop picker has three, over the lower half, the upper *)
(* half and all channels.  The closest-core picker is left open: any channel *)
(* may be the nearest.  That also covers a channel fixed by the user, which  *)
(* is used without asking the picker.                                        *)
FirstChannel == IF option.skip_ch0 THEN 1 ELSE 0

Rotations ==
  IF option.algorithm = "flip_flop"
  THEN << <<FirstChannel, NumChannels \div 2>>,
          <<NumChannels \div 2, NumChannels>>,
          <<FirstChannel, NumChannels>> >>
  ELSE << <<FirstChannel, NumChannels>> >>

ResetPicker == [r \in DOMAIN Rotations |-> Rotations[r][1]]

RotationOf(q) ==
  IF option.algorithm # "flip_flop" THEN 1
  ELSE IF IsInput(q) THEN 3 ELSE 1 + (ProducerEpoch(q) % 2)

Advance(r) ==
  IF picker[r] + 1 >= Rotations[r][2] THEN Rotations[r][1] ELSE picker[r] + 1

Roomiest ==
  LET capacity == [v \in Virtual |-> get_capacity(chan[v])]
  IN  CHOOSE v \in Virtual :
        \A w \in Virtual : \/ capacity[w] < capacity[v]
                           \/ capacity[w] = capacity[v] /\ v <= w

(* Channels ClosestPicker may settle on, by distances not modelled here.     *)
Nearest == Virtual

pick_channel(q, v) ==
  CASE option.algorithm \in {"round_robin", "flip_flop"} ->
         /\ v = picker[RotationOf(q)]
         /\ picker' = [picker EXCEPT ![RotationOf(q)] = Advance(RotationOf(q))]
    [] option.algorithm = "capacity" -> v = Roomiest /\ UNCHANGED picker
    [] option.algorithm = "closest" -> v \in Nearest /\ UNCHANGED picker

------------------------------------------------------------------------------
(* place_dram_queues: which queues are to be placed, and whether an all-     *)
(* static attempt looks possible.  Sizes are summed per queue, not per       *)
(* buffer, in 32 bits.                                                       *)
SumOfSizes(S) == MapThenSumSet(LAMBDA q : shape[q].size, S) % UInt32

disable_dynamic_dram_if_possible(S) ==
  LET hard    == SumOfSizes({q \in S : InP2PHard(q)})
      soft    == SumOfSizes({q \in S : InP2PSoft(q)})
      regular == SumOfSizes({q \in S : ~InP2PHard(q) /\ ~InP2PSoft(q)})
      room    == MapThenSumSet(LAMBDA v : get_capacity(chan[v]), Virtual)
      p2proom == get_capacity(p2p)
  IN  /\ option.automatic
      /\ hard < p2proom /\ regular < room
      /\ soft <= (p2proom - hard) + (room - regular)

Nothing == [queue |-> "none", buffers |-> <<>>]

Unplaced == {q \in ThisPass : place[q] = <<>>}

Schedule ==
  /\ pc = "schedule"
  /\ todo' = Unplaced
  /\ static' = (disable_dynamic_dram_if_possible(Unplaced) \/ option.force_static)
  /\ epoch' = 0
  /\ pc' = "place"
  /\ UNCHANGED <<shape, option, pass, cur, chan, p2p, picker, place, held, span>>

(* allocate_queues.  Static queues go first, the largest first.  Then epoch  *)
(* by epoch: the dynamic queues that begin, in order of their last consumer  *)
(* (and, among those, of size), are allocated, and the ones that end are     *)
(* freed.                                                                    *)
StaticTodo == {q \in todo : is_static_queue(q)}

Beginning == {q \in todo \ StaticTodo : ProducerEpoch(q) = epoch}

IsNext(q) ==
  IF StaticTodo # {}
  THEN /\ q \in StaticTodo
       /\ \A r \in StaticTodo : shape[q].size >= shape[r].size
  ELSE /\ q \in Beginning
       /\ \A r \in Beginning :
            \/ LastConsumerEpoch(q) < LastConsumerEpoch(r)
            \/ /\ LastConsumerEpoch(q) = LastConsumerEpoch(r)
               /\ shape[q].size >= shape[r].size

Turn(q) == IF cur = Nothing THEN IsNext(q) ELSE q = cur.queue

Buffer(v, a, q, inP2P) == [chan |-> v, addr |-> a, size |-> shape[q].size, p2p |-> inP2P]

(* One buffer more; with the last one the queue's placement is recorded.     *)
Placed(q, buffer) ==
  LET sofar == Append(cur.buffers, buffer)
  IN  IF Len(sofar) < shape[q].buffers
      THEN /\ cur' = [queue |-> q, buffers |-> sofar]
           /\ UNCHANGED <<todo, place, held, span>>
      ELSE /\ cur' = Nothing
           /\ todo' = todo \ {q}
           /\ place' = [place EXCEPT ![q] = sofar]
           /\ IF is_static_queue(q)
              THEN UNCHANGED <<held, span>>
              ELSE /\ held' = held \cup {<<q, i>> : i \in DOMAIN sofar}
                   /\ span' = [span EXCEPT ![q][1] = ProducerEpoch(q)]

(* Queues that may live in the p2p region are tried there first.             *)
TriesP2P(q) == InP2PSoft(q) \/ InP2PHard(q)

FitsP2P(q) == TriesP2P(q) /\ Fitting(p2p, shape[q].size) # {}

PlaceInP2P(q) ==
  /\ pc = "place" /\ Turn(q)
  /\ FitsP2P(q)
  /\ Placed(q, Buffer(0, GrantedAddr(p2p, shape[q].size), q, TRUE))
  /\ p2p' = AfterAllocate(p2p, shape[q].size)
  /\ UNCHANGED <<shape, option, pass, pc, static, epoch, chan, picker>>

(* Otherwise the preferred channel is tried, and the following ones in turn. *)
Ahead(from, v) == (v - from + NumChannels) % NumChannels

WithRoom(q) == {v \in Virtual : Fitting(chan[v], shape[q].size) # {}}

FirstFit(q, from, v) ==
  /\ v \in WithRoom(q)
  /\ \A w \in WithRoom(q) : Ahead(from, v) <= Ahead(from, w)

PlaceInChannel(q, from, v) ==
  /\ pc = "place" /\ Turn(q)
  /\ ~FitsP2P(q) /\ ~InP2PHard(q)
  /\ pick_channel(q, from)
  /\ FirstFit(q, from, v)
  /\ Placed(q, Buffer(v, GrantedAddr(chan[v], shape[q].size), q, FALSE))
  /\ chan' = [chan EXCEPT ![v] = AfterAllocate(@, shape[q].size)]
  /\ UNCHANGED <<shape, option, pass, pc, static, epoch, p2p>>

DoesNotFit(q) ==
  /\ ~FitsP2P(q)
  /\ InP2PHard(q) \/ WithRoom(q) = {}

(* A failed static attempt forgets every placement of the pass and resets    *)
(* the allocator; a failed dynamic one ends the compilation.                 *)
StaticFails(q) ==
  /\ pc = "place" /\ Turn(q) /\ DoesNotFit(q) /\ static
  /\ place' = [r \in Queues |-> IF r \in ThisPass THEN <<>> ELSE place[r]]
  /\ cur' = Nothing
  /\ held' = {}
  /\ pc' = "reset"
  /\ UNCHANGED <<shape, option, pass, static, todo, epoch, chan, p2p, picker, span>>

DynamicFails(q) ==
  /\ pc = "place" /\ Turn(q) /\ DoesNotFit(q) /\ ~static
  /\ pc' = "thrown"
  /\ UNCHANGED <<shape, option, pass, static, todo, cur, epoch, chan, p2p,
                 picker, place, held, span>>

(* reset_dram_allocator: every block of every channel and then of the p2p    *)
(* region is freed, whoever holds it, and the picker starts over.            *)
ClearChannel(v, b) ==
  /\ pc = "reset"
  /\ b \in chan[v].used
  /\ \A w \in Virtual : w < v => chan[w].used = {}
  /\ chan' = [chan EXCEPT ![v] = AfterDeallocate(@, b)]
  /\ UNCHANGED <<shape, option, pass, pc, static, todo, cur, epoch, p2p,
                 picker, place, held, span>>

ClearP2P(b) ==
  /\ pc = "reset"
  /\ b \in p2p.used
  /\ \A w \in Virtual : chan[w].used = {}
  /\ p2p' = AfterDeallocate(p2p, b)
  /\ UNCHANGED <<shape, option, pass, pc, static, todo, cur, epoch, chan,
                 picker, place, held, span>>

(* Plausible bug: the p2p heap is not reset.                                 *)
FallbackKeepsP2P ==
  /\ pc = "reset"
  /\ \A w \in Virtual : chan[w].used = {}
  /\ picker' = ResetPicker
  /\ static' = FALSE /\ todo' = Unplaced /\ epoch' = 0 /\ pc' = "place"
  /\ UNCHANGED <<shape, option, pass, cur, chan, p2p, place, held, span>>

Fallback ==
  /\ pc = "reset"
  /\ \A w \in Virtual : chan[w].used = {}
  /\ p2p.used = {}
  /\ picker' = ResetPicker
  /\ static' = FALSE
  /\ todo' = Unplaced
  /\ epoch' = 0
  /\ pc' = "place"
  /\ UNCHANGED <<shape, option, pass, cur, chan, p2p, place, held, span>>

(* Plausible bug: an epoch's ending queues are freed before its beginning    *)
(* ones are allocated.                                                       *)
FreedBeforeAllocated == pc = "place" /\ cur = Nothing /\ StaticTodo = {}

(* deallocate_buffers for a dynamic queue whose last consumer has run.       *)
EpochAllocated == pc = "place" /\ cur = Nothing /\ StaticTodo = {} /\ Beginning = {}

Ending == {h \in held : LastConsumerEpoch(h[1]) = epoch}

BlockOf(buffer) == Block(buffer.addr, buffer.size)

(* Epochs are unsigned in the parameters and signed in the placement: the    *)
(* epoch after the last one turns into -1, never deallocated.                *)
AsInt(e) == IF e = Forever THEN -1 ELSE e

FreeBuffer(q, i) ==
  /\ EpochAllocated
  /\ <<q, i>> \in Ending
  /\ \A h \in Ending : h[1] = q => i <= h[2]
  /\ LET buffer == place[q][i]
     IN  IF buffer.p2p
         THEN /\ p2p' = AfterDeallocate(p2p, BlockOf(buffer))
              /\ UNCHANGED chan
         ELSE /\ chan' = [chan EXCEPT ![buffer.chan] = AfterDeallocate(@, BlockOf(buffer))]
              /\ UNCHANGED p2p
  /\ held' = held \ {<<q, i>>}
  /\ span' = [span EXCEPT ![q][2] = AsInt(epoch)]
  /\ UNCHANGED <<shape, option, pass, pc, static, todo, cur, epoch, picker, place>>

NextEpoch ==
  /\ EpochAllocated /\ Ending = {}
  /\ epoch < Forever
  /\ epoch' = epoch + 1
  /\ UNCHANGED <<shape, option, pass, pc, static, todo, cur, chan, p2p,
                 picker, place, held, span>>

(* Virtual channels become real ones in the result.                          *)
Finish ==
  /\ EpochAllocated /\ Ending = {}
  /\ epoch = Forever
  /\ place' = [q \in Queues |->
                 IF q \in ThisPass
                 THEN [i \in DOMAIN place[q] |->
                         [place[q][i] EXCEPT !.chan = RealChannel(@)]]
                 ELSE place[q]]
  /\ pc' = "done"
  /\ UNCHANGED <<shape, option, pass, static, todo, cur, epoch, chan, p2p,
                 picker, held, span>>

(* Queues that appear after the placement are placed by a second call: with  *)
(* the allocators of the first (ethernet serialization), or with allocators  *)
(* built from the blocks of the first (reproduce_subgraph).                  *)
AgainWithSame ==
  /\ pc = "done" /\ pass = 1 /\ option.again = "same"
  /\ pass' = 2
  /\ pc' = "schedule"
  /\ UNCHANGED <<shape, option, static, todo, cur, epoch, chan, p2p, picker,
                 place, held, span>>

AgainRebuilt ==
  /\ pc = "done" /\ pass = 1 /\ option.again = "rebuilt"
  /\ pass' = 2
  /\ chan' = BuildChannels(chan)
  /\ p2p' = BuildP2P(p2p)
  /\ picker' = ResetPicker
  /\ pc' = "schedule"
  /\ UNCHANGED <<shape, option, static, todo, cur, epoch, place, held, span>>

------------------------------------------------------------------------------
Init ==
  /\ shape \in QueueParameters
  /\ option \in Options
  /\ pass = 1 /\ pc = "schedule" /\ static = FALSE
  /\ todo = {} /\ cur = Nothing /\ epoch = 0
  /\ chan = BuildChannels(EmptyHeaps)
  /\ p2p = BuildP2P(NoBlocks)
  /\ picker = ResetPicker
  /\ place = [q \in Queues |-> <<>>]
  /\ held = {}
  /\ span = [q \in Queues |-> <<-1, -1>>]

Next ==
  \/ Schedule
  \/ \E q \in todo : \/ PlaceInP2P(q)
                     \/ \E from, v \in Virtual : PlaceInChannel(q, from, v)
                     \/ StaticFails(q)
                     \/ DynamicFails(q)
  \/ \E v \in Virtual : \E b \in chan[v].used : ClearChannel(v, b)
  \/ \E b \in p2p.used : ClearP2P(b)
  \/ Fallback
  \/ \E h \in Ending : FreeBuffer(h[1], h[2])
  \/ NextEpoch
  \/ Finish
  \/ AgainWithSame
  \/ AgainRebuilt

Spec == Init /\ [][Next]_dramVars /\ WF_dramVars(Next)

------------------------------------------------------------------------------
(* The epochs in which a queue's buffers are in use, as the netlist reads    *)
(* them off the placement.                                                   *)
Lifetime(q) ==
  IF span[q] = <<-1, -1>> THEN 0 .. Forever
  ELSE span[q][1] .. (IF span[q][2] = -1 THEN Forever ELSE span[q][2])

Clash(q, r) ==
  /\ Lifetime(q) \cap Lifetime(r) # {}
  /\ \E i \in DOMAIN place[q], j \in DOMAIN place[r] :
       /\ <<q, i>> # <<r, j>>
       /\ place[q][i].chan = place[r][j].chan
       /\ ~Apart(BlockOf(place[q][i]), BlockOf(place[r][j]))

(* Two buffers placed by one call and in use in the same epoch share no      *)
(* DRAM: across queues and within one, for static and dynamic queues, in the *)
(* real channels the netlist names.                                          *)
LiveBuffersDisjoint ==
  pc = "done" => \A q, r \in Queues : shape[q].pass = shape[r].pass => ~Clash(q, r)

(* The same for queues placed by different calls.                            *)
LatePlacementDisjoint == pc = "done" => \A q, r \in Queues : ~Clash(q, r)

(* A buffer lies in the usable part of its channel, in the p2p region        *)
(* exactly if its placement says so; queues between chips are always there,  *)
(* and queues that have no business there never are.                         *)
InItsRegion(q, b) ==
  LET inside == P2POffset <= b.addr /\ b.addr + b.size <= P2POffset + P2PSize
  IN  /\ b.p2p => b.chan = 0 /\ inside /\ TriesP2P(q)
      /\ InP2PHard(q) => b.p2p
      /\ ~b.p2p => /\ Offset <= b.addr /\ b.addr + b.size <= ChannelSize
                   /\ b.chan = 0 => Apart(BlockOf(b), Block(P2POffset, P2PSize))

RegionsRespected ==
  pc = "done" =>
    \A q \in Queues : \A i \in DOMAIN place[q] : InItsRegion(q, place[q][i])

(* Both: every buffer has memory of its own in a region it may be in.        *)
BuffersPlacedRight == LiveBuffersDisjoint /\ RegionsRespected

(* What the heaps hold is what the queues hold: buffers of static queues     *)
(* placed so far, of dynamic queues not yet over, and of the queue being     *)
(* placed.  Nothing leaks and nothing is freed under its owner.              *)
Owned ==
  {cur.buffers[i] : i \in DOMAIN cur.buffers}
  \cup {place[h[1]][h[2]] : h \in held}
  \cup UNION {{place[q][i] : i \in DOMAIN place[q]} :
                q \in {r \in ThisPass : is_static_queue(r)}}

HeapsHoldWhatQueuesOwn ==
  pc = "place" /\ pass = 1 =>
    /\ \A v \in Virtual :
         chan[v].used = {BlockOf(b) : b \in {c \in Owned : ~c.p2p /\ c.chan = v}}
    /\ p2p.used = {BlockOf(b) : b \in {c \in Owned : c.p2p}}
==============================================================================
