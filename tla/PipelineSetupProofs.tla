------------------------- MODULE PipelineSetupProofs -------------------------
(***************************************************************************)
(* Proofs about the set-up of a pipeline and its run, for every number and *)
(* kind of devices, every number of inputs and every set of faults: a      *)
(* connector only ever has the descriptors of the queues it is there for;  *)
(* and as long as no error is seen, nothing is pushed to a device before its *)
(* descriptors are known or after it was closed, and sync() returns only   *)
(* when every device is idle.                                              *)
(***************************************************************************)
EXTENDS PipelineSetup, FiniteSetTheorems, SequenceTheorems, WellFoundedInduction,
        TLAPS

-----------------------------------------------------------------------------
(* Definitions, and what a loop over a sequence computes.                  *)

\* The values the variables take.
Cmds == {"compile", "get_queues", "set_queues", "dc_transfer", "run_forward", "sync",
         "checkpoint", "quit"}
Directions == {"forward_out", "forward_in", "forward_in_push", "forward_out_pop",
               "backward_out_push", "backward_in", "backward_out", "target_in_push"}
Queues == {"input", "output", "target", "bw_input", "bw_output"}
Names == Directions \cup Queues
         \cup {"none", "exception", "outputs", "sync", "checkpoint", "forward_input", "forward"}
Descs == [dev : Int, queue : Names]
Commands == [cmd : Cmds, name : Names, desc : Descs]
Steps == [dev : Dev, cmd : Cmds, name : Names, reply : BOOLEAN]
Places == 1 .. N + 1
Inputs == IF training THEN 0 ELSE InputCount

\* The step of its script the main thread is at, and the last one of the setup.
A == at["main"]
L == Len(Setup)

TypeOK ==
    /\ tt \in Pipelines /\ training \in BOOLEAN
    /\ at \in [Threads -> Nat \ {0}]
    /\ waiting \in [Threads -> BOOLEAN]
    /\ last \in [Threads -> Descs]
    /\ phase \in {"running", "passed", "reap", "join", "done"}
    /\ synced \in BOOLEAN /\ event \in BOOLEAN
    /\ cmdq \in [Dev -> Seq(Commands)]
    /\ resp \in [Dev -> Seq(Descs)]
    /\ dpc \in [Dev -> {"next", "forward", "threads", "barrier", "closed"}]
    /\ compiled \subseteq Dev
    /\ DOMAIN conn = Dev
    /\ progs \in [Dev -> Nat] /\ moves \in [Dev -> Nat]
    /\ pq \in [Dev -> Seq(Int)]
    /\ ppc \in [Dev -> {"poll", "push", "ended", "dead"}]
    /\ held \in [Dev -> Int]
    /\ data \in [Places -> Seq(Int)]
    /\ buf \in Seq(Int) /\ out \in Seq(Int)

\* A thread that waits has sent a step with an answer.
Waits == \A t \in Threads : waiting[t] => at[t] <= Len(Script(t)) /\ Step(t).reply
TypeInv == TypeOK /\ Waits

\* A command the device answers; and nothing of the sort is on its way.
IsRequest(c) == c.cmd \in {"compile", "get_queues", "sync", "checkpoint"}
Unasked(d) == (\A i \in DOMAIN cmdq[d] : ~IsRequest(cmdq[d][i])) /\ resp[d] = <<>>

\* r answers the step s.
IsAnswer(s, r) ==
    CASE s.cmd = "compile" -> r \in {Failure, [dev |-> s.dev, queue |-> "outputs"]}
      [] s.cmd = "get_queues" -> r = [dev |-> s.dev, queue |-> s.name]
      [] OTHER -> TRUE

\* The request of step s is in the queue, and no other ...
Asked(s) ==
    LET q == cmdq[s.dev] IN
    /\ q # <<>> /\ resp[s.dev] = <<>>
    /\ q[Len(q)].cmd = s.cmd /\ q[Len(q)].name = s.name
    /\ \A i \in 1 .. Len(q) - 1 : ~IsRequest(q[i])

\* ... or has been served: its answer is the only one there is.
Served(s) ==
    /\ cmdq[s.dev] = <<>>
    /\ Len(resp[s.dev]) <= 1
    /\ resp[s.dev] # <<>> => IsAnswer(s, resp[s.dev][1])
    /\ s.cmd = "sync" => progs[s.dev] = 0 /\ dpc[s.dev] # "forward"

\* In the setup, and in inference until an error, the main thread's request is
\* the only one there is.
OneRequest ==
    A <= L \/ (~training /\ ~event) =>
        IF waiting["main"]
        THEN /\ A <= Len(Script("main")) /\ Step("main").reply
             /\ \A d \in Dev \ {Step("main").dev} : Unasked(d)
             /\ Asked(Step("main")) \/ Served(Step("main"))
        ELSE \A d \in Dev : Unasked(d)

\* The training thread asks for nothing before the setup is over.
LoopLater == A <= L \/ ~training => ~waiting["loop"]

\* Descriptors are right on their way to the connectors and there.
SetsRight ==
    /\ \A d \in Dev : \A i \in DOMAIN cmdq[d] :
          cmdq[d][i].cmd = "set_queues" =>
             cmdq[d][i].name \in Directions /\ cmdq[d][i].desc = Peer(d, cmdq[d][i].name)
    /\ A <= L /\ ~waiting["main"] /\ Step("main").cmd = "set_queues" =>
          last["main"] = Peer(Step("main").dev, Step("main").name)
    /\ \A d \in Dev : DOMAIN conn[d] \subseteq Directions
    /\ DescriptorsOfPeers

\* What only TTDevices have, and what only pushing connectors have.
Kinds ==
    /\ \A d \in Dev : dpc[d] = "forward" => d \notin tt
    /\ \A d \in Dev : progs[d] > 0 \/ moves[d] > 0 => d \in tt
    /\ \A d \in Dev : d \notin Pushers => pq[d] = <<>> /\ ppc[d] = "ended"

\* The inductive invariant behind DescriptorsOfPeers.
AnswerInv == TypeInv /\ Kinds /\ OneRequest /\ LoopLater /\ SetsRight

\* The commands that move data through the pipeline.
IsRun(c) == c.cmd \in {"dc_transfer", "run_forward"}

\* The relation of the library for < on the naturals, as pairs.
LEMMA LessIsIn == \A y, x \in Nat : y < x => <<y, x>> \in OpToRel(<, Nat)
BY Zenon DEF OpToRel

\* WFMin of the library, with its parameters as bound variables.
LEMMA MinimalIn ==
  \A R, S, T : IsWellFoundedOn(R, S) /\ T \subseteq S /\ T # {}
     => \E x \in T : \A y \in T : ~ (<<y, x>> \in R)
BY WFMin

\* The same for a set of naturals ...
LEMMA MinimalNat ==
  ASSUME NEW R, IsWellFoundedOn(R, Nat), NEW T, T \subseteq Nat, T # {}
  PROVE  \E x \in T : \A y \in T : ~ (<<y, x>> \in R)
BY MinimalIn, Zenon

\* ... and a minimal element of it is its least ...
LEMMA LeastOf ==
  ASSUME NEW R, IsWellFoundedOn(R, Nat), \A y, x \in Nat : y < x => <<y, x>> \in R,
         NEW T, T \subseteq Nat, T # {}
  PROVE  \E m \in T : \A k \in T : m <= k
<1>1. \E x \in T : \A y \in T : ~ (<<y, x>> \in R)
  BY MinimalNat
<1>2. PICK x \in T : \A y \in T : ~(<<y, x>> \in R)
  BY <1>1
<1>3. \A y \in T : ~(y < x)
  BY <1>2
<1>4. x \in Nat /\ \A y \in T : y \in Nat
  OBVIOUS
<1> QED
  BY <1>3, <1>4

\* ... so that a non-empty set of naturals has a least element.
LEMMA Least ==
  ASSUME NEW T, T \subseteq Nat, T # {}
  PROVE  \E m \in T : \A k \in T : m <= k
BY LeastOf, LessIsIn, NatLessThanWellFounded, Zenon

\* A set with 0 and with the successor of each of its elements has every number up to n.
LEMMA Induct ==
  ASSUME NEW n \in Nat, NEW S, 0 \in S, \A i \in 1 .. n : i - 1 \in S => i \in S
  PROVE  \A i \in 0 .. n : i \in S
<1> DEFINE Bad == {i \in 0 .. n : i \notin S}
<1> SUFFICES ASSUME Bad # {} PROVE FALSE
  OBVIOUS
<1>1. PICK m \in Bad : \A k \in Bad : m <= k
  <2>1. Bad \subseteq Nat
    OBVIOUS
  <2> HIDE DEF Bad
  <2> QED
    BY <2>1, Least
<1>2. m \in 1 .. n
  BY <1>1
<1>3. m - 1 \in 0 .. n /\ m - 1 \notin Bad
  BY <1>1, <1>2
<1> QED
  BY <1>1, <1>2, <1>3

\* A loop of n rounds from a, round i of which takes v to H[<<v, i>>].
LoopOf(n, a, H, f) == f = [i \in 0 .. n |-> IF i = 0 THEN a ELSE H[<<f[i - 1], i>>]]

\* There is the function of the values after each round.
LEMMA LoopExists ==
  ASSUME NEW T, NEW n \in Nat, NEW a \in T, NEW H \in [T \X (1 .. n) -> T]
  PROVE  \E f : LoopOf(n, a, H, f) /\ f \in [0 .. n -> T]
<1> DEFINE Loops == {k \in 0 .. n : \E f : LoopOf(k, a, H, f) /\ f \in [0 .. k -> T]}
<1>1. 0 \in Loops
  <2> DEFINE f == [i \in 0 .. 0 |-> a]
  <2>1. f = [i \in 0 .. 0 |-> IF i = 0 THEN a ELSE H[<<f[i - 1], i>>]] /\ f \in [0 .. 0 -> T]
    OBVIOUS
  <2> HIDE DEF f
  <2> QED
    BY <2>1 DEF LoopOf
<1>2. ASSUME NEW k \in 1 .. n, k - 1 \in Loops PROVE k \in Loops
  <2>1. PICK g : LoopOf(k - 1, a, H, g) /\ g \in [0 .. k - 1 -> T]
    BY <1>2
  <2>2. g = [i \in 0 .. k - 1 |-> IF i = 0 THEN a ELSE H[<<g[i - 1], i>>]]
    BY <2>1 DEF LoopOf
  <2> DEFINE f == [i \in 0 .. k |-> IF i = 0 THEN a ELSE H[<<g[i - 1], i>>]]
  <2>3. \A i \in 0 .. k - 1 : f[i] = g[i]
    BY <2>2
  <2>4. \A i \in 0 .. k : i # 0 => f[i - 1] = g[i - 1]
    <3> HIDE DEF f
    <3> QED
      BY <2>3
  <2>5. f = [i \in 0 .. k |-> IF i = 0 THEN a ELSE H[<<f[i - 1], i>>]]
    BY <2>4
  <2>6. \A i \in 0 .. k : f[i] \in T
    <3> SUFFICES ASSUME NEW i \in 0 .. k PROVE f[i] \in T
      OBVIOUS
    <3>1. CASE i = 0
      BY <3>1
    <3>2. CASE i # 0
      <4>1. i - 1 \in 0 .. k - 1 /\ i \in 1 .. n
        BY <3>2
      <4>2. <<g[i - 1], i>> \in T \X (1 .. n)
        BY <4>1, <2>1
      <4>3. H[<<g[i - 1], i>>] \in T
        BY <4>2
      <4> QED
        BY <3>2, <4>3
    <3> QED
      BY <3>1, <3>2
  <2>7. f \in [0 .. k -> T]
    BY <2>6
  <2> HIDE DEF f
  <2>8. LoopOf(k, a, H, f)
    BY <2>5 DEF LoopOf
  <2> QED
    BY <2>7, <2>8
<1>3. \A k \in 0 .. n : k \in Loops
  <2> HIDE DEF Loops
  <2> QED
    BY <1>1, <1>2, Induct
<1> QED
  BY <1>3

\* FlattenSeq joins the sequences one after the other.
LEMMA FlattenSteps ==
  ASSUME NEW T, NEW s \in Seq(Seq(T))
  PROVE  \E f \in [0 .. Len(s) -> Seq(T)] :
            /\ f[0] = <<>>
            /\ \A i \in 1 .. Len(s) : f[i] = f[i - 1] \o s[i]
            /\ FlattenSeq(s) = f[Len(s)]
<1> DEFINE n == Len(s)
           H == [p \in Seq(T) \X (1 .. n) |-> p[1] \o s[p[2]]]
           flatten == CHOOSE f :
                         f = [i \in 1 .. Len(s) |-> IF i = 1 THEN s[i] ELSE f[i - 1] \o s[i]]
<1>1. n \in Nat /\ \A i \in 1 .. n : s[i] \in Seq(T)
  OBVIOUS
<1>2. H \in [Seq(T) \X (1 .. n) -> Seq(T)]
  BY <1>1
<1>3. <<>> \in Seq(T)
  OBVIOUS
<1>4. PICK f : LoopOf(n, <<>>, H, f) /\ f \in [0 .. n -> Seq(T)]
  <2> HIDE DEF H, n
  <2> QED
    BY <1>1, <1>2, <1>3, LoopExists
<1>5. f[0] = <<>> /\ \A i \in 1 .. n : f[i] = H[<<f[i - 1], i>>] /\ f[i - 1] \in Seq(T)
  <2> HIDE DEF H
  <2>1. f = [j \in 0 .. n |-> IF j = 0 THEN <<>> ELSE H[<<f[j - 1], j>>]]
    BY <1>4 DEF LoopOf
  <2>2. \A i \in 1 .. n : i \in 0 .. n /\ i - 1 \in 0 .. n /\ i # 0
    BY <1>1
  <2> HIDE DEF n
  <2> QED
    BY <2>1, <2>2, <1>4, <1>1
<1>6. \A i \in 1 .. n : f[i] = f[i - 1] \o s[i]
  BY <1>5
<1>7. FlattenSeq(s) = f[n]
  <2>1. CASE n = 0
    <3>1. s = <<>>
      BY <2>1
    <3>2. FlattenSeq(s) = s
      BY <2>1 DEF FlattenSeq
    <3> QED
      BY <3>1, <3>2, <1>5, <2>1
  <2>2. CASE n # 0
    <3> DEFINE g == [i \in 1 .. n |-> f[i]]
    <3>1. \A i \in 1 .. n : f[i] = (IF i = 1 THEN s[i] ELSE g[i - 1] \o s[i])
      <4> SUFFICES ASSUME NEW i \in 1 .. n
                   PROVE  f[i] = (IF i = 1 THEN s[i] ELSE g[i - 1] \o s[i])
        OBVIOUS
      <4>1. CASE i = 1
        <5>0. 1 \in 1 .. n /\ 1 - 1 = 0
          BY <4>1
        <5>1. f[1] = <<>> \o s[1] /\ s[1] \in Seq(T)
          <6> HIDE DEF n, H, flatten, g
          <6> QED
            BY <5>0, <1>5, <1>6, <1>1
        <5> QED
          BY <5>1, <4>1
      <4>2. CASE i # 1
        <5>1. i - 1 \in 1 .. n
          BY <4>2, <1>1
        <5> QED
          BY <5>1, <1>6, <4>2
      <4> QED
        BY <4>1, <4>2
    <3>2. g = [i \in 1 .. n |-> IF i = 1 THEN s[i] ELSE g[i - 1] \o s[i]]
      BY <3>1
    <3>3. n \in 1 .. n /\ g[n] = f[n]
      BY <2>2, <1>1
    <3> HIDE DEF g
    <3>4. flatten = [i \in 1 .. n |-> IF i = 1 THEN s[i] ELSE flatten[i - 1] \o s[i]]
      <4> HIDE DEF H
      <4> QED
        BY <3>2
    <3>5. FlattenSeq(s) = flatten[n]
      BY <2>2 DEF FlattenSeq
    <3> HIDE DEF flatten, H
    <3> DEFINE Good == {i \in 0 .. n : i = 0 \/ flatten[i] = f[i]}
    <3>6. \A i \in 1 .. n : flatten[i] = (IF i = 1 THEN s[i] ELSE flatten[i - 1] \o s[i])
      BY <3>4
    <3>7. 0 \in Good
      BY <1>1
    <3>8. ASSUME NEW i \in 1 .. n, i - 1 \in Good PROVE i \in Good
      <4>1. CASE i = 1
        <5>0. 1 \in 1 .. n /\ 1 - 1 = 0
          BY <4>1
        <5>1. f[1] = <<>> \o s[1] /\ s[1] \in Seq(T)
          <6> HIDE DEF n, Good
          <6> QED
            BY <5>0, <1>5, <1>6, <1>1
        <5>2. flatten[1] = s[1]
          BY <3>6, <4>1
        <5>3. flatten[1] = f[1]
          BY <5>1, <5>2
        <5> QED
          BY <5>3, <4>1, <1>1
      <4>2. CASE i # 1
        <5>1. i - 1 # 0 /\ flatten[i - 1] = f[i - 1]
          BY <4>2, <3>8
        <5>2. flatten[i] = f[i]
          BY <5>1, <3>6, <1>6, <4>2
        <5> QED
          BY <5>2, <1>1
      <4> QED
        BY <4>1, <4>2
    <3>9. n \in Good
      <4>1. \A i \in 0 .. n : i \in Good
        <5> HIDE DEF Good
        <5> QED
          BY <3>7, <3>8, <1>1, Induct
      <4> QED
        BY <4>1, <1>1
    <3> QED
      BY <3>9, <3>5, <2>2
  <2> QED
    BY <2>1, <2>2
<1> QED
  BY <1>4, <1>5, <1>6, <1>7

\* A set with <<>> and the concatenation of any two of its elements has every
\* concatenation of its elements.
LEMMA FlattenIn ==
  ASSUME NEW T, NEW W, W \subseteq Seq(T), <<>> \in W, \A a, b \in W : a \o b \in W,
         NEW s \in Seq(W)
  PROVE  FlattenSeq(s) \in W
<1>1. s \in Seq(Seq(T)) /\ Len(s) \in Nat /\ \A i \in 1 .. Len(s) : s[i] \in W
  OBVIOUS
<1>2. PICK f \in [0 .. Len(s) -> Seq(T)] :
            /\ f[0] = <<>>
            /\ \A i \in 1 .. Len(s) : f[i] = f[i - 1] \o s[i]
            /\ FlattenSeq(s) = f[Len(s)]
  BY <1>1, FlattenSteps
<1> DEFINE Good == {i \in 0 .. Len(s) : f[i] \in W}
<1>3. 0 \in Good
  BY <1>1, <1>2
<1>4. ASSUME NEW i \in 1 .. Len(s), i - 1 \in Good PROVE i \in Good
  <2>1. f[i] = f[i - 1] \o s[i] /\ f[i - 1] \in W /\ s[i] \in W
    BY <1>1, <1>2, <1>4
  <2>2. f[i] \in W
    BY <2>1
  <2> QED
    BY <2>2, <1>1
<1>5. \A i \in 0 .. Len(s) : i \in Good
  <2> HIDE DEF Good
  <2> QED
    BY <1>1, <1>3, <1>4, Induct
<1> QED
  BY <1>5, <1>1, <1>2

-----------------------------------------------------------------------------
(* The script of the setup.                                                *)

\* What is assumed of the constants.
LEMMA Devices == /\ N \in Nat /\ N >= 1 /\ Dev = 1 .. N /\ 1 \in Dev /\ N \in Dev
                 /\ InputCount \in Nat /\ PushDepth \in Nat
                 /\ Modes \subseteq BOOLEAN /\ Checkpointing \in BOOLEAN
                 /\ \A T \in Pipelines : T \subseteq Dev /\ \A d \in T : d + 1 \notin T
  BY PipelinesAssumption DEF Dev

\* A sequence of steps of the setup.
GoodSetup(s) ==
    \A i \in DOMAIN s :
        \/ s[i].cmd \in {"compile", "get_queues"} /\ s[i].reply
        \/ /\ s[i].cmd = "set_queues" /\ ~s[i].reply /\ i > 1 /\ s[i].name \in Directions
           /\ s[i - 1].cmd = "get_queues"
           /\ [dev |-> s[i - 1].dev, queue |-> s[i - 1].name] = Peer(s[i].dev, s[i].name)

\* The pieces of the setup.
GoodSteps == {s \in Seq(Steps) : GoodSetup(s)}

\* Two pieces of a setup one after the other are one: none ends in the middle of
\* a pass.
LEMMA GoodConcat == \A a, b \in GoodSteps : a \o b \in GoodSteps
<1> SUFFICES ASSUME NEW a \in GoodSteps, NEW b \in GoodSteps PROVE a \o b \in GoodSteps
  OBVIOUS
<1>1. a \in Seq(Steps) /\ b \in Seq(Steps) /\ GoodSetup(a) /\ GoodSetup(b)
  BY DEF GoodSteps
<1>2. /\ a \o b \in Seq(Steps) /\ Len(a) \in Nat /\ Len(b) \in Nat
      /\ DOMAIN (a \o b) = 1 .. Len(a) + Len(b)
      /\ \A i \in 1 .. Len(a) : (a \o b)[i] = a[i]
      /\ \A i \in 1 .. Len(b) : (a \o b)[Len(a) + i] = b[i]
  BY <1>1
<1>3. ASSUME NEW i \in 1 .. Len(a) + Len(b)
      PROVE  LET s == a \o b IN
             \/ s[i].cmd \in {"compile", "get_queues"} /\ s[i].reply
             \/ /\ s[i].cmd = "set_queues" /\ ~s[i].reply /\ i > 1 /\ s[i].name \in Directions
                /\ s[i - 1].cmd = "get_queues"
                /\ [dev |-> s[i - 1].dev, queue |-> s[i - 1].name] = Peer(s[i].dev, s[i].name)
  <2>1. CASE i <= Len(a)
    <3>1. i \in DOMAIN a /\ (a \o b)[i] = a[i] /\ (i > 1 => (a \o b)[i - 1] = a[i - 1])
      BY <1>1, <1>2, <2>1
    <3> QED
      BY <3>1, <1>1 DEF GoodSetup
  <2>2. CASE i > Len(a)
    <3> DEFINE k == i - Len(a)
    <3>1. /\ k \in DOMAIN b /\ k \in 1 .. Len(b) /\ Len(a) + k = i /\ (a \o b)[i] = b[k]
          /\ (k > 1 => (a \o b)[i - 1] = b[k - 1] /\ i > 1)
      <4>1. k \in 1 .. Len(b) /\ Len(a) + k = i /\ (k > 1 => k - 1 \in 1 .. Len(b) /\ Len(a) + (k - 1) = i - 1 /\ i > 1)
        BY <1>2, <2>2
      <4>2. DOMAIN b = 1 .. Len(b)
        BY <1>1
      <4> HIDE DEF k
      <4> QED
        BY <4>1, <4>2, <1>2
    <3> HIDE DEF k
    <3> QED
      BY <3>1, <1>1 DEF GoodSetup
  <2> QED
    BY <2>1, <2>2, <1>2
<1>4. GoodSetup(a \o b)
  BY <1>2, <1>3 DEF GoodSetup
<1> QED
  BY <1>2, <1>4 DEF GoodSteps

\* So is nothing ...
LEMMA GoodNothing == <<>> \in GoodSteps
  BY DEF GoodSteps, GoodSetup

\* ... what may be left out ...
LEMMA GoodIf == \A s \in GoodSteps : \A b : If(b, s) \in GoodSteps
  BY GoodNothing DEF If

\* ... and what is done for one device after the other.
LEMMA GoodFlatten ==
  ASSUME NEW s \in Seq(GoodSteps)
  PROVE  FlattenSeq(s) \in GoodSteps
<1>1. GoodSteps \subseteq Seq(Steps)
  BY DEF GoodSteps
<1> QED
  BY <1>1, GoodNothing, GoodConcat, FlattenIn

\* Compiling a device is a piece of the setup ...
LEMMA GoodCompile ==
  ASSUME NEW d \in Dev
  PROVE  Request(d, "compile", "none") \in GoodSteps
<1> DEFINE s == Request(d, "compile", "none")
<1>1. s \in Seq(Steps) /\ DOMAIN s = {1} /\ s[1].cmd = "compile" /\ s[1].reply
  BY DEF Request, Steps, Cmds, Names
<1> QED
  BY <1>1 DEF GoodSteps, GoodSetup

\* Two sequences of one element.
LEMMA Pair == \A x, y : <<x>> \o <<y>> = <<x, y>>
<1> SUFFICES ASSUME NEW x, NEW y PROVE <<x>> \o <<y>> = <<x, y>>
  OBVIOUS
<1> DEFINE T == {x, y}
<1>1. <<x>> \in Seq(T) /\ <<y>> \in Seq(T) /\ <<x, y>> \in Seq(T)
  OBVIOUS
<1>2. Len(<<x>>) = 1 /\ Len(<<y>>) = 1 /\ <<x>>[1] = x /\ <<y>>[1] = y
  OBVIOUS
<1>3. <<x>> \o <<y>> \in Seq(T) /\ Len(<<x>> \o <<y>>) = 2
  BY <1>1, <1>2
<1>4. (<<x>> \o <<y>>)[1] = x /\ (<<x>> \o <<y>>)[2] = y
  BY <1>1, <1>2
<1>5. \A i \in 1 .. 2 : (<<x>> \o <<y>>)[i] = <<x, y>>[i]
  BY <1>4
<1> DEFINE s == <<x>> \o <<y>>
           t == <<x, y>>
<1>6. s \in Seq(T) /\ t \in Seq(T) /\ Len(s) = Len(t) /\ \A i \in 1 .. Len(s) : s[i] = t[i]
  BY <1>1, <1>3, <1>5
<1>7. s = t
  <2> HIDE DEF s, t, T
  <2> QED
    BY <1>6, SeqEqual
<1> QED
  BY <1>7

\* ... and so is passing the descriptors of queue to the connector they are for.
LEMMA GoodPass ==
  ASSUME NEW from \in Dev, NEW queue \in Queues, NEW to \in Dev, NEW direction \in Directions,
         [dev |-> from, queue |-> queue] = Peer(to, direction)
  PROVE  Pass(from, queue, to, direction) \in GoodSteps
<1> DEFINE s == Pass(from, queue, to, direction)
           a == [dev |-> from, cmd |-> "get_queues", name |-> queue, reply |-> TRUE]
           b == [dev |-> to, cmd |-> "set_queues", name |-> direction, reply |-> FALSE]
<1>1. direction \in Names
  BY DEF Directions, Names
<1>2. a \in Steps /\ b \in Steps
  <2>1. queue \in Names /\ "get_queues" \in Cmds /\ "set_queues" \in Cmds
    BY DEF Names, Queues, Cmds
  <2> QED
    BY <1>1, <2>1 DEF Steps
<1>3. s = <<a, b>>
  <2>1. s = <<a>> \o <<b>>
    BY DEF Pass, Request, Order
  <2> QED
    BY <2>1, Pair
<1>4. s \in Seq(Steps) /\ DOMAIN s = {1, 2} /\ s[1] = a /\ s[2] = b
  <2> HIDE DEF a, b, s
  <2> QED
    BY <1>2, <1>3
<1>5. GoodSetup(s)
  <2>1. s[1].cmd = "get_queues" /\ s[1].reply /\ s[1].dev = from /\ s[1].name = queue
    BY <1>4
  <2>2. s[2].cmd = "set_queues" /\ ~s[2].reply /\ s[2].dev = to /\ s[2].name = direction
    BY <1>4
  <2>3. 2 - 1 = 1 /\ 2 > 1
    OBVIOUS
  <2> HIDE DEF s
  <2> QED
    BY <1>4, <2>1, <2>2, <2>3 DEF GoodSetup
<1> QED
  BY <1>4, <1>5 DEF GoodSteps

\* The queues the setup passes for one device.
Passed(d) ==
    If(d + 1 \in tt, Pass(d + 1, "input", d, "forward_out"))
    \o If(d < N /\ d \in tt, Pass(d, "output", d + 1, "forward_in"))
    \o If(training /\ d < N /\ d \in tt, Pass(d, "bw_input", d + 1, "backward_out_push"))
    \o If(training /\ d + 1 \in tt, Pass(d + 1, "bw_output", d, "backward_in"))

PassDevices == FlattenSeq([d \in Dev |-> Passed(d)])
CompileAll == FlattenSeq([d \in Dev |-> Request(d, "compile", "none")])

\* What the setup consists of.
LEMMA SetupIs ==
  Setup = CompileAll \o
    (PassDevices
      \o If(1 \in tt, Pass(1, "input", 1, "forward_in_push"))
      \o If(training /\ N \in tt, Pass(N, "target", N, "target_in_push"))
      \o If(training /\ 1 \in tt, Pass(1, "bw_output", 1, "backward_out"))
      \o If(N \in tt, Pass(N, "output", N, "forward_out_pop")))
BY DEF Setup, CompileDevices, PassDescriptors, PassDevices, CompileAll, EachDevice, Passed

\* The queues a connector is there for, by direction.
LEMMA PeerIs ==
  \A d : /\ Peer(d, "forward_out") = [dev |-> d + 1, queue |-> "input"]
            /\ Peer(d, "forward_in") = [dev |-> d - 1, queue |-> "output"]
            /\ Peer(d, "forward_in_push") = [dev |-> d, queue |-> "input"]
            /\ Peer(d, "forward_out_pop") = [dev |-> d, queue |-> "output"]
            /\ Peer(d, "backward_out_push") = [dev |-> d - 1, queue |-> "bw_input"]
            /\ Peer(d, "backward_in") = [dev |-> d + 1, queue |-> "bw_output"]
            /\ Peer(d, "backward_out") = [dev |-> d, queue |-> "bw_output"]
            /\ Peer(d, "target_in_push") = [dev |-> d, queue |-> "target"]
  BY DEF Peer

\* What _pass_dram_io_descriptors passes between a device and its successor is
\* right ...
LEMMA GoodPassed ==
  ASSUME tt \subseteq Dev, NEW d \in Dev
  PROVE  Passed(d) \in GoodSteps
<1>1. ASSUME d + 1 \in tt PROVE /\ Pass(d + 1, "input", d, "forward_out") \in GoodSteps
                                /\ Pass(d + 1, "bw_output", d, "backward_in") \in GoodSteps
  BY <1>1, GoodPass, PeerIs DEF Directions, Queues
<1>2. ASSUME d < N PROVE /\ Pass(d, "output", d + 1, "forward_in") \in GoodSteps
                         /\ Pass(d, "bw_input", d + 1, "backward_out_push") \in GoodSteps
  <2>1. d + 1 \in Dev /\ (d + 1) - 1 = d
    BY <1>2, Devices
  <2> QED
    BY <2>1, GoodPass, PeerIs DEF Directions, Queues
<1>3. /\ If(d + 1 \in tt, Pass(d + 1, "input", d, "forward_out")) \in GoodSteps
      /\ If(d < N /\ d \in tt, Pass(d, "output", d + 1, "forward_in")) \in GoodSteps
      /\ If(training /\ d < N /\ d \in tt, Pass(d, "bw_input", d + 1, "backward_out_push")) \in GoodSteps
      /\ If(training /\ d + 1 \in tt, Pass(d + 1, "bw_output", d, "backward_in")) \in GoodSteps
  BY <1>1, <1>2, GoodNothing DEF If
<1> QED
  BY <1>3, GoodConcat DEF Passed

\* ... and so is what it passes at the ends of the pipeline.
LEMMA GoodEnds ==
  ASSUME tt \subseteq Dev
  PROVE  /\ If(1 \in tt, Pass(1, "input", 1, "forward_in_push")) \in GoodSteps
         /\ If(training /\ N \in tt, Pass(N, "target", N, "target_in_push")) \in GoodSteps
         /\ If(training /\ 1 \in tt, Pass(1, "bw_output", 1, "backward_out")) \in GoodSteps
         /\ If(N \in tt, Pass(N, "output", N, "forward_out_pop")) \in GoodSteps
<1>1. /\ Pass(1, "input", 1, "forward_in_push") \in GoodSteps
      /\ Pass(N, "target", N, "target_in_push") \in GoodSteps
      /\ Pass(1, "bw_output", 1, "backward_out") \in GoodSteps
      /\ Pass(N, "output", N, "forward_out_pop") \in GoodSteps
  BY GoodPass, PeerIs, Devices DEF Directions, Queues
<1> QED
  BY <1>1, GoodNothing DEF If

\* The parts for all devices.
LEMMA PieceTypes ==
  ASSUME tt \subseteq Dev
  PROVE  CompileAll \in GoodSteps /\ PassDevices \in GoodSteps
<1>1. Dev = 1 .. N /\ N \in Nat
  BY Devices
<1>2. [d \in Dev |-> Request(d, "compile", "none")] \in Seq(GoodSteps)
  <2>1. \A d \in Dev : Request(d, "compile", "none") \in GoodSteps
    BY GoodCompile
  <2> QED
    BY <1>1, <2>1
<1>3. [d \in Dev |-> Passed(d)] \in Seq(GoodSteps)
  <2>1. \A d \in Dev : Passed(d) \in GoodSteps
    BY GoodPassed
  <2> QED
    BY <1>1, <2>1
<1> QED
  BY <1>2, <1>3, GoodFlatten DEF CompileAll, PassDevices

\* In the setup, set_queues follows the get_queues that asks for the very queues
\* its connector is there for.
LEMMA SetupGood ==
  ASSUME tt \subseteq Dev
  PROVE  Setup \in Seq(Steps) /\ GoodSetup(Setup)
<1>1. Setup \in GoodSteps
  BY PieceTypes, GoodEnds, GoodConcat, SetupIs
<1> QED
  BY <1>1 DEF GoodSteps

-----------------------------------------------------------------------------
(* The rest of the scripts.                                                *)

\* A flattened sequence of sequences of one element each.
LEMMA FlattenSingles ==
  ASSUME NEW T, NEW s \in Seq(Seq(T)), \A i \in 1 .. Len(s) : Len(s[i]) = 1
  PROVE  /\ FlattenSeq(s) \in Seq(T) /\ Len(FlattenSeq(s)) = Len(s)
         /\ \A i \in 1 .. Len(s) : FlattenSeq(s)[i] = s[i][1]
<1> DEFINE n == Len(s)
           g == [i \in 1 .. n |-> s[i][1]]
<1>0. n \in Nat /\ \A i \in 1 .. n : g[i] = s[i][1] /\ g[i] \in T
  OBVIOUS
<1> HIDE DEF g
<1>1. s \in Seq(Seq(T)) /\ Len(s) = n /\ \A i \in 1 .. n : s[i] \in Seq(T) /\ Len(s[i]) = 1 /\ s[i][1] = g[i]
  BY <1>0
<1>2. PICK f \in [0 .. Len(s) -> Seq(T)] :
            /\ f[0] = <<>>
            /\ \A i \in 1 .. Len(s) : f[i] = f[i - 1] \o s[i]
            /\ FlattenSeq(s) = f[Len(s)]
  BY <1>1, FlattenSteps
<1> DEFINE Good == {i \in 0 .. n : Len(f[i]) = i /\ \A j \in 1 .. i : f[i][j] = g[j]}
<1>3. 0 \in Good
  BY <1>2
<1>4. ASSUME NEW i \in 1 .. n, i - 1 \in Good PROVE i \in Good
  <2>0. i \in 1 .. Len(s) /\ i - 1 \in 0 .. Len(s)
    BY <1>1
  <2>1. f[i] = f[i - 1] \o s[i] /\ f[i - 1] \in Seq(T) /\ s[i] \in Seq(T)
    BY <2>0, <1>1, <1>2
  <2>2. Len(f[i - 1]) = i - 1 /\ \A j \in 1 .. i - 1 : f[i - 1][j] = g[j]
    BY <1>4
  <2>3. Len(s[i]) = 1 /\ s[i][1] = g[i]
    BY <1>1
  <2>4. /\ Len(f[i]) = i
        /\ \A j \in 1 .. i : f[i][j] = IF j <= i - 1 THEN f[i - 1][j] ELSE s[i][j - (i - 1)]
    <3>1. /\ Len(f[i - 1] \o s[i]) = Len(f[i - 1]) + Len(s[i])
          /\ \A j \in 1 .. Len(f[i - 1]) + Len(s[i]) : (f[i - 1] \o s[i])[j] =
               IF j <= Len(f[i - 1]) THEN f[i - 1][j] ELSE s[i][j - Len(f[i - 1])]
      BY <2>1, ConcatProperties
    <3>2. (i - 1) + 1 = i
      OBVIOUS
    <3> QED
      BY <3>1, <3>2, <2>1, <2>2, <2>3
  <2>5. ASSUME NEW j \in 1 .. i PROVE f[i][j] = g[j]
    <3>1. CASE j <= i - 1
      <4>1. j \in 1 .. i - 1
        BY <3>1
      <4> HIDE DEF Good
      <4> QED
        BY <4>1, <3>1, <2>4, <2>2
    <3>2. CASE j > i - 1
      <4>1. j = i /\ j - (i - 1) = 1 /\ ~(j <= i - 1)
        BY <3>2
      <4> QED
        BY <4>1, <2>4, <2>3
    <3> QED
      BY <3>1, <3>2
  <2> QED
    BY <2>4, <2>5
<1>5. \A i \in 0 .. n : i \in Good
  <2> HIDE DEF Good, n
  <2> QED
    BY <1>0, <1>3, <1>4, Induct
<1>6. n \in Good /\ n \in 0 .. n
  <2>1. n \in 0 .. n
    OBVIOUS
  <2> HIDE DEF Good
  <2> QED
    BY <1>5, <2>1
<1> QED
  BY <1>6, <1>2, <1>1, <1>0

\* One command for each device, as EachDevice makes it.
LEMMA EachIs ==
  ASSUME NEW c \in Cmds, NEW r \in BOOLEAN, NEW s \in Seq(Seq(Steps)), Len(s) = N,
         \A d \in Dev : /\ Len(s[d]) = 1
                        /\ s[d][1] = [dev |-> d, cmd |-> c, name |-> "none", reply |-> r]
  PROVE  /\ FlattenSeq(s) \in Seq(Steps) /\ Len(FlattenSeq(s)) = N
         /\ \A d \in Dev : FlattenSeq(s)[d] = [dev |-> d, cmd |-> c, name |-> "none", reply |-> r]
<1>1. Dev = 1 .. N /\ \A d \in 1 .. Len(s) : Len(s[d]) = 1
  BY Devices
<1>2. /\ FlattenSeq(s) \in Seq(Steps) /\ Len(FlattenSeq(s)) = Len(s)
      /\ \A d \in 1 .. Len(s) : FlattenSeq(s)[d] = s[d][1]
  BY <1>1, FlattenSingles
<1> QED
  BY <1>1, <1>2

\* sync() asks the devices one after the other ...
LEMMA SyncIs ==
  /\ Sync \in Seq(Steps) /\ Len(Sync) = N
  /\ \A d \in Dev : Sync[d] = [dev |-> d, cmd |-> "sync", name |-> "none", reply |-> TRUE]
<1> DEFINE s == [d \in 1 .. N |-> <<[dev |-> d, cmd |-> "sync", name |-> "none", reply |-> TRUE]>>]
<1>1. Sync = FlattenSeq(s)
  BY DEF Sync, EachDevice, Request, Dev
<1>2. "sync" \in Cmds
  BY DEF Cmds
<1>3. \A d \in 1 .. N : <<[dev |-> d, cmd |-> "sync", name |-> "none", reply |-> TRUE]>> \in Seq(Steps)
  BY DEF Steps, Names, Cmds, Dev
<1>4. s \in Seq(Seq(Steps))
  <2> DEFINE W == Seq(Steps)
  <2> HIDE DEF W
  <2>1. s \in Seq(W)
    BY <1>3, Devices DEF W
  <2> QED
    BY <2>1 DEF W
<1>5. Len(s) = N
  BY Devices
<1>6. \A d \in Dev : /\ Len(s[d]) = 1
                     /\ s[d][1] = [dev |-> d, cmd |-> "sync", name |-> "none", reply |-> TRUE]
  BY Devices
<1> HIDE DEF s
<1> QED
  BY <1>1, <1>2, <1>4, <1>5, <1>6, EachIs

\* ... _shutdown sends QUIT to one after the other ...
LEMMA QuitsIs ==
  /\ Quits \in Seq(Steps) /\ Len(Quits) = N
  /\ \A d \in Dev : Quits[d] = [dev |-> d, cmd |-> "quit", name |-> "none", reply |-> FALSE]
<1> DEFINE s == [d \in 1 .. N |-> <<[dev |-> d, cmd |-> "quit", name |-> "none", reply |-> FALSE]>>]
<1>1. Quits = FlattenSeq(s)
  BY DEF Quits, EachDevice, Order, Dev
<1>2. "quit" \in Cmds
  BY DEF Cmds
<1>3. \A d \in 1 .. N : <<[dev |-> d, cmd |-> "quit", name |-> "none", reply |-> FALSE]>> \in Seq(Steps)
  BY DEF Steps, Names, Cmds, Dev
<1>4. s \in Seq(Seq(Steps))
  <2> DEFINE W == Seq(Steps)
  <2> HIDE DEF W
  <2>1. s \in Seq(W)
    BY <1>3, Devices DEF W
  <2> QED
    BY <2>1 DEF W
<1>5. Len(s) = N
  BY Devices
<1>6. \A d \in Dev : /\ Len(s[d]) = 1
                     /\ s[d][1] = [dev |-> d, cmd |-> "quit", name |-> "none", reply |-> FALSE]
  BY Devices
<1> HIDE DEF s
<1> QED
  BY <1>1, <1>2, <1>4, <1>5, <1>6, EachIs

\* ... and the training thread asks them for checkpoints.
LEMMA CheckpointIs ==
  /\ Checkpoint \in Seq(Steps) /\ Len(Checkpoint) = N
  /\ \A d \in Dev : Checkpoint[d] = [dev |-> d, cmd |-> "checkpoint", name |-> "none", reply |-> TRUE]
<1> DEFINE s == [d \in 1 .. N |-> <<[dev |-> d, cmd |-> "checkpoint", name |-> "none", reply |-> TRUE]>>]
<1>1. Checkpoint = FlattenSeq(s)
  BY DEF Checkpoint, EachDevice, Request, Dev
<1>2. "checkpoint" \in Cmds
  BY DEF Cmds
<1>3. \A d \in 1 .. N : <<[dev |-> d, cmd |-> "checkpoint", name |-> "none", reply |-> TRUE]>> \in Seq(Steps)
  BY DEF Steps, Names, Cmds, Dev
<1>4. s \in Seq(Seq(Steps))
  <2> DEFINE W == Seq(Steps)
  <2> HIDE DEF W
  <2>1. s \in Seq(W)
    BY <1>3, Devices DEF W
  <2> QED
    BY <2>1 DEF W
<1>5. Len(s) = N
  BY Devices
<1>6. \A d \in Dev : /\ Len(s[d]) = 1
                     /\ s[d][1] = [dev |-> d, cmd |-> "checkpoint", name |-> "none", reply |-> TRUE]
  BY Devices
<1> HIDE DEF s
<1> QED
  BY <1>1, <1>2, <1>4, <1>5, <1>6, EachIs

\* The steps of the run: commands that move data, none of which is answered.
RunNames(c) == /\ c.cmd = "dc_transfer" => c.name \in {"forward_input", "forward"}
               /\ c.cmd = "run_forward" => c.name = "none"
RunSteps == {x \in Steps : IsRun(x) /\ ~x.reply /\ RunNames(x)}

\* The type of a concatenation.
LEMMA FlattenType ==
  ASSUME NEW T, NEW s \in Seq(Seq(T))
  PROVE  FlattenSeq(s) \in Seq(T)
<1>1. <<>> \in Seq(T) /\ \A a, b \in Seq(T) : a \o b \in Seq(T)
  OBVIOUS
<1> QED
  BY <1>1, FlattenIn

Feed(d) == [dev |-> d, cmd |-> "dc_transfer", name |-> "forward_input", reply |-> FALSE]
RunOne(d) == [dev |-> d, cmd |-> "run_forward", name |-> "none", reply |-> FALSE]
Drain == [dev |-> N, cmd |-> "dc_transfer", name |-> "forward", reply |-> FALSE]
Feeds == [d \in 1 .. N |-> <<Feed(d), RunOne(d)>>]

\* The three kinds of steps of a run.
LEMMA RunStepTypes ==
  Drain \in RunSteps /\ \A d \in Dev : Feed(d) \in RunSteps /\ RunOne(d) \in RunSteps
<1>1. ASSUME NEW d \in Dev PROVE Feed(d) \in RunSteps
  BY DEF RunSteps, IsRun, RunNames, Feed, Steps, Cmds, Names
<1>2. ASSUME NEW d \in Dev PROVE RunOne(d) \in RunSteps
  BY DEF RunSteps, IsRun, RunNames, RunOne, Steps, Cmds, Names
<1>3. Drain \in RunSteps
  BY Devices DEF RunSteps, IsRun, RunNames, Drain, Steps, Cmds, Names
<1> QED
  BY <1>1, <1>2, <1>3

\* What _run_forward sends for one input ...
LEMMA RunForwardIs ==
  /\ RunForward = FlattenSeq(Feeds) \o <<Drain>>
  /\ Feeds \in Seq(Seq(RunSteps)) /\ Len(Feeds) = N
  /\ RunForward \in Seq(RunSteps)
<1>1. \A d \in Dev : Order(d, "dc_transfer", "forward_input") \o Order(d, "run_forward", "none")
                     = <<Feed(d), RunOne(d)>>
  BY Pair DEF Order, Feed, RunOne
<1>2. [d \in Dev |-> Order(d, "dc_transfer", "forward_input") \o Order(d, "run_forward", "none")] = Feeds
  BY <1>1 DEF Feeds, Dev
<1>3. Order(N, "dc_transfer", "forward") = <<Drain>>
  BY DEF Order, Drain
<1>4. RunForward = FlattenSeq(Feeds) \o <<Drain>>
  BY <1>2, <1>3 DEF RunForward, EachDevice
<1>5. Feeds \in Seq(Seq(RunSteps)) /\ Len(Feeds) = N
  BY RunStepTypes, Devices DEF Feeds
<1>6. FlattenSeq(Feeds) \in Seq(RunSteps) /\ <<Drain>> \in Seq(RunSteps)
  BY <1>5, FlattenType, RunStepTypes
<1> QED
  BY <1>4, <1>5, <1>6

Rounds == [i \in 1 .. InputCount |-> RunForward]
\* ... and for all of them.
LEMMA RunIs ==
  /\ Run = IF training THEN <<>> ELSE FlattenSeq(Rounds)
  /\ Rounds \in Seq(Seq(RunSteps)) /\ Len(Rounds) = InputCount
  /\ Run \in Seq(RunSteps)
<1>1. Rounds \in Seq(Seq(RunSteps)) /\ Len(Rounds) = InputCount
  BY RunForwardIs, Devices DEF Rounds
<1>2. FlattenSeq(Rounds) \in Seq(RunSteps) /\ <<>> \in Seq(RunSteps)
  BY <1>1, FlattenType
<1>3. Run = IF training THEN <<>> ELSE FlattenSeq(Rounds)
  BY DEF Run, Rounds, If
<1> QED
  BY <1>1, <1>2, <1>3

\* What the main thread's script is made of, and where its parts begin.
LEMMA ScriptIs ==
  ASSUME tt \subseteq Dev
  PROVE  LET s == Script("main") IN
         /\ L \in Nat /\ SyncAt \in Nat /\ L < SyncAt /\ QuitAt = SyncAt + N
         /\ s \in Seq(Steps) /\ Len(s) = QuitAt + N - 1
         /\ \A j \in 1 .. L : s[j] = Setup[j]
         /\ \A j \in 1 .. SyncAt - 1 : s[j] = (Setup \o Run)[j]
         /\ \A j \in L + 1 .. SyncAt - 1 : s[j] \in RunSteps
         /\ \A d \in Dev : s[SyncAt + d - 1] = [dev |-> d, cmd |-> "sync", name |-> "none", reply |-> TRUE]
         /\ \A d \in Dev : s[QuitAt + d - 1] = [dev |-> d, cmd |-> "quit", name |-> "none", reply |-> FALSE]
<1> DEFINE s == Script("main")
           p == Setup \o Run
           q == p \o Sync
<1>0. s = ((Setup \o Run) \o Sync) \o Quits
  BY DEF Script
<1>1. Setup \in Seq(Steps) /\ L = Len(Setup) /\ L \in Nat
  BY SetupGood DEF L
<1>2. RunSteps \subseteq Steps /\ Run \in Seq(RunSteps) /\ Run \in Seq(Steps)
  <2>1. RunSteps \subseteq Steps
    BY DEF RunSteps
  <2> QED
    BY <2>1, RunIs, SeqMonotonic
<1>3. /\ p \in Seq(Steps) /\ Len(p) = L + Len(Run)
      /\ \A i \in 1 .. Len(p) : p[i] = IF i <= L THEN Setup[i] ELSE Run[i - L]
  BY <1>1, <1>2, ConcatProperties
<1>4. SyncAt = Len(p) + 1 /\ QuitAt = SyncAt + N
  BY DEF SyncAt, QuitAt
<1> HIDE DEF p
<1>5. /\ q \in Seq(Steps) /\ Len(q) = Len(p) + N
      /\ \A i \in 1 .. Len(q) : q[i] = IF i <= Len(p) THEN p[i] ELSE Sync[i - Len(p)]
  <2>1. Sync \in Seq(Steps) /\ p \in Seq(Steps) /\ Len(Sync) = N
    BY <1>3, SyncIs
  <2>2. /\ p \o Sync \in Seq(Steps) /\ Len(p \o Sync) = Len(p) + Len(Sync)
        /\ \A i \in 1 .. Len(p) + Len(Sync) : (p \o Sync)[i] = IF i <= Len(p) THEN p[i] ELSE Sync[i - Len(p)]
    BY <2>1, ConcatProperties
  <2> QED
    BY <2>1, <2>2
<1>6. s = q \o Quits
  BY <1>0 DEF p
<1> HIDE DEF q, s
<1>7. /\ s \in Seq(Steps) /\ Len(s) = Len(q) + N
      /\ \A i \in 1 .. Len(s) : s[i] = IF i <= Len(q) THEN q[i] ELSE Quits[i - Len(q)]
  BY <1>5, <1>6, QuitsIs, ConcatProperties
<1>8. Len(Run) \in Nat /\ Len(p) \in Nat /\ N \in Nat /\ N >= 1 /\ Dev = 1 .. N
  BY <1>2, <1>3, Devices
<1>9. L < SyncAt /\ SyncAt \in Nat /\ Len(s) = QuitAt + N - 1
  <2>1. Len(s) = Len(q) + N /\ Len(q) = Len(p) + N /\ Len(p) = L + Len(Run)
    BY <1>7, <1>5, <1>3
  <2> QED
    BY <2>1, <1>8, <1>4, <1>1
<1>10. \A j \in 1 .. SyncAt - 1 : s[j] = p[j]
  BY <1>8, <1>7, <1>5, <1>4
<1>11. \A j \in 1 .. L : s[j] = Setup[j]
  BY <1>8, <1>10, <1>3, <1>4, <1>1
<1>12. ASSUME NEW j \in L + 1 .. SyncAt - 1 PROVE s[j] \in RunSteps
  <2>1. j - L \in 1 .. Len(Run) /\ s[j] = Run[j - L]
    BY <1>8, <1>10, <1>3, <1>4, <1>1
  <2> QED
    BY <2>1, <1>2, ElementOfSeq
<1>13. ASSUME NEW d \in Dev
       PROVE  s[SyncAt + d - 1] = [dev |-> d, cmd |-> "sync", name |-> "none", reply |-> TRUE]
  <2>1. s[SyncAt + d - 1] = Sync[d]
    <3>1. SyncAt + d - 1 \in 1 .. Len(q) /\ SyncAt + d - 1 > Len(p) /\ (SyncAt + d - 1) - Len(p) = d
      BY <1>8, <1>5, <1>4
    <3>2. SyncAt + d - 1 \in 1 .. Len(s) /\ SyncAt + d - 1 <= Len(q)
      BY <3>1, <1>8, <1>7, <1>5
    <3> QED
      BY <3>1, <3>2, <1>5, <1>7, <1>8
  <2> QED
    BY <2>1, SyncIs
<1>14. ASSUME NEW d \in Dev
       PROVE  s[QuitAt + d - 1] = [dev |-> d, cmd |-> "quit", name |-> "none", reply |-> FALSE]
  <2>1. s[QuitAt + d - 1] = Quits[d]
    <3>1. QuitAt + d - 1 \in 1 .. Len(s) /\ ~(QuitAt + d - 1 <= Len(q)) /\ (QuitAt + d - 1) - Len(q) = d
      BY <1>8, <1>7, <1>5, <1>4
    <3> QED
      BY <3>1, <1>7
  <2> QED
    BY <2>1, QuitsIs
<1> QED
  BY <1>1, <1>4, <1>7, <1>9, <1>10, <1>11, <1>12, <1>13, <1>14 DEF s, p

\* The script of the training thread has checkpoint requests only, and nothing
\* in inference.
LEMMA LoopIs ==
  /\ Script("loop") \in Seq(Steps)
  /\ ~training => Script("loop") = <<>>
  /\ \A j \in DOMAIN Script("loop") : /\ Script("loop")[j].cmd = "checkpoint" /\ Script("loop")[j].reply
                                      /\ Script("loop")[j].dev = j /\ j \in Dev
<1>1. /\ DOMAIN Checkpoint = Dev
      /\ \A j \in DOMAIN Checkpoint : Checkpoint[j].cmd = "checkpoint" /\ Checkpoint[j].reply /\ Checkpoint[j].dev = j
  BY CheckpointIs, Devices
<1>2. Script("loop") = IF Checkpointing /\ training THEN Checkpoint ELSE <<>>
  BY DEF Script, If
<1>3. Checkpoint \in Seq(Steps) /\ <<>> \in Seq(Steps) /\ DOMAIN <<>> = {}
  BY CheckpointIs
<1> QED
  BY <1>1, <1>2, <1>3

-----------------------------------------------------------------------------
(* The steps of the system, one by one.                                    *)

\* What stands for the whole run: the pipeline and the scripts made for it.
LEMMA Same ==
  ASSUME tt' = tt, training' = training
  PROVE  /\ Script("main")' = Script("main") /\ Script("loop")' = Script("loop")
         /\ Setup' = Setup /\ L' = L /\ SyncAt' = SyncAt /\ QuitAt' = QuitAt /\ Inputs' = Inputs
         /\ Pushers' = Pushers
         /\ \A d \in Dev : PushDirection(d)' = PushDirection(d) /\ Target(d)' = Target(d)
<1>1. Setup' = Setup
  BY DEF Setup, CompileDevices, PassDescriptors, EachDevice, If, Pass, Request, Order
<1>2. Run' = Run
  BY DEF Run, RunForward, EachDevice, If, Order
<1>3. Script("main")' = Script("main")
  BY <1>1, <1>2 DEF Script, Sync, Quits, EachDevice, Request, Order
<1>4. Script("loop")' = Script("loop")
  BY DEF Script, If, Checkpoint, EachDevice, Request
<1>5. L' = L /\ SyncAt' = SyncAt /\ QuitAt' = QuitAt /\ Inputs' = Inputs
  BY <1>1, <1>2 DEF L, SyncAt, QuitAt, Inputs
<1>6. /\ Pushers' = Pushers
      /\ \A d \in Dev : PushDirection(d)' = PushDirection(d) /\ Target(d)' = Target(d)
  BY DEF Pushers, PushDirection, Target
<1> QED
  BY <1>1, <1>3, <1>4, <1>5, <1>6

\* The commands one device process runs.
Ran(d, c) ==
    /\ d \in Dev /\ dpc[d] = "next" /\ cmdq[d] # <<>> /\ c = Head(cmdq[d])
    /\ cmdq' = [cmdq EXCEPT ![d] = Tail(@)]
    /\ UNCHANGED <<tt, training, clientVars, data, buf, out, pushVars, event>>
RanCompile(d, c) == Ran(d, c) /\ c.cmd = "compile" /\ RunCompile(d)
RanGet(d, c) == Ran(d, c) /\ c.cmd = "get_queues" /\ RunGetQueues(d, c)
RanSet(d, c) == Ran(d, c) /\ c.cmd = "set_queues" /\ RunSetQueues(d, c)
RanTransfer(d, c) == Ran(d, c) /\ c.cmd = "dc_transfer" /\ RunTransfer(d, c)
RanForward(d, c) == Ran(d, c) /\ c.cmd = "run_forward" /\ RunRunForward(d)
RanSync(d, c) == Ran(d, c) /\ c.cmd = "sync" /\ RunSync(d)
RanCheckpoint(d, c) == Ran(d, c) /\ c.cmd = "checkpoint" /\ RunCheckpoint(d)
RanQuit(d, c) == Ran(d, c) /\ c.cmd = "quit" /\ Goto(d, "threads")
                 /\ UNCHANGED <<resp, compiled, conn, progs, moves>>

ClientStep(t) == Send(t) \/ StopRun(t) \/ GetResponse(t) \/ NoResponse(t)
MainStep == SkipSync \/ PassBarrier \/ BarrierBroken \/ LoopJoined \/ Joined \/ Reap
CommandStep(d) ==
    \E c : \/ RanCompile(d, c) \/ RanGet(d, c) \/ RanSet(d, c) \/ RanTransfer(d, c)
           \/ RanForward(d, c) \/ RanSync(d, c) \/ RanCheckpoint(d, c) \/ RanQuit(d, c)
DeviceStep(d) ==
    \/ SeeShutdown(d) \/ CommandRaises(d) \/ Forward(d) \/ ForwardAbandoned(d)
    \/ ThreadsShutDown(d) \/ Close(d)
BesideStep(d) == Transfer(d) \/ Pusher(d) \/ RunProgram(d)
Steps0 ==
    \/ \E t \in Threads : ClientStep(t)
    \/ MainStep
    \/ \E d \in Dev : CommandStep(d) \/ DeviceStep(d) \/ BesideStep(d)
    \/ UNCHANGED vars

\* Every step is one of these.
LEMMA NextSteps ==
  ASSUME [Next]_vars
  PROVE  Steps0
<1>1. CASE Main
  BY <1>1 DEF Main, Client, Steps0, ClientStep, MainStep, Threads
<1>2. CASE Client("loop")
  BY <1>2 DEF Client, Steps0, ClientStep, Threads
<1>3. ASSUME NEW d \in Dev, Device(d) \/ Transfer(d) \/ Pusher(d) \/ RunProgram(d) PROVE Steps0
  <2>1. CASE NextCommand(d)
    <3>1. Ran(d, Head(cmdq[d]))
      BY <2>1 DEF NextCommand, Ran
    <3>2. CommandStep(d)
      <4> DEFINE c == Head(cmdq[d])
      <4>1. \/ RanCompile(d, c) \/ RanGet(d, c) \/ RanSet(d, c) \/ RanTransfer(d, c)
            \/ RanForward(d, c) \/ RanSync(d, c) \/ RanCheckpoint(d, c) \/ RanQuit(d, c)
        BY <2>1, <3>1 DEF NextCommand, RanCompile, RanGet, RanSet, RanTransfer, RanForward, RanSync, RanCheckpoint, RanQuit
      <4> HIDE DEF c
      <4> QED
        BY <4>1 DEF CommandStep
    <3> QED
      BY <3>2 DEF Steps0
  <2> QED
    BY <1>3, <2>1 DEF Device, Steps0, DeviceStep, BesideStep
<1>4. CASE Done \/ UNCHANGED vars
  BY <1>4 DEF Done, Steps0
<1> QED
  BY <1>1, <1>2, <1>3, <1>4 DEF Next

-----------------------------------------------------------------------------
(* Types.                                                                  *)

\* A function with one value replaced.
LEMMA PutIn ==
  ASSUME NEW S, NEW T, NEW f \in [S -> T], NEW x, NEW v \in T
  PROVE  [f EXCEPT ![x] = v] \in [S -> T]
OBVIOUS

\* The TTDevices are devices, no two of them adjacent.
LEMMA TypeFacts ==
  ASSUME TypeOK
  PROVE  tt \subseteq Dev /\ \A d \in tt : d + 1 \notin tt
BY Devices DEF TypeOK

\* The step a thread is at.
LEMMA StepIs ==
  ASSUME TypeOK, NEW t \in Threads, at[t] <= Len(Script(t))
  PROVE  Step(t) \in Steps /\ at[t] \in DOMAIN Script(t)
<1>1. Script(t) \in Seq(Steps)
  BY ScriptIs, LoopIs, TypeFacts DEF Threads
<1>2. at[t] \in Nat \ {0}
  BY DEF TypeOK
<1> QED
  BY <1>1, <1>2, ElementOfSeq DEF Step

\* Send keeps the types ...
LEMMA SendType ==
  ASSUME TypeInv, NEW t \in Threads, Send(t)
  PROVE  TypeInv'
<1>1. Step(t) \in Steps /\ at[t] <= Len(Script(t)) /\ ~waiting[t]
  BY StepIs DEF Send, CanSend, TypeInv
<1>2. /\ Script("main")' = Script("main") /\ Script("loop")' = Script("loop")
  BY Same DEF Send
<1>3. [cmd |-> Step(t).cmd, name |-> Step(t).name, desc |-> last[t]] \in Commands
  BY <1>1 DEF TypeInv, TypeOK, Steps, Commands
<1>4. TypeOK'
  <2>1. cmdq' \in [Dev -> Seq(Commands)]
    BY <1>1, <1>3 DEF TypeInv, TypeOK, Send, Steps
  <2>2. waiting' \in [Threads -> BOOLEAN] /\ at' \in [Threads -> Nat \ {0}]
    BY <1>1 DEF TypeInv, TypeOK, Send, Steps
  <2> QED
    BY <2>1, <2>2 DEF TypeInv, TypeOK, Send, clientVars, deviceVars, flowVars, pushVars
<1>5. Waits'
  BY <1>1, <1>2 DEF TypeInv, TypeOK, Waits, Send, Step, Threads
<1> QED
  BY <1>4, <1>5 DEF TypeInv

\* ... StopRun does ...
LEMMA StopType ==
  ASSUME TypeInv, NEW t \in Threads, StopRun(t)
  PROVE  TypeInv'
<1>1. /\ Script("main")' = Script("main") /\ Script("loop")' = Script("loop")
  BY Same DEF StopRun
<1>2. SyncAt \in Nat /\ SyncAt > 0
  BY ScriptIs, TypeFacts DEF TypeInv
<1>3. TypeOK'
  BY <1>2 DEF TypeInv, TypeOK, StopRun, clientVars, deviceVars, flowVars, pushVars
<1>4. Waits'
  BY <1>1 DEF TypeInv, TypeOK, Waits, StopRun, CanSend, Step, Threads
<1> QED
  BY <1>3, <1>4 DEF TypeInv

\* ... taking an answer does ...
LEMMA AnsweredType ==
  ASSUME TypeInv, NEW t \in Threads, waiting[t], NEW r \in Descs, Answered(t, r),
         UNCHANGED <<tt, training, phase, cmdq, deviceVars, flowVars, pushVars>>,
         resp' \in [Dev -> Seq(Descs)]
  PROVE  TypeInv'
<1>1. /\ Script("main")' = Script("main") /\ Script("loop")' = Script("loop")
  BY Same
<1>2. QuitAt \in Nat /\ QuitAt > 0
  BY ScriptIs, TypeFacts, Devices DEF TypeInv
<1>3. at' \in [Threads -> Nat \ {0}] /\ waiting' \in [Threads -> BOOLEAN] /\ last' \in [Threads -> Descs]
  BY <1>2 DEF TypeInv, TypeOK, Answered
<1>4. synced' \in BOOLEAN /\ event' \in BOOLEAN
  BY DEF TypeInv, TypeOK, Answered
<1>5. TypeOK'
  BY <1>3, <1>4 DEF TypeInv, TypeOK, clientVars, deviceVars, flowVars, pushVars
<1>6. Waits'
  BY <1>1 DEF TypeInv, TypeOK, Waits, Answered, Step, Threads
<1> QED
  BY <1>5, <1>6 DEF TypeInv

\* ... which GetResponse ...
LEMMA ResponseType ==
  ASSUME TypeInv, NEW t \in Threads, GetResponse(t)
  PROVE  TypeInv' /\ Step(t) \in Steps /\ Head(resp[Step(t).dev]) \in Descs
<1>1. Step(t) \in Steps /\ Step(t).dev \in Dev /\ waiting[t]
  BY StepIs DEF GetResponse, TypeInv, Waits, Steps
<1>2. resp[Step(t).dev] \in Seq(Descs) /\ resp[Step(t).dev] # <<>>
  BY <1>1 DEF GetResponse, TypeInv, TypeOK
<1>3. Head(resp[Step(t).dev]) \in Descs /\ Tail(resp[Step(t).dev]) \in Seq(Descs)
  BY <1>2
<1>4. resp' \in [Dev -> Seq(Descs)]
  BY <1>1, <1>3 DEF GetResponse, TypeInv, TypeOK
<1>5. TypeInv'
  BY <1>1, <1>3, <1>4, AnsweredType DEF GetResponse
<1> QED
  BY <1>1, <1>3, <1>5

\* The two answers that are none.
LEMMA NoneIs == None \in Descs /\ Failure \in Descs /\ None # Failure
BY DEF None, Failure, Descs, Names

\* ... and NoResponse do.
LEMMA NoResponseType ==
  ASSUME TypeInv, NEW t \in Threads, NoResponse(t)
  PROVE  TypeInv'
<1>1. resp' \in [Dev -> Seq(Descs)]
  BY DEF NoResponse, TypeInv, TypeOK
<1> QED
  BY <1>1, NoneIs, AnsweredType DEF NoResponse

\* A thread that waits does so at a step that has an answer; steps of others
\* leave it there.
LEMMA SameWaits ==
  ASSUME Waits, tt' = tt, training' = training, at' = at, waiting' = waiting
  PROVE  Waits'
<1>1. /\ Script("main")' = Script("main") /\ Script("loop")' = Script("loop")
  BY Same
<1> QED
  BY <1>1 DEF Waits, Step, Threads

\* The steps of the main thread's shutdown keep the types ...
LEMMA MainType ==
  ASSUME TypeInv, MainStep
  PROVE  TypeInv'
<1>1. tt' = tt /\ training' = training
  BY DEF MainStep, SkipSync, PassBarrier, BarrierBroken, LoopJoined, Joined, Reap
<1>2. /\ Script("main")' = Script("main") /\ Script("loop")' = Script("loop")
  BY <1>1, Same
<1>3. QuitAt \in Nat /\ QuitAt > 0
  BY ScriptIs, TypeFacts, Devices DEF TypeInv
<1>4. CASE SkipSync
  <2>1. TypeOK'
    <3>1. at' \in [Threads -> Nat \ {0}]
      <4>1. at \in [Threads -> Nat \ {0}] /\ QuitAt \in Nat \ {0}
        BY <1>3 DEF TypeInv, TypeOK
      <4>2. at' = [at EXCEPT !["main"] = QuitAt]
        BY <1>4 DEF SkipSync
      <4> QED
        BY <4>1, <4>2, PutIn
    <3> QED
      BY <3>1, <1>4 DEF SkipSync, TypeInv, TypeOK, deviceVars, flowVars, pushVars
  <2>2. Waits'
    BY <1>2, <1>4 DEF SkipSync, CanSend, TypeInv, Waits, TypeOK, Step, Threads
  <2> QED
    BY <2>1, <2>2 DEF TypeInv
<1>5. CASE PassBarrier \/ BarrierBroken \/ LoopJoined \/ Joined
  <2>1. TypeOK'
    BY <1>5 DEF PassBarrier, BarrierBroken, LoopJoined, Joined, TypeInv, TypeOK,
                deviceVars, flowVars, pushVars
  <2>2. Waits'
    BY <1>5, SameWaits DEF PassBarrier, BarrierBroken, LoopJoined, Joined, TypeInv
  <2> QED
    BY <2>1, <2>2 DEF TypeInv
<1>6. CASE Reap
  <2>1. TypeOK'
    BY <1>6 DEF Reap, TypeInv, TypeOK, flowVars
  <2>2. Waits'
    BY <1>6, SameWaits DEF Reap, TypeInv
  <2> QED
    BY <2>1, <2>2 DEF TypeInv
<1> QED
  BY <1>4, <1>5, <1>6 DEF MainStep

\* ... an answer does ...
LEMMA ReplyType ==
  ASSUME TypeOK, NEW d \in Dev, NEW r \in Descs, Reply(d, r)
  PROVE  resp' \in [Dev -> Seq(Descs)]
BY DEF TypeOK, Reply

\* The command at the head of a queue, and the queue without it.
LEMMA HeadIs ==
  ASSUME TypeOK, NEW d \in Dev, cmdq[d] # <<>>
  PROVE  /\ Head(cmdq[d]) \in Commands /\ Tail(cmdq[d]) \in Seq(Commands)
         /\ Len(cmdq[d]) \in Nat /\ Len(cmdq[d]) > 0 /\ Len(Tail(cmdq[d])) = Len(cmdq[d]) - 1
         /\ Head(cmdq[d]) = cmdq[d][1]
         /\ \A i \in 1 .. Len(cmdq[d]) - 1 : Tail(cmdq[d])[i] = cmdq[d][i + 1]
<1>1. cmdq[d] \in Seq(Commands)
  BY DEF TypeOK
<1> QED
  BY <1>1, HeadTailProperties

\* ... running a command does ...
LEMMA CommandType ==
  ASSUME TypeInv, NEW d \in Dev, CommandStep(d)
  PROVE  TypeInv'
<1>1. PICK c : \/ RanCompile(d, c) \/ RanGet(d, c) \/ RanSet(d, c) \/ RanTransfer(d, c)
               \/ RanForward(d, c) \/ RanSync(d, c) \/ RanCheckpoint(d, c) \/ RanQuit(d, c)
  BY DEF CommandStep
<1>2. Ran(d, c)
  BY <1>1 DEF RanCompile, RanGet, RanSet, RanTransfer, RanForward, RanSync, RanCheckpoint, RanQuit
<1>3. c \in Commands /\ cmdq' \in [Dev -> Seq(Commands)]
  BY <1>2, HeadIs DEF Ran, TypeInv, TypeOK
<1>4. Waits'
  BY <1>2, SameWaits DEF Ran, clientVars, TypeInv
<1>5. [dev |-> d, queue |-> "outputs"] \in Descs /\ [dev |-> d, queue |-> "sync"] \in Descs
      /\ [dev |-> d, queue |-> "checkpoint"] \in Descs /\ [dev |-> d, queue |-> c.name] \in Descs
  BY <1>3, Devices DEF Descs, Names, Commands
<1>6. resp' \in [Dev -> Seq(Descs)]
  <2>1. resp' = resp \/ \E r \in Descs : Reply(d, r)
    BY <1>1, <1>5, NoneIs DEF RanCompile, RanGet, RanSet, RanTransfer, RanForward, RanSync, RanCheckpoint, RanQuit,
       RunCompile, RunGetQueues, RunSetQueues, RunTransfer, RunRunForward, RunSync, RunCheckpoint
  <2> QED
    BY <2>1, ReplyType DEF TypeInv, TypeOK
<1>7. compiled' \subseteq Dev /\ DOMAIN conn' = Dev
  BY <1>1 DEF RanCompile, RanGet, RanSet, RanTransfer, RanForward, RanSync, RanCheckpoint, RanQuit,
       RunCompile, RunGetQueues, RunSetQueues, RunTransfer, RunRunForward, RunSync, RunCheckpoint,
       TypeInv, TypeOK, deviceVars
<1>8. dpc' \in [Dev -> {"next", "forward", "threads", "barrier", "closed"}]
  BY <1>1 DEF RanCompile, RanGet, RanSet, RanTransfer, RanForward, RanSync, RanCheckpoint, RanQuit,
       RunCompile, RunGetQueues, RunSetQueues, RunTransfer, RunRunForward, RunSync, RunCheckpoint,
       TypeInv, TypeOK, deviceVars, Goto
<1>9. progs' \in [Dev -> Nat] /\ moves' \in [Dev -> Nat]
  <2>1. progs' = progs \/ progs' = [progs EXCEPT ![d] = @ + 1]
    BY <1>1 DEF RanCompile, RanGet, RanSet, RanTransfer, RanForward, RanSync, RanCheckpoint, RanQuit,
       RunCompile, RunGetQueues, RunSetQueues, RunTransfer, RunRunForward, RunSync, RunCheckpoint
  <2>2. moves' = moves \/ moves' = [moves EXCEPT ![d] = @ + 1] \/ moves' = [moves EXCEPT ![d] = @]
    BY <1>1 DEF RanCompile, RanGet, RanSet, RanTransfer, RanForward, RanSync, RanCheckpoint, RanQuit,
       RunCompile, RunGetQueues, RunSetQueues, RunTransfer, RunRunForward, RunSync, RunCheckpoint
  <2>3. progs \in [Dev -> Nat] /\ moves \in [Dev -> Nat]
    BY DEF TypeInv, TypeOK
  <2> QED
    BY <2>1, <2>2, <2>3
<1>10. TypeOK'
  BY <1>2, <1>3, <1>6, <1>7, <1>8, <1>9 DEF Ran, TypeInv, TypeOK, clientVars, pushVars
<1> QED
  BY <1>4, <1>10 DEF TypeInv

\* ... and what else a device process does ...
LEMMA DeviceType ==
  ASSUME TypeInv, NEW d \in Dev, DeviceStep(d)
  PROVE  TypeInv'
<1>1. Waits'
  BY SameWaits DEF DeviceStep, SeeShutdown, CommandRaises, Forward, ForwardAbandoned, ThreadsShutDown,
                   Close, clientVars, TypeInv
<1>2. CASE SeeShutdown(d)
  BY <1>1, <1>2 DEF SeeShutdown, Goto, TypeInv, TypeOK, clientVars, flowVars, pushVars
<1>3. CASE CommandRaises(d)
  BY <1>1, <1>3, HeadIs DEF CommandRaises, Goto, TypeInv, TypeOK, clientVars, flowVars, pushVars
<1>4. CASE Forward(d)
  <2>1. d \in Places /\ d + 1 \in Places
    BY Devices DEF Places
  <2>2. data[d] \in Seq(Int) /\ Head(data[d]) \in Int /\ Tail(data[d]) \in Seq(Int)
    BY <1>4, <2>1 DEF Forward, TypeInv, TypeOK
  <2>3. pq' \in [Dev -> Seq(Int)] /\ out' \in Seq(Int)
    <3>1. pq \in [Dev -> Seq(Int)] /\ out \in Seq(Int)
      BY DEF TypeInv, TypeOK
    <3>2. pq' = pq \/ pq' = [pq EXCEPT ![d] = Append(@, Head(data[d]))]
      BY <1>4 DEF Forward
    <3>3. out' = out \/ out' = Append(out, Head(data[d]))
      BY <1>4 DEF Forward
    <3>4. pq[d] \in Seq(Int)
      BY <3>1
    <3>5. Append(pq[d], Head(data[d])) \in Seq(Int) /\ Append(out, Head(data[d])) \in Seq(Int)
      BY <3>1, <3>4, <2>2, AppendProperties
    <3> QED
      BY <3>1, <3>2, <3>3, <3>5, PutIn
  <2>4. data' \in [Places -> Seq(Int)]
    <3>1. data \in [Places -> Seq(Int)]
      BY DEF TypeInv, TypeOK
    <3>2. \/ data' = [data EXCEPT ![d] = Tail(@)]
          \/ data' = [[data EXCEPT ![d] = Tail(@)] EXCEPT ![d + 1] = Append(@, Head(data[d]))]
      BY <1>4 DEF Forward
    <3>3. [data EXCEPT ![d] = Tail(@)] \in [Places -> Seq(Int)]
      BY <3>1, <2>2, PutIn
    <3>4. Append(data[d + 1], Head(data[d])) \in Seq(Int)
      BY <3>1, <2>1, <2>2, AppendProperties
    <3>5. [data EXCEPT ![d] = Tail(@)][d + 1] = data[d + 1]
      BY <3>1, <2>1, Devices
    <3>6. [[data EXCEPT ![d] = Tail(@)] EXCEPT ![d + 1] = Append(@, Head(data[d]))] \in [Places -> Seq(Int)]
      BY <3>3, <3>4, <3>5, PutIn
    <3> QED
      BY <3>2, <3>3, <3>6
  <2>5. dpc' \in [Dev -> {"next", "forward", "threads", "barrier", "closed"}]
    BY <1>4 DEF Forward, Goto, TypeInv, TypeOK
  <2>6. UNCHANGED <<tt, training, clientVars, cmdq, resp, compiled, conn, progs, moves, buf, ppc, held, event>>
    BY <1>4 DEF Forward
  <2> QED
    BY <1>1, <2>3, <2>4, <2>5, <2>6 DEF TypeInv, TypeOK, clientVars
<1>5. CASE ForwardAbandoned(d)
  BY <1>1, <1>5 DEF ForwardAbandoned, Goto, TypeInv, TypeOK, clientVars, flowVars, pushVars
<1>6. CASE ThreadsShutDown(d)
  BY <1>1, <1>6 DEF ThreadsShutDown, Goto, Quit, TypeInv, TypeOK, clientVars, flowVars, pushVars
<1>7. CASE Close(d)
  BY <1>1, <1>7 DEF Close, Goto, Quit, TypeInv, TypeOK, clientVars, flowVars, pushVars
<1> QED
  BY <1>2, <1>3, <1>4, <1>5, <1>6, <1>7 DEF DeviceStep

\* ... and the threads beside it and the device.
LEMMA BesideType ==
  ASSUME TypeInv, NEW d \in Dev, BesideStep(d)
  PROVE  TypeInv'
<1>1. Waits'
  BY SameWaits DEF BesideStep, Pusher, Transfer, PusherGet, PusherSeesShutdown, InternalPush, PushRaises,
                   RunProgram, clientVars, TypeInv
<1>2. N + 1 \in Places /\ d \in Places /\ d + 1 \in Places /\ Target(d) \in Places
  BY Devices DEF Places, Target
<1>3. CASE Transfer(d)
  <2>0. /\ moves \in [Dev -> Nat] /\ pq \in [Dev -> Seq(Int)] /\ buf \in Seq(Int)
        /\ out \in Seq(Int) /\ data \in [Places -> Seq(Int)] /\ data[N + 1] \in Seq(Int)
    BY <1>2 DEF TypeInv, TypeOK
  <2>1. moves' \in [Dev -> Nat]
    BY <2>0, <1>3 DEF Transfer
  <2>2. /\ pq' \in [Dev -> Seq(Int)] /\ buf' \in Seq(Int)
        /\ out' \in Seq(Int) /\ data' \in [Places -> Seq(Int)]
    <3>1. CASE /\ buf # <<>> \/ event
               /\ pq' = [pq EXCEPT ![d] = Append(@, IF buf = <<>> THEN NoTensors ELSE Head(buf))]
               /\ buf' = If(buf # <<>>, Tail(buf))
               /\ UNCHANGED <<data, out>>
      <4>1. (IF buf = <<>> THEN NoTensors ELSE Head(buf)) \in Int /\ buf' \in Seq(Int)
        BY <2>0, <3>1 DEF If, NoTensors
      <4> QED
        BY <2>0, <3>1, <4>1
    <3>2. CASE /\ data[N + 1] # <<>> \/ event
               /\ out' = Append(out, IF data[N + 1] = <<>> THEN NoTensors ELSE Head(data[N + 1]))
               /\ data' = [data EXCEPT ![N + 1] = If(@ # <<>>, Tail(@))]
               /\ UNCHANGED <<pq, buf>>
      <4>1. /\ (IF data[N + 1] = <<>> THEN NoTensors ELSE Head(data[N + 1])) \in Int
            /\ If(data[N + 1] # <<>>, Tail(data[N + 1])) \in Seq(Int)
        BY <2>0 DEF If, NoTensors
      <4>2. out' \in Seq(Int)
        BY <2>0, <3>2, <4>1, AppendProperties
      <4>3. data' \in [Places -> Seq(Int)]
        BY <2>0, <3>2, <4>1, PutIn
      <4> QED
        BY <2>0, <3>2, <4>2, <4>3
    <3> QED
      BY <1>3, <3>1, <3>2 DEF Transfer
  <2>3. UNCHANGED <<tt, training, clientVars, cmdq, resp, deviceVars, progs, ppc, held, event>>
    BY <1>3 DEF Transfer
  <2> QED
    BY <1>1, <2>1, <2>2, <2>3 DEF TypeInv, TypeOK, clientVars, deviceVars
<1>4. CASE PusherGet(d)
  <2>1. pq \in [Dev -> Seq(Int)] /\ pq[d] \in Seq(Int) /\ held \in [Dev -> Int]
    BY DEF TypeInv, TypeOK
  <2>2. pq' \in [Dev -> Seq(Int)]
    <3>1. Tail(pq[d]) \in Seq(Int) /\ pq' = [pq EXCEPT ![d] = Tail(pq[d])]
      BY <1>4, <2>1 DEF PusherGet
    <3> QED
      BY <2>1, <3>1, PutIn
  <2>3. held' \in [Dev -> Int]
    <3>1. Head(pq[d]) \in Int /\ held' = [held EXCEPT ![d] = Head(pq[d])]
      BY <1>4, <2>1 DEF PusherGet
    <3> QED
      BY <2>1, <3>1, PutIn
  <2>4. ppc' \in [Dev -> {"poll", "push", "ended", "dead"}]
    BY <1>4 DEF PusherGet, TypeInv, TypeOK
  <2>5. UNCHANGED <<tt, training, clientVars, cmdq, resp, deviceVars, flowVars, event>>
    BY <1>4 DEF PusherGet
  <2> QED
    BY <1>1, <2>2, <2>3, <2>4, <2>5 DEF TypeInv, TypeOK, clientVars, deviceVars, flowVars
<1>5. CASE PusherSeesShutdown(d)
  BY <1>1, <1>5 DEF PusherSeesShutdown, TypeInv, TypeOK, clientVars, deviceVars, flowVars
<1>6. CASE InternalPush(d)
  <2>1. data \in [Places -> Seq(Int)] /\ data[Target(d)] \in Seq(Int) /\ held[d] \in Int
    BY <1>2 DEF TypeInv, TypeOK
  <2>2. data' \in [Places -> Seq(Int)]
    <3>1. data' = [data EXCEPT ![Target(d)] = Append(data[Target(d)], held[d])]
      BY <1>6 DEF InternalPush
    <3>2. Append(data[Target(d)], held[d]) \in Seq(Int)
      BY <2>1, AppendProperties
    <3> QED
      BY <2>1, <3>1, <3>2, PutIn
  <2>3. ppc' \in [Dev -> {"poll", "push", "ended", "dead"}]
    BY <1>6 DEF InternalPush, TypeInv, TypeOK
  <2>4. UNCHANGED <<tt, training, clientVars, cmdq, resp, deviceVars, progs, moves, buf, out, pq, held, event>>
    BY <1>6 DEF InternalPush
  <2> QED
    BY <1>1, <2>2, <2>3, <2>4 DEF TypeInv, TypeOK, clientVars, deviceVars
<1>7. CASE PushRaises(d)
  BY <1>1, <1>7 DEF PushRaises, TypeInv, TypeOK, clientVars, deviceVars, flowVars
<1>8. CASE RunProgram(d)
  <2>0. data \in [Places -> Seq(Int)] /\ data[d] \in Seq(Int) /\ data[d + 1] \in Seq(Int) /\ progs \in [Dev -> Nat]
    BY <1>2 DEF TypeInv, TypeOK
  <2>1. Head(data[d]) \in Int /\ Tail(data[d]) \in Seq(Int)
    BY <1>8, <2>0 DEF RunProgram
  <2>2. data' \in [Places -> Seq(Int)] /\ progs' \in [Dev -> Nat]
    <3>1. Append(data[d + 1], Head(data[d])) \in Seq(Int) /\ progs[d] - 1 \in Nat
      BY <1>8, <2>0, <2>1, AppendProperties DEF RunProgram
    <3>2. [data EXCEPT ![d] = Tail(data[d])] \in [Places -> Seq(Int)]
      BY <2>0, <2>1, PutIn
    <3>3. [data EXCEPT ![d] = Tail(data[d])][d + 1] = data[d + 1]
      BY <2>0, <1>2, Devices
    <3>4. data' = [[data EXCEPT ![d] = Tail(data[d])] EXCEPT ![d + 1] = Append(data[d + 1], Head(data[d]))]
      BY <1>8, <3>3, <2>0, <1>2 DEF RunProgram
    <3>5. progs' = [progs EXCEPT ![d] = progs[d] - 1]
      BY <1>8, <2>0 DEF RunProgram
    <3> QED
      BY <3>1, <3>2, <3>4, <3>5, <2>0, PutIn
  <2> QED
    BY <1>1, <1>8, <2>2 DEF RunProgram, TypeInv, TypeOK, clientVars, deviceVars, pushVars
<1> QED
  BY <1>3, <1>4, <1>5, <1>6, <1>7, <1>8 DEF BesideStep, Pusher

\* Every step keeps the types.
LEMMA TypeStep ==
  ASSUME TypeInv, [Next]_vars
  PROVE  TypeInv'
<1>1. Steps0
  BY NextSteps
<1>2. ASSUME NEW t \in Threads, ClientStep(t) PROVE TypeInv'
  BY <1>2, SendType, StopType, ResponseType, NoResponseType DEF ClientStep
<1>3. CASE UNCHANGED vars
  <2>1. Waits'
    BY <1>3, SameWaits DEF vars, clientVars, TypeInv
  <2> QED
    BY <1>3, <2>1 DEF TypeInv, TypeOK, vars, clientVars, deviceVars, flowVars, pushVars
<1> QED
  BY <1>1, <1>2, <1>3, MainType, CommandType, DeviceType, BesideType DEF Steps0

\* The types hold at first.
LEMMA InitType ==
  ASSUME Init
  PROVE  TypeInv
<1>1. tt \subseteq Dev /\ training \in BOOLEAN
  BY Devices DEF Init
<1>2. [i \in 1 .. InputCount |-> i] \in Seq(Int) /\ <<>> \in Seq(Int)
  BY Devices
<1>3. buf \in Seq(Int) /\ data \in [Places -> Seq(Int)]
  BY <1>2 DEF Init, If, Places
<1>4. TypeOK
  <2>1. /\ at \in [Threads -> Nat \ {0}] /\ waiting \in [Threads -> BOOLEAN]
        /\ last \in [Threads -> Descs]
    BY NoneIs DEF Init
  <2>2. cmdq \in [Dev -> Seq(Commands)] /\ resp \in [Dev -> Seq(Descs)] /\ pq \in [Dev -> Seq(Int)]
    BY DEF Init
  <2>3. /\ dpc \in [Dev -> {"next", "forward", "threads", "barrier", "closed"}]
        /\ compiled \subseteq Dev /\ DOMAIN conn = Dev
        /\ progs \in [Dev -> Nat] /\ moves \in [Dev -> Nat]
        /\ ppc \in [Dev -> {"poll", "push", "ended", "dead"}]
        /\ held \in [Dev -> Int]
    BY DEF Init, NoTensors
  <2>4. /\ tt \in Pipelines /\ phase = "running" /\ synced \in BOOLEAN /\ event \in BOOLEAN /\ out \in Seq(Int)
    BY <1>2 DEF Init
  <2> QED
    BY <1>1, <1>3, <2>1, <2>2, <2>3, <2>4 DEF TypeOK
<1>5. Waits
  BY DEF Init, Waits
<1> QED
  BY <1>4, <1>5 DEF TypeInv

-----------------------------------------------------------------------------
(* What the main thread does where.                                        *)

\* What a step of the main thread is, by where it is.
MainFacts(s) ==
    /\ s \in Steps /\ s.dev \in Dev /\ s.name \in Names /\ A \in Nat /\ A > 0
    /\ s.reply => s.cmd \in {"compile", "get_queues", "sync"}
    /\ ~s.reply => s.cmd \in {"set_queues", "dc_transfer", "run_forward", "quit"}
    /\ A <= L => s = Setup[A] /\ s.cmd \in {"compile", "get_queues", "set_queues"}
    /\ s.cmd \in {"compile", "get_queues", "set_queues"} => A <= L
    /\ s.cmd = "set_queues" => /\ s.name \in Directions /\ A > 1
                               /\ Setup[A - 1].cmd = "get_queues"
                               /\ [dev |-> Setup[A - 1].dev, queue |-> Setup[A - 1].name] = Peer(s.dev, s.name)
    /\ s.cmd \in {"dc_transfer", "run_forward"} => A > L /\ A < SyncAt
    /\ s.cmd = "sync" => A \in SyncAt .. QuitAt - 1 /\ A = SyncAt + s.dev - 1 /\ s.name = "none"
    /\ s.cmd = "quit" => A \in QuitAt .. QuitAt + N - 1 /\ A = QuitAt + s.dev - 1

\* Where a thread is says which command it sends.
LEMMA MainSteps ==
  ASSUME TypeOK, A <= Len(Script("main"))
  PROVE  MainFacts(Step("main"))
<1> DEFINE s == Step("main")
           S == Script("main")
<1>1. /\ L \in Nat /\ SyncAt \in Nat /\ L < SyncAt /\ QuitAt = SyncAt + N
      /\ S \in Seq(Steps) /\ Len(S) = QuitAt + N - 1
      /\ \A j \in 1 .. L : S[j] = Setup[j]
      /\ \A j \in L + 1 .. SyncAt - 1 : S[j] \in RunSteps
      /\ \A d \in Dev : S[SyncAt + d - 1] = [dev |-> d, cmd |-> "sync", name |-> "none", reply |-> TRUE]
      /\ \A d \in Dev : S[QuitAt + d - 1] = [dev |-> d, cmd |-> "quit", name |-> "none", reply |-> FALSE]
  BY ScriptIs, TypeFacts
<1>2. A \in Nat /\ A > 0 /\ s = S[A] /\ N \in Nat /\ Dev = 1 .. N
  BY Devices DEF TypeOK, A, Threads, Step
<1>3. s \in Steps
  BY StepIs DEF Threads, A
<1>4. s.dev \in Dev /\ s.name \in Names /\ s.reply \in BOOLEAN
  BY <1>3 DEF Steps
<1> SUFFICES MainFacts(s)
  OBVIOUS
<1>5. CASE A <= L
  <2>1. s = Setup[A] /\ GoodSetup(Setup) /\ A \in DOMAIN Setup
    BY <1>1, <1>2, <1>5, SetupGood, TypeFacts DEF L
  <2>2. \/ s.cmd \in {"compile", "get_queues"} /\ s.reply
        \/ /\ s.cmd = "set_queues" /\ ~s.reply /\ A > 1 /\ s.name \in Directions
           /\ Setup[A - 1].cmd = "get_queues"
           /\ [dev |-> Setup[A - 1].dev, queue |-> Setup[A - 1].name] = Peer(s.dev, s.name)
    BY <2>1 DEF GoodSetup
  <2> HIDE DEF s, S
  <2> QED
    BY <1>1, <1>2, <1>3, <1>4, <1>5, <2>1, <2>2 DEF MainFacts
<1>6. CASE A \in L + 1 .. SyncAt - 1
  <2>1. s \in RunSteps
    BY <1>1, <1>2, <1>6
  <2>2. ~s.reply /\ s.cmd \in {"dc_transfer", "run_forward"}
    BY <2>1 DEF RunSteps, IsRun
  <2> HIDE DEF s, S
  <2> QED
    BY <1>1, <1>2, <1>3, <1>4, <1>6, <2>2 DEF MainFacts
<1>7. CASE A \in SyncAt .. QuitAt - 1
  <2> DEFINE d == A - SyncAt + 1
  <2>1. d \in Dev /\ SyncAt + d - 1 = A
    BY <1>1, <1>2, <1>7
  <2>2. s = [dev |-> d, cmd |-> "sync", name |-> "none", reply |-> TRUE]
    BY <1>1, <1>2, <2>1
  <2>3. s.dev = d /\ s.cmd = "sync" /\ s.name = "none" /\ s.reply
    BY <2>2
  <2> HIDE DEF s, S, d
  <2> QED
    BY <1>1, <1>2, <1>3, <1>4, <1>7, <2>1, <2>3 DEF MainFacts
<1>8. CASE A \in QuitAt .. QuitAt + N - 1
  <2> DEFINE d == A - QuitAt + 1
  <2>1. d \in Dev /\ QuitAt + d - 1 = A
    BY <1>1, <1>2, <1>8
  <2>2. s = [dev |-> d, cmd |-> "quit", name |-> "none", reply |-> FALSE]
    BY <1>1, <1>2, <2>1
  <2>3. s.dev = d /\ s.cmd = "quit" /\ s.name = "none" /\ ~s.reply
    BY <2>2
  <2> HIDE DEF s, S, d
  <2> QED
    BY <1>1, <1>2, <1>3, <1>4, <1>8, <2>1, <2>3 DEF MainFacts
<1> QED
  BY <1>1, <1>2, <1>5, <1>6, <1>7, <1>8

\* The training thread sends checkpoint requests, in training only.
LEMMA LoopSteps ==
  ASSUME TypeOK, at["loop"] <= Len(Script("loop"))
  PROVE  LET s == Step("loop") IN
         s \in Steps /\ s.dev \in Dev /\ s.cmd = "checkpoint" /\ s.reply /\ training
<1>1. Step("loop") \in Steps /\ at["loop"] \in DOMAIN Script("loop")
  BY StepIs DEF Threads
<1>2. training
  BY <1>1, LoopIs
<1> QED
  BY <1>1, <1>2, LoopIs DEF Step, Steps

\* Under the hypothesis of OneRequest the loop thread sends nothing and waits for nothing.
Alone == A <= L \/ (~training /\ ~event)

\* Until the setup is over the training thread sends nothing.
LEMMA LoopIdle ==
  ASSUME TypeInv, LoopLater, Alone
  PROVE  ~waiting["loop"] /\ ~CanSend("loop")
<1>1. ~waiting["loop"]
  BY DEF LoopLater, Alone
<1>2. A \in Nat /\ L \in Nat
  BY ScriptIs, TypeFacts DEF TypeInv, TypeOK, A, Threads
<1> QED
  BY <1>1, <1>2, LoopSteps DEF CanSend, Alone, TypeInv, A, L

\* Only TTDevices have programs and transfers, only pushing connectors a queue.
LEMMA KindsStep ==
  ASSUME TypeInv, Kinds, [Next]_vars
  PROVE  Kinds'
<1>0. tt \subseteq Dev
  BY TypeFacts DEF TypeInv
<1>1. Steps0
  BY NextSteps
<1>2. ASSUME NEW t \in Threads, ClientStep(t) PROVE Kinds'
  BY <1>2, Same DEF ClientStep, Send, StopRun, GetResponse, NoResponse, Kinds, deviceVars, flowVars, pushVars
<1>3. CASE MainStep
  <2>1. /\ tt' = tt /\ training' = training /\ progs' = progs /\ moves' = moves /\ pq' = pq
        /\ \A d \in Dev : dpc'[d] = dpc[d] \/ dpc'[d] = "closed"
        /\ \A d \in Dev : ppc'[d] = ppc[d] \/ ppc'[d] = "ended"
    BY <1>3 DEF MainStep, SkipSync, PassBarrier, BarrierBroken, LoopJoined, Joined, Reap,
                deviceVars, flowVars, pushVars
  <2> QED
    BY <2>1, Same DEF Kinds
<1>4. ASSUME NEW d \in Dev, CommandStep(d) PROVE Kinds'
  <2>1. PICK c : \/ RanCompile(d, c) \/ RanGet(d, c) \/ RanSet(d, c) \/ RanTransfer(d, c)
                 \/ RanForward(d, c) \/ RanSync(d, c) \/ RanCheckpoint(d, c) \/ RanQuit(d, c)
    BY <1>4 DEF CommandStep
  <2>2. Ran(d, c)
    BY <2>1 DEF RanCompile, RanGet, RanSet, RanTransfer, RanForward, RanSync, RanCheckpoint, RanQuit
  <2>3. tt' = tt /\ training' = training /\ pq' = pq /\ ppc' = ppc
    BY <2>2 DEF Ran, pushVars
  <2>4. progs' = progs \/ (d \in tt /\ progs' = [progs EXCEPT ![d] = @ + 1])
    BY <2>1 DEF RanCompile, RanGet, RanSet, RanTransfer, RanForward, RanSync, RanCheckpoint, RanQuit,
       RunCompile, RunGetQueues, RunSetQueues, RunTransfer, RunRunForward, RunSync, RunCheckpoint
  <2>5. \/ moves' = moves \/ moves' = [moves EXCEPT ![d] = @]
        \/ (d \in tt /\ moves' = [moves EXCEPT ![d] = @ + 1])
    BY <2>1 DEF RanCompile, RanGet, RanSet, RanTransfer, RanForward, RanSync, RanCheckpoint, RanQuit,
       RunCompile, RunGetQueues, RunSetQueues, RunTransfer, RunRunForward, RunSync, RunCheckpoint
  <2>6. \/ dpc' = dpc \/ (d \notin tt /\ dpc' = [dpc EXCEPT ![d] = "forward"])
        \/ dpc' = [dpc EXCEPT ![d] = "threads"]
    BY <2>1 DEF RanCompile, RanGet, RanSet, RanTransfer, RanForward, RanSync, RanCheckpoint, RanQuit,
       RunCompile, RunGetQueues, RunSetQueues, RunTransfer, RunRunForward, RunSync, RunCheckpoint,
       deviceVars, Goto
  <2>7. progs \in [Dev -> Nat] /\ moves \in [Dev -> Nat] /\ DOMAIN dpc = Dev
    BY DEF TypeInv, TypeOK
  <2>8. \A e \in Dev : progs'[e] > 0 \/ moves'[e] > 0 => e \in tt
    BY <2>4, <2>5, <2>7 DEF Kinds
  <2>9. \A e \in Dev : dpc'[e] = "forward" => e \notin tt
    BY <2>6, <2>7 DEF Kinds
  <2> QED
    BY <2>3, <2>8, <2>9, Same DEF Kinds
<1>5. ASSUME NEW d \in Dev, DeviceStep(d) PROVE Kinds'
  <2>1. tt' = tt /\ training' = training /\ ppc' = ppc /\ progs' = progs /\ moves' = moves
    BY <1>5 DEF DeviceStep, SeeShutdown, CommandRaises, Forward, ForwardAbandoned, ThreadsShutDown, Close,
                flowVars, pushVars
  <2>2. \A e \in Dev : pq'[e] = pq[e] \/ e \in Pushers
    BY <1>5 DEF DeviceStep, SeeShutdown, CommandRaises, Forward, ForwardAbandoned, ThreadsShutDown, Close,
                TypeInv, TypeOK, pushVars
  <2>3. \A e \in Dev : dpc'[e] = dpc[e] \/ dpc'[e] \in {"next", "barrier", "closed"}
    BY <1>5 DEF DeviceStep, SeeShutdown, CommandRaises, Forward, ForwardAbandoned, ThreadsShutDown, Close,
                TypeInv, TypeOK, Goto
  <2> QED
    BY <2>1, <2>2, <2>3, Same DEF Kinds
<1>6. ASSUME NEW d \in Dev, BesideStep(d) PROVE Kinds'
  <2>1. tt' = tt /\ training' = training /\ dpc' = dpc
    BY <1>6 DEF BesideStep, Transfer, Pusher, PusherGet, PusherSeesShutdown, InternalPush, PushRaises, RunProgram,
                deviceVars
  <2>2. \A e \in Dev : /\ progs'[e] = progs[e] \/ (progs[e] > 0 /\ e \in Dev)
                       /\ moves'[e] = moves[e] \/ moves[e] > 0
    BY <1>6 DEF BesideStep, Transfer, Pusher, PusherGet, PusherSeesShutdown, InternalPush, PushRaises, RunProgram,
                flowVars, TypeInv, TypeOK
  <2>3. \A e \in Dev : \/ pq'[e] = pq[e] /\ ppc'[e] = ppc[e]
                       \/ pq'[e] = pq[e] /\ ppc[e] # "ended"
                       \/ pq[e] # <<>>
                       \/ e = 1 /\ moves[e] > 0 /\ ppc'[e] = ppc[e]
    BY <1>6 DEF BesideStep, Transfer, Pusher, PusherGet, PusherSeesShutdown, InternalPush, PushRaises, RunProgram,
                pushVars, TypeInv, TypeOK
  <2>4. 1 \in tt => 1 \in Pushers
    BY <1>0, Devices DEF Pushers
  <2>5. \A e \in Dev : e \notin Pushers => pq'[e] = <<>> /\ ppc'[e] = "ended"
    BY <2>3, <2>4 DEF Kinds
  <2> QED
    BY <2>1, <2>2, <2>5, Same DEF Kinds
<1>7. CASE UNCHANGED vars
  BY <1>7, Same DEF vars, Kinds, deviceVars, flowVars, pushVars
<1> QED
  BY <1>1, <1>2, <1>3, <1>4, <1>5, <1>6, <1>7 DEF Steps0

-----------------------------------------------------------------------------
(* One request at a time: what the calling threads do.                     *)

\* What OneRequest says when its hypothesis holds.
Outstanding ==
    IF waiting["main"]
    THEN /\ A <= Len(Script("main")) /\ Step("main").reply
         /\ \A d \in Dev \ {Step("main").dev} : Unasked(d)
         /\ Asked(Step("main")) \/ Served(Step("main"))
    ELSE \A d \in Dev : Unasked(d)

\* OneRequest, under its hypothesis.
LEMMA OneRequestIs == OneRequest <=> (Alone => Outstanding)
BY DEF OneRequest, Alone, Outstanding

\* A step that does not touch the commands and their answers.
LEMMA OneRequestKept ==
  ASSUME TypeInv, OneRequest, tt' = tt, training' = training, at' = at, waiting' = waiting,
         cmdq' = cmdq, resp' = resp, event => event',
         \A d \in Dev : progs[d] = 0 => progs'[d] = 0,
         \A d \in Dev : dpc[d] # "forward" => dpc'[d] # "forward"
  PROVE  OneRequest'
<1>1. /\ Script("main")' = Script("main") /\ L' = L /\ A' = A
  BY Same DEF A
<1>2. Alone' => Alone
  BY <1>1 DEF Alone
<1>3. Step("main")' = Step("main")
  BY <1>1 DEF Step
<1>4. ASSUME Outstanding PROVE Outstanding'
  <2>1. CASE waiting["main"]
    <3>1. Step("main").dev \in Dev
      BY <1>4, <2>1, StepIs DEF TypeInv, Outstanding, A, Steps, Threads
    <3>2. Asked(Step("main")) => Asked(Step("main"))'
      BY <1>3 DEF Asked, IsRequest
    <3>3. Served(Step("main")) => Served(Step("main"))'
      BY <1>3, <3>1 DEF Served, IsAnswer
    <3>4. \A d \in Dev : Unasked(d)' <=> Unasked(d)
      BY DEF Unasked, IsRequest
    <3> QED
      BY <1>1, <1>3, <1>4, <2>1, <3>2, <3>3, <3>4 DEF Outstanding
  <2>2. CASE ~waiting["main"]
    BY <1>4, <2>2 DEF Outstanding, Unasked, IsRequest
  <2> QED
    BY <2>1, <2>2
<1> QED
  BY <1>2, <1>4, OneRequestIs, OneRequestIs' DEF OneRequest, Alone, Outstanding

\* Nobody is asked anything ...
LEMMA NoneOutstanding ==
  ASSUME ~waiting'["main"], \A d \in Dev : Unasked(d)'
  PROVE  OneRequest'
BY DEF OneRequest

\* ... and nothing is claimed of where an error has led.
LEMMA NotAlone ==
  ASSUME ~(Alone')
  PROVE  OneRequest'
BY DEF OneRequest, Alone

\* Send makes the step it sends the one request there is.
LEMMA SendMainRequest ==
  ASSUME TypeInv, OneRequest, Send("main")
  PROVE  OneRequest'
<1>0. PICK s, d, c : /\ s = Step("main") /\ d = s.dev
                     /\ c = [cmd |-> s.cmd, name |-> s.name, desc |-> last["main"]]
  OBVIOUS
<1>1. A <= Len(Script("main")) /\ ~waiting["main"] /\ MainFacts(s)
  BY <1>0, MainSteps DEF Send, CanSend, TypeInv, A
<1>2. /\ Script("main")' = Script("main") /\ L' = L
  BY Same DEF Send
<1>3. d \in Dev /\ s \in Steps /\ s.reply \in BOOLEAN /\ A \in Nat /\ L \in Nat
  BY <1>0, <1>1, ScriptIs, TypeFacts DEF MainFacts, Steps, TypeInv
<1>4. SUFFICES ASSUME Alone' PROVE OneRequest'
  BY NotAlone
<1>5. A' \in {A, A + 1} /\ (s.reply => A' = A)
  BY <1>0, <1>3 DEF A, Send, TypeInv, TypeOK, Threads
<1>6. Alone
  BY <1>2, <1>3, <1>4, <1>5 DEF Alone, Send
<1>7. \A e \in Dev : Unasked(e)
  BY <1>1, <1>6, OneRequestIs DEF Outstanding
<1>8. /\ cmdq' = [cmdq EXCEPT ![d] = Append(@, c)] /\ resp' = resp
      /\ waiting' = [waiting EXCEPT !["main"] = s.reply]
  BY <1>0 DEF Send
<1>9. cmdq \in [Dev -> Seq(Commands)] /\ c \in Commands /\ cmdq[d] \in Seq(Commands)
  BY <1>0, <1>3 DEF TypeInv, TypeOK, Steps, Commands, Threads
<1>10. \A e \in Dev \ {d} : Unasked(e)'
  BY <1>3, <1>7, <1>8, <1>9 DEF Unasked, IsRequest
<1>11. waiting'["main"] = s.reply
  BY <1>8 DEF TypeInv, TypeOK, Threads
<1>12. /\ cmdq'[d] = Append(cmdq[d], c) /\ Len(cmdq'[d]) = Len(cmdq[d]) + 1 /\ Len(cmdq[d]) \in Nat
       /\ cmdq'[d][Len(cmdq[d]) + 1] = c /\ DOMAIN cmdq'[d] = 1 .. Len(cmdq[d]) + 1
       /\ \A i \in 1 .. Len(cmdq[d]) : cmdq'[d][i] = cmdq[d][i]
       /\ cmdq'[d] # <<>> /\ DOMAIN cmdq[d] = 1 .. Len(cmdq[d])
  <2>1. cmdq'[d] = Append(cmdq[d], c)
    BY <1>3, <1>8, <1>9
  <2>2. /\ Append(cmdq[d], c) \in Seq(Commands) /\ Append(cmdq[d], c) # <<>>
        /\ Len(Append(cmdq[d], c)) = Len(cmdq[d]) + 1
        /\ \A i \in 1 .. Len(cmdq[d]) : Append(cmdq[d], c)[i] = cmdq[d][i]
        /\ Append(cmdq[d], c)[Len(cmdq[d]) + 1] = c
    BY <1>9, AppendProperties
  <2>3. Len(cmdq[d]) \in Nat /\ DOMAIN cmdq[d] = 1 .. Len(cmdq[d])
    BY <1>9
  <2>4. DOMAIN Append(cmdq[d], c) = 1 .. Len(cmdq[d]) + 1
    BY <2>2, LenProperties
  <2> QED
    BY <2>1, <2>2, <2>3, <2>4
<1>13. c.cmd = s.cmd /\ c.name = s.name
  BY <1>0
<1>14. CASE s.reply
  <2>1. Step("main")' = s
    BY <1>0, <1>2, <1>5, <1>14 DEF Step, A
  <2>2. A' <= Len(Script("main"))' /\ waiting'["main"]
    BY <1>1, <1>2, <1>5, <1>11, <1>14
  <2>3. Asked(s)'
    <3>1. cmdq'[d] # <<>> /\ resp'[d] = <<>>
      BY <1>3, <1>7, <1>8, <1>12 DEF Unasked
    <3>2. cmdq'[d][Len(cmdq'[d])].cmd = s.cmd /\ cmdq'[d][Len(cmdq'[d])].name = s.name
      BY <1>12, <1>13
    <3>3. \A i \in 1 .. Len(cmdq'[d]) - 1 : ~IsRequest(cmdq'[d][i])
      BY <1>3, <1>7, <1>12 DEF Unasked
    <3> QED
      BY <1>0, <3>1, <3>2, <3>3 DEF Asked, IsRequest
  <2> QED
    BY <1>0, <1>10, <2>1, <2>2, <2>3, <1>14 DEF OneRequest
<1>15. CASE ~s.reply
  <2>1. ~IsRequest(c)
    BY <1>1, <1>13, <1>15 DEF MainFacts, IsRequest
  <2>2. Unasked(d)'
    <3>1. resp'[d] = <<>>
      BY <1>3, <1>7, <1>8 DEF Unasked
    <3>2. \A i \in 1 .. Len(cmdq[d]) + 1 : ~IsRequest(cmdq'[d][i])
      BY <1>3, <1>7, <1>12, <2>1 DEF Unasked
    <3> QED
      BY <3>1, <3>2, <1>12 DEF Unasked, IsRequest
  <2> QED
    BY <1>0, <1>10, <1>11, <1>15, <2>2, NoneOutstanding
<1> QED
  BY <1>3, <1>14, <1>15

\* The answer the main thread takes is the one to its request ...
LEMMA AnswerMainRequest ==
  ASSUME TypeInv, OneRequest, GetResponse("main") \/ NoResponse("main")
  PROVE  OneRequest'
<1>0. PICK s, d : s = Step("main") /\ d = s.dev
  OBVIOUS
<1>1. waiting["main"] /\ A <= Len(Script("main")) /\ s.reply /\ MainFacts(s)
  BY <1>0, MainSteps DEF GetResponse, NoResponse, TypeInv, Waits, Threads, A
<1>2. /\ L' = L /\ L \in Nat /\ QuitAt \in Nat /\ QuitAt > L /\ A \in Nat
  BY <1>1, Same, ScriptIs, TypeFacts, Devices DEF GetResponse, NoResponse, TypeInv, MainFacts
<1>3. SUFFICES ASSUME Alone' PROVE OneRequest'
  BY NotAlone
<1>4. A' \in {QuitAt, A + 1} /\ ~waiting'["main"]
  BY <1>2 DEF GetResponse, NoResponse, Answered, A, TypeInv, TypeOK, Threads
<1>5. event => event'
  BY DEF GetResponse, NoResponse, Answered
<1>6. Alone
  BY <1>2, <1>3, <1>4, <1>5 DEF Alone, GetResponse, NoResponse
<1>7. Outstanding
  BY <1>6, OneRequestIs
<1>8. CASE GetResponse("main")
  <2>1. resp[d] # <<>> /\ cmdq' = cmdq /\ resp' = [resp EXCEPT ![d] = Tail(@)]
    BY <1>0, <1>8 DEF GetResponse
  <2>2. Served(s)
    BY <1>0, <1>1, <1>7, <2>1 DEF Outstanding, Asked
  <2>3. d \in Dev /\ resp[d] \in Seq(Descs) /\ DOMAIN resp = Dev
    BY <1>0, <1>1 DEF MainFacts, TypeInv, TypeOK
  <2>4. cmdq[d] = <<>> /\ Len(resp[d]) <= 1
    BY <1>0, <2>2 DEF Served
  <2>5. Tail(resp[d]) = <<>>
    BY <2>1, <2>3, <2>4
  <2>6. Unasked(d)'
    BY <2>1, <2>3, <2>4, <2>5 DEF Unasked
  <2>7. \A e \in Dev \ {d} : Unasked(e)'
    BY <1>0, <1>1, <1>7, <2>1, <2>3 DEF Outstanding, Unasked, IsRequest
  <2> QED
    BY <1>4, <2>6, <2>7, NoneOutstanding
<1>9. CASE NoResponse("main")
  <2>1. event /\ event'
    BY <1>5, <1>9 DEF NoResponse
  <2>2. A' <= L
    BY <1>2, <1>3, <2>1 DEF Alone
  <2>3. A <= L /\ s.cmd \in {"compile", "get_queues"}
    BY <1>1, <1>2, <1>4, <2>2 DEF MainFacts
  <2>4. at' = [at EXCEPT !["main"] = QuitAt]
    BY <1>0, <1>9, <2>3 DEF NoResponse, Answered
  <2>5. A' = QuitAt
    BY <2>4 DEF A, TypeInv, TypeOK, Threads
  <2> QED
    BY <1>2, <2>2, <2>5
<1> QED
  BY <1>8, <1>9

\* ... for the training thread takes none before the setup is over.
LEMMA LoopRequest ==
  ASSUME TypeInv, OneRequest, LoopLater, ClientStep("loop")
  PROVE  OneRequest'
<1>1. L' = L /\ A' = A /\ (event => event') /\ training' = training
  <2>1. tt' = tt /\ training' = training /\ (event => event')
    <3>1. CASE Send("loop") \/ StopRun("loop")
      BY <3>1 DEF Send, StopRun
    <3>2. CASE GetResponse("loop") \/ NoResponse("loop")
      BY <3>2 DEF GetResponse, NoResponse, Answered
    <3> QED
      BY <3>1, <3>2 DEF ClientStep
  <2>2. A' = A
    BY DEF ClientStep, Send, StopRun, GetResponse, NoResponse, Answered, A, TypeInv, TypeOK, Threads
  <2> QED
    BY <2>1, <2>2, Same
<1>2. Alone' => Alone
  BY <1>1 DEF Alone
<1>3. ~Alone
  BY LoopIdle DEF ClientStep, Send, StopRun, GetResponse, NoResponse
<1> QED
  BY <1>2, <1>3, NotAlone

\* After an error nothing is claimed ...
LEMMA StopMainRequest ==
  ASSUME TypeInv, OneRequest, StopRun("main")
  PROVE  OneRequest'
<1>1. L' = L /\ L \in Nat /\ SyncAt \in Nat /\ L < SyncAt /\ QuitAt = SyncAt + N /\ N \in Nat
  BY Same, ScriptIs, TypeFacts, Devices DEF StopRun, TypeInv
<1>2. event' /\ A' \in {SyncAt, QuitAt}
  BY <1>1 DEF StopRun, GivesUp, A, TypeInv, TypeOK, Threads
<1> QED
  BY <1>1, <1>2, NotAlone DEF Alone

\* ... and a main thread that waits for nothing may go on to shutdown().
LEMMA SkipRequest ==
  ASSUME TypeInv, OneRequest, SkipSync
  PROVE  OneRequest'
<1>1. /\ L' = L /\ L \in Nat /\ SyncAt \in Nat /\ L < SyncAt /\ QuitAt = SyncAt + N /\ N \in Nat
  BY Same, ScriptIs, TypeFacts, Devices DEF SkipSync, TypeInv
<1>2. A' = QuitAt /\ A = SyncAt /\ ~waiting["main"] /\ waiting' = waiting /\ cmdq' = cmdq /\ resp' = resp
      /\ event' = event /\ training' = training
  BY DEF SkipSync, CanSend, A, TypeInv, TypeOK, Threads
<1>3. SUFFICES ASSUME Alone' PROVE OneRequest'
  BY NotAlone
<1>4. Outstanding
  BY <1>1, <1>2, <1>3, OneRequestIs DEF Alone
<1> QED
  BY <1>2, <1>4, NoneOutstanding DEF Outstanding, Unasked, IsRequest

-----------------------------------------------------------------------------
(* One request at a time: what the devices do.                             *)

\* A device process takes the first command d has, and leaves the other devices alone.
LEMMA TakenRequest ==
  ASSUME TypeInv, OneRequest, NEW d \in Dev, cmdq[d] # <<>>, NEW c, c = Head(cmdq[d]),
         cmdq' = [cmdq EXCEPT ![d] = Tail(@)],
         tt' = tt, training' = training, at' = at, waiting' = waiting, event => event',
         \A e \in Dev \ {d} : resp'[e] = resp[e] /\ progs'[e] = progs[e] /\ dpc'[e] = dpc[e],
         ~IsRequest(c) => resp'[d] = resp[d],
         IsRequest(c) => \/ event' /\ resp'[d] = resp[d]
                         \/ \E r : /\ resp'[d] = Append(resp[d], r)
                                   /\ \A s : s.dev = d /\ s.cmd = c.cmd /\ s.name = c.name => IsAnswer(s, r),
         c.cmd = "sync" => event' \/ (progs'[d] = 0 /\ dpc'[d] # "forward")
  PROVE  OneRequest'
<1>1. /\ Script("main")' = Script("main") /\ L' = L /\ A' = A
  BY Same DEF A
<1>2. Step("main")' = Step("main")
  BY <1>1 DEF Step
<1>3. SUFFICES ASSUME Alone' PROVE OneRequest'
  BY NotAlone
<1>4. Alone /\ Outstanding
  BY <1>1, <1>3, OneRequestIs DEF Alone
<1>5. /\ c \in Commands /\ Len(cmdq[d]) \in Nat /\ Len(cmdq[d]) > 0 /\ c = cmdq[d][1]
      /\ cmdq'[d] = Tail(cmdq[d]) /\ Len(cmdq'[d]) = Len(cmdq[d]) - 1
      /\ \A i \in 1 .. Len(cmdq[d]) - 1 : cmdq'[d][i] = cmdq[d][i + 1]
      /\ \A e \in Dev \ {d} : cmdq'[e] = cmdq[e]
      /\ cmdq'[d] \in Seq(Commands)
  BY HeadIs DEF TypeInv, TypeOK
<1>6. DOMAIN cmdq[d] = 1 .. Len(cmdq[d]) /\ DOMAIN cmdq'[d] = 1 .. Len(cmdq[d]) - 1
  BY <1>5 DEF TypeInv, TypeOK
<1>7. \A e \in Dev \ {d} : Unasked(e) => Unasked(e)'
  BY <1>5 DEF Unasked, IsRequest
<1>8. Unasked(d) => Unasked(d)'
  <2>1. SUFFICES ASSUME Unasked(d) PROVE Unasked(d)'
    OBVIOUS
  <2>2. ~IsRequest(c) /\ resp[d] = <<>>
    BY <1>5, <1>6, <2>1 DEF Unasked
  <2>3. \A i \in DOMAIN cmdq'[d] : ~IsRequest(cmdq'[d][i])
    <3>1. SUFFICES ASSUME NEW i \in 1 .. Len(cmdq[d]) - 1 PROVE ~IsRequest(cmdq'[d][i])
      BY <1>6
    <3>2. i + 1 \in DOMAIN cmdq[d] /\ cmdq'[d][i] = cmdq[d][i + 1]
      <4>1. i + 1 \in 1 .. Len(cmdq[d])
        BY <1>5
      <4> QED
        BY <4>1, <1>5, <1>6
    <3> QED
      BY <2>1, <3>2 DEF Unasked
  <2> QED
    BY <2>2, <2>3 DEF Unasked, IsRequest
<1>9. CASE ~waiting["main"]
  BY <1>4, <1>7, <1>8, <1>9, NoneOutstanding DEF Outstanding
<1>10. CASE waiting["main"]
  <2>1. PICK s : s = Step("main")
    OBVIOUS
  <2>2. /\ A <= Len(Script("main")) /\ s.reply /\ (Asked(s) \/ Served(s)) /\ MainFacts(s)
        /\ \A e \in Dev \ {s.dev} : Unasked(e)
    BY <1>4, <1>10, <2>1, MainSteps DEF Outstanding, TypeInv
  <2>3. s.dev \in Dev /\ s.cmd \in {"compile", "get_queues", "sync"}
    BY <2>2 DEF MainFacts
  <2>4. SUFFICES /\ \A e \in Dev \ {s.dev} : Unasked(e)'
                 /\ Asked(s)' \/ Served(s)'
    BY <1>1, <1>2, <1>10, <2>1, <2>2 DEF OneRequest
  <2>5. \A e \in Dev \ {s.dev} : Unasked(e)'
    BY <1>7, <1>8, <2>2
  <2>6. CASE d # s.dev
    <3>1. /\ cmdq'[s.dev] = cmdq[s.dev] /\ resp'[s.dev] = resp[s.dev]
          /\ progs'[s.dev] = progs[s.dev] /\ dpc'[s.dev] = dpc[s.dev]
      BY <1>5, <2>3, <2>6
    <3>2. Asked(s) => Asked(s)'
      BY <3>1 DEF Asked, IsRequest
    <3>3. Served(s) => Served(s)'
      BY <3>1 DEF Served, IsAnswer
    <3> QED
      BY <2>2, <2>5, <3>2, <3>3
  <2>7. CASE d = s.dev
    <3>1. Asked(s)
      BY <2>2, <2>7 DEF Served
    <3>2. /\ resp[d] = <<>> /\ cmdq[d][Len(cmdq[d])].cmd = s.cmd /\ cmdq[d][Len(cmdq[d])].name = s.name
          /\ \A i \in 1 .. Len(cmdq[d]) - 1 : ~IsRequest(cmdq[d][i])
      BY <2>7, <3>1 DEF Asked
    <3>3. CASE Len(cmdq[d]) = 1
      <4>1. c.cmd = s.cmd /\ c.name = s.name /\ IsRequest(c) /\ cmdq'[d] = <<>>
        BY <1>5, <2>3, <3>2, <3>3 DEF IsRequest
      <4>2. event' => s.cmd # "sync"
        <5>1. s.cmd = "sync" => A > L
          BY <2>2, ScriptIs, TypeFacts DEF MainFacts, TypeInv
        <5>2. L \in Nat /\ A \in Nat
          BY <2>2, ScriptIs, TypeFacts DEF MainFacts, TypeInv
        <5> QED
          BY <1>1, <1>3, <5>1, <5>2 DEF Alone
      <4>3. Len(resp'[d]) <= 1 /\ (resp'[d] # <<>> => IsAnswer(s, resp'[d][1]))
        <5>1. CASE resp'[d] = resp[d]
          BY <3>2, <5>1
        <5>2. CASE \E r : /\ resp'[d] = Append(resp[d], r)
                          /\ \A t : t.dev = d /\ t.cmd = c.cmd /\ t.name = c.name => IsAnswer(t, r)
          <6>1. PICK r : /\ resp'[d] = Append(resp[d], r)
                         /\ \A t : t.dev = d /\ t.cmd = c.cmd /\ t.name = c.name => IsAnswer(t, r)
            BY <5>2
          <6>2. IsAnswer(s, r)
            BY <2>7, <4>1, <6>1
          <6>3. resp'[d] = <<r>>
            BY <3>2, <6>1
          <6>4. Len(<<r>>) = 1 /\ <<r>>[1] = r
            OBVIOUS
          <6>5. Len(resp'[d]) = 1 /\ resp'[d][1] = r
            BY <6>3, <6>4
          <6> QED
            BY <6>2, <6>5
        <5> QED
          BY <4>1, <5>1, <5>2
      <4>4. s.cmd = "sync" => progs'[d] = 0 /\ dpc'[d] # "forward"
        BY <4>1, <4>2
      <4>5. Served(s)'
        BY <2>7, <4>1, <4>3, <4>4 DEF Served, IsAnswer
      <4> QED
        BY <2>5, <4>5
    <3>4. CASE Len(cmdq[d]) > 1
      <4>1. ~IsRequest(c) /\ resp'[d] = resp[d]
        BY <1>5, <3>2, <3>4
      <4>2. cmdq'[d] # <<>> /\ cmdq'[d][Len(cmdq'[d])] = cmdq[d][Len(cmdq[d])]
        <5>1. PICK n : n = Len(cmdq[d])
          OBVIOUS
        <5>2. n \in Nat /\ n > 1 /\ n - 1 \in 1 .. n - 1 /\ (n - 1) + 1 = n
          BY <1>5, <3>4, <5>1
        <5>3. cmdq'[d][n - 1] = cmdq[d][n] /\ Len(cmdq'[d]) = n - 1
          BY <1>5, <5>1, <5>2
        <5>4. cmdq'[d] # <<>>
          <6>1. Len(<<>>) = 0
            OBVIOUS
          <6>2. n - 1 # 0
            BY <5>2
          <6> QED
            BY <5>3, <6>1, <6>2, Zenon
        <5> QED
          BY <5>1, <5>3, <5>4
      <4>3. \A i \in 1 .. Len(cmdq'[d]) - 1 : ~IsRequest(cmdq'[d][i])
        BY <1>5, <3>2, <3>4
      <4>4. Asked(s)'
        BY <2>7, <3>2, <4>1, <4>2, <4>3 DEF Asked, IsRequest
      <4> QED
        BY <2>5, <4>4
    <3>5. Len(cmdq[d]) = 1 \/ Len(cmdq[d]) > 1
      <4>1. \A n \in Nat : n > 0 => n = 1 \/ n > 1
        OBVIOUS
      <4> QED
        BY <1>5, <4>1, Zenon
    <3> QED
      BY <3>3, <3>4, <3>5
  <2> QED
    BY <2>6, <2>7
<1> QED
  BY <1>9, <1>10

\* A device that runs a command answers the request if it is the one.
LEMMA CommandRequest ==
  ASSUME TypeInv, Kinds, OneRequest, NEW d \in Dev, CommandStep(d)
  PROVE  OneRequest'
<1>1. PICK c : \/ RanCompile(d, c) \/ RanGet(d, c) \/ RanSet(d, c) \/ RanTransfer(d, c)
               \/ RanForward(d, c) \/ RanSync(d, c) \/ RanCheckpoint(d, c) \/ RanQuit(d, c)
  BY DEF CommandStep
<1>2. Ran(d, c)
  BY <1>1 DEF RanCompile, RanGet, RanSet, RanTransfer, RanForward, RanSync, RanCheckpoint, RanQuit
<1>3. /\ tt' = tt /\ training' = training /\ at' = at /\ waiting' = waiting /\ (event => event')
      /\ cmdq[d] # <<>> /\ c = Head(cmdq[d]) /\ cmdq' = [cmdq EXCEPT ![d] = Tail(@)] /\ dpc[d] = "next"
  BY <1>2 DEF Ran, clientVars
<1>4. /\ resp \in [Dev -> Seq(Descs)] /\ progs \in [Dev -> Nat]
      /\ dpc \in [Dev -> {"next", "forward", "threads", "barrier", "closed"}]
  BY DEF TypeInv, TypeOK
<1>5. \A e \in Dev \ {d} : progs'[e] = progs[e] /\ dpc'[e] = dpc[e]
  <2>1. progs' = progs \/ progs' = [progs EXCEPT ![d] = @ + 1]
    BY <1>1 DEF RanCompile, RanGet, RanSet, RanTransfer, RanForward, RanSync, RanCheckpoint, RanQuit,
       RunCompile, RunGetQueues, RunSetQueues, RunTransfer, RunRunForward, RunSync, RunCheckpoint
  <2>2. dpc' = dpc \/ dpc' = [dpc EXCEPT ![d] = "forward"] \/ dpc' = [dpc EXCEPT ![d] = "threads"]
    BY <1>1 DEF RanCompile, RanGet, RanSet, RanTransfer, RanForward, RanSync, RanCheckpoint, RanQuit,
       RunCompile, RunGetQueues, RunSetQueues, RunTransfer, RunRunForward, RunSync, RunCheckpoint, deviceVars, Goto
  <2> QED
    BY <1>4, <2>1, <2>2
<1>6. CASE RanSet(d, c) \/ RanTransfer(d, c) \/ RanForward(d, c) \/ RanQuit(d, c)
  <2>1. resp' = resp /\ ~IsRequest(c) /\ c.cmd # "sync"
    BY <1>6 DEF RanSet, RanTransfer, RanForward, RanQuit, RunSetQueues, RunTransfer, RunRunForward, IsRequest
  <2> QED
    BY <1>3, <1>5, <2>1, TakenRequest
<1>7. CASE RanCompile(d, c) \/ RanGet(d, c) \/ RanSync(d, c) \/ RanCheckpoint(d, c)
  <2>1. \E r : /\ Reply(d, r)
               /\ \A s : s.dev = d /\ s.cmd = c.cmd /\ s.name = c.name => IsAnswer(s, r)
    <3>1. CASE RanCompile(d, c)
      <4>1. c.cmd = "compile" /\ (Reply(d, [dev |-> d, queue |-> "outputs"]) \/ Reply(d, Failure))
        BY <3>1 DEF RanCompile, RunCompile
      <4>2. \A s : s.dev = d /\ s.cmd = c.cmd /\ s.name = c.name =>
               IsAnswer(s, [dev |-> d, queue |-> "outputs"]) /\ IsAnswer(s, Failure)
        BY <4>1 DEF IsAnswer
      <4> QED
        BY <4>1, <4>2
    <3>2. CASE RanGet(d, c)
      <4>1. c.cmd = "get_queues" /\ Reply(d, [dev |-> d, queue |-> c.name])
        BY <3>2 DEF RanGet, RunGetQueues
      <4>2. \A s : s.dev = d /\ s.cmd = c.cmd /\ s.name = c.name => IsAnswer(s, [dev |-> d, queue |-> c.name])
        BY <4>1 DEF IsAnswer
      <4> QED
        BY <4>1, <4>2
    <3>3. CASE RanSync(d, c) \/ RanCheckpoint(d, c)
      <4>1. /\ c.cmd \in {"sync", "checkpoint"}
            /\ Reply(d, [dev |-> d, queue |-> "sync"]) \/ Reply(d, [dev |-> d, queue |-> "checkpoint"])
        BY <3>3 DEF RanSync, RanCheckpoint, RunSync, RunCheckpoint
      <4>2. \A s, r : s.cmd = c.cmd => IsAnswer(s, r)
        BY <4>1 DEF IsAnswer
      <4> QED
        BY <4>1, <4>2
    <3> QED
      BY <1>7, <3>1, <3>2, <3>3
  <2>2. PICK r : /\ resp' = [resp EXCEPT ![d] = Append(@, r)]
                 /\ \A s : s.dev = d /\ s.cmd = c.cmd /\ s.name = c.name => IsAnswer(s, r)
    BY <2>1 DEF Reply
  <2>3. resp'[d] = Append(resp[d], r) /\ \A e \in Dev \ {d} : resp'[e] = resp[e]
    BY <1>4, <2>2
  <2>4. IsRequest(c)
    BY <1>7 DEF RanCompile, RanGet, RanSync, RanCheckpoint, IsRequest
  <2>5. c.cmd = "sync" => progs'[d] = 0 /\ dpc'[d] # "forward"
    <3>1. SUFFICES ASSUME c.cmd = "sync" PROVE progs'[d] = 0 /\ dpc'[d] # "forward"
      OBVIOUS
    <3>2. RanSync(d, c)
      BY <1>7, <3>1 DEF RanCompile, RanGet, RanCheckpoint
    <3>3. progs' = progs /\ dpc' = dpc /\ (d \in tt => progs[d] = 0)
      BY <3>2 DEF RanSync, RunSync, deviceVars
    <3> QED
      BY <1>3, <1>4, <3>3 DEF Kinds
  <2> QED
    BY <1>3, <1>5, <2>2, <2>3, <2>4, <2>5, TakenRequest
<1> QED
  BY <1>1, <1>6, <1>7

\* A device that ends before its answer has set the event ...
LEMMA RaisedRequest ==
  ASSUME TypeInv, OneRequest, NEW d \in Dev, CommandRaises(d)
  PROVE  OneRequest'
<1>1. /\ tt' = tt /\ training' = training /\ at' = at /\ waiting' = waiting /\ event'
      /\ cmdq[d] # <<>> /\ cmdq' = [cmdq EXCEPT ![d] = Tail(@)] /\ resp' = resp /\ progs' = progs
      /\ dpc' = [dpc EXCEPT ![d] = "closed"]
  BY DEF CommandRaises, clientVars, flowVars, Goto
<1>2. \A e \in Dev \ {d} : dpc'[e] = dpc[e]
  BY <1>1 DEF TypeInv, TypeOK
<1> QED
  BY <1>1, <1>2, TakenRequest

\* ... and one that drops its queue has seen it.
LEMMA AbandonedRequest ==
  ASSUME TypeInv, OneRequest, NEW d \in Dev, ForwardAbandoned(d)
  PROVE  OneRequest'
<1>1. /\ tt' = tt /\ training' = training /\ at' = at /\ waiting' = waiting /\ event /\ event'
      /\ cmdq' = [cmdq EXCEPT ![d] = <<>>] /\ resp' = resp /\ progs' = progs
      /\ dpc' = [dpc EXCEPT ![d] = "next"]
  BY DEF ForwardAbandoned, clientVars, flowVars, Goto
<1>2. /\ Script("main")' = Script("main") /\ L' = L /\ A' = A
  BY <1>1, Same DEF A
<1>3. Step("main")' = Step("main")
  BY <1>1, <1>2 DEF Step
<1>4. SUFFICES ASSUME Alone' PROVE OneRequest'
  BY NotAlone
<1>5. Alone /\ Outstanding /\ A <= L
  BY <1>1, <1>2, <1>4, OneRequestIs DEF Alone
<1>6. cmdq'[d] = <<>> /\ \A e \in Dev \ {d} : cmdq'[e] = cmdq[e]
  BY <1>1 DEF TypeInv, TypeOK
<1>7. \A e \in Dev : Unasked(e) => Unasked(e)'
  BY <1>1, <1>6 DEF Unasked, IsRequest
<1>8. CASE ~waiting["main"]
  BY <1>1, <1>5, <1>7, <1>8, NoneOutstanding DEF Outstanding
<1>9. CASE waiting["main"]
  <2>1. PICK s : s = Step("main")
    OBVIOUS
  <2>2. /\ A <= Len(Script("main")) /\ s.reply /\ (Asked(s) \/ Served(s)) /\ MainFacts(s)
        /\ \A e \in Dev \ {s.dev} : Unasked(e)
    BY <1>5, <1>9, <2>1, MainSteps DEF Outstanding, TypeInv
  <2>3. s.dev \in Dev /\ s.cmd # "sync"
    BY <1>5, <2>2 DEF MainFacts
  <2>4. Asked(s)' \/ Served(s)'
    <3>1. CASE d = s.dev
      <4>1. Len(resp[d]) <= 1 /\ (resp[d] # <<>> => IsAnswer(s, resp[d][1]))
        BY <2>2, <3>1 DEF Asked, Served
      <4> QED
        BY <1>1, <1>6, <2>3, <3>1, <4>1 DEF Served, IsAnswer
    <3>2. CASE d # s.dev
      <4>1. Asked(s) => Asked(s)'
        BY <1>1, <1>6, <2>3, <3>2 DEF Asked, IsRequest
      <4>2. Served(s) => Served(s)'
        BY <1>1, <1>6, <2>3, <3>2 DEF Served, IsAnswer
      <4> QED
        BY <2>2, <4>1, <4>2
    <3> QED
      BY <3>1, <3>2
  <2> QED
    BY <1>1, <1>2, <1>3, <1>7, <1>9, <2>1, <2>2, <2>4 DEF OneRequest
<1> QED
  BY <1>8, <1>9

\* Every step keeps OneRequest.
LEMMA RequestStep ==
  ASSUME TypeInv, Kinds, LoopLater, OneRequest, [Next]_vars
  PROVE  OneRequest'
<1>1. Steps0
  BY NextSteps
<1>2. ASSUME NEW t \in Threads, ClientStep(t) PROVE OneRequest'
  BY <1>2, SendMainRequest, AnswerMainRequest, LoopRequest, StopMainRequest DEF ClientStep, Threads
<1>3. CASE MainStep
  <2>1. CASE SkipSync
    BY <2>1, SkipRequest
  <2>2. CASE PassBarrier \/ BarrierBroken \/ LoopJoined \/ Joined
    BY <2>2, OneRequestKept DEF PassBarrier, BarrierBroken, LoopJoined, Joined, deviceVars, flowVars
  <2>3. CASE Reap
    BY <2>3, OneRequestKept DEF Reap, flowVars
  <2> QED
    BY <1>3, <2>1, <2>2, <2>3 DEF MainStep
<1>4. ASSUME NEW d \in Dev, DeviceStep(d) PROVE OneRequest'
  <2>1. CASE CommandRaises(d)
    BY <2>1, RaisedRequest
  <2>2. CASE ForwardAbandoned(d)
    BY <2>2, AbandonedRequest
  <2>3. CASE SeeShutdown(d) \/ Forward(d) \/ ThreadsShutDown(d) \/ Close(d)
    <3>1. /\ tt' = tt /\ training' = training /\ at' = at /\ waiting' = waiting
          /\ cmdq' = cmdq /\ resp' = resp /\ (event => event') /\ progs' = progs
      BY <2>3 DEF SeeShutdown, Forward, ThreadsShutDown, Close, clientVars, flowVars
    <3>2. \A e \in Dev : dpc[e] # "forward" => dpc'[e] # "forward"
      BY <2>3 DEF SeeShutdown, Forward, ThreadsShutDown, Close, Goto, TypeInv, TypeOK
    <3> QED
      BY <3>1, <3>2, OneRequestKept
  <2> QED
    BY <1>4, <2>1, <2>2, <2>3 DEF DeviceStep
<1>5. ASSUME NEW d \in Dev, BesideStep(d) PROVE OneRequest'
  <2>1. /\ tt' = tt /\ training' = training /\ at' = at /\ waiting' = waiting
        /\ cmdq' = cmdq /\ resp' = resp /\ (event => event') /\ dpc' = dpc
    BY <1>5 DEF BesideStep, Transfer, Pusher, PusherGet, PusherSeesShutdown, InternalPush, PushRaises, RunProgram,
                clientVars, deviceVars
  <2>2. \A e \in Dev : progs[e] = 0 => progs'[e] = 0
    BY <1>5 DEF BesideStep, Transfer, Pusher, PusherGet, PusherSeesShutdown, InternalPush, PushRaises, RunProgram,
                flowVars, TypeInv, TypeOK
  <2> QED
    BY <2>1, <2>2, OneRequestKept
<1>6. CASE UNCHANGED vars
  BY <1>6, OneRequestKept DEF vars, clientVars, deviceVars, flowVars
<1> QED
  BY <1>1, <1>2, <1>3, <1>4, <1>5, <1>6, CommandRequest DEF Steps0

-----------------------------------------------------------------------------
(* The descriptors.                                                        *)

\* The training thread waits for nothing before the setup is over.
LEMMA LoopStep ==
  ASSUME TypeInv, LoopLater, [Next]_vars
  PROVE  LoopLater'
<1>0. L \in Nat /\ SyncAt \in Nat /\ L < SyncAt /\ QuitAt = SyncAt + N /\ N \in Nat /\ A \in Nat
  BY ScriptIs, TypeFacts, Devices DEF TypeInv, TypeOK, A, Threads
<1>1. Steps0
  BY NextSteps
<1>2. CASE ClientStep("main")
  <2>1. tt' = tt /\ training' = training
    BY <1>2 DEF ClientStep, Send, StopRun, GetResponse, NoResponse
  <2>2. waiting'["loop"] = waiting["loop"]
    BY <1>2 DEF ClientStep, Send, StopRun, GetResponse, NoResponse, Answered, TypeInv, TypeOK, Threads
  <2>3. A' \in {A, A + 1, SyncAt, QuitAt}
    BY <1>2 DEF ClientStep, Send, StopRun, GetResponse, NoResponse, Answered, A, TypeInv, TypeOK, Threads
  <2> QED
    BY <1>0, <2>1, <2>2, <2>3, Same DEF LoopLater
<1>3. CASE ClientStep("loop")
  <2>1. tt' = tt /\ training' = training
    BY <1>3 DEF ClientStep, Send, StopRun, GetResponse, NoResponse
  <2>2. A' = A
    BY <1>3 DEF ClientStep, Send, StopRun, GetResponse, NoResponse, Answered, A, TypeInv, TypeOK, Threads
  <2>3. CASE GetResponse("loop") \/ NoResponse("loop")
    <3>1. ~waiting'["loop"]
      BY <2>3 DEF GetResponse, NoResponse, Answered, TypeInv, TypeOK, Threads
    <3> QED
      BY <3>1 DEF LoopLater
  <2>4. CASE Send("loop") \/ StopRun("loop")
    <3>1. A > L /\ at["loop"] <= Len(Script("loop"))
      BY <2>4 DEF Send, StopRun, CanSend, A, L
    <3>2. training
      BY <3>1, LoopSteps DEF TypeInv
    <3> QED
      BY <1>0, <2>1, <2>2, <3>1, <3>2, Same DEF LoopLater
  <2> QED
    BY <1>3, <2>3, <2>4 DEF ClientStep
<1>4. CASE MainStep
  <2>1. tt' = tt /\ training' = training /\ waiting' = waiting
    BY <1>4 DEF MainStep, SkipSync, PassBarrier, BarrierBroken, LoopJoined, Joined, Reap
  <2>2. A' \in {A, QuitAt}
    BY <1>4 DEF MainStep, SkipSync, PassBarrier, BarrierBroken, LoopJoined, Joined, Reap, A, TypeInv, TypeOK, Threads
  <2> QED
    BY <1>0, <2>1, <2>2, Same DEF LoopLater
<1>5. ASSUME tt' = tt, training' = training, waiting' = waiting, at' = at PROVE LoopLater'
  BY <1>5, Same DEF LoopLater, A
<1>6. ASSUME NEW d \in Dev, CommandStep(d) \/ DeviceStep(d) \/ BesideStep(d) PROVE LoopLater'
  <2>1. CASE CommandStep(d)
    BY <1>5, <2>1 DEF CommandStep, RanCompile, RanGet, RanSet, RanTransfer, RanForward, RanSync, RanCheckpoint,
                      RanQuit, Ran, clientVars
  <2>2. CASE DeviceStep(d)
    BY <1>5, <2>2 DEF DeviceStep, SeeShutdown, CommandRaises, Forward, ForwardAbandoned, ThreadsShutDown, Close,
                      clientVars
  <2>3. CASE BesideStep(d)
    BY <1>5, <2>3 DEF BesideStep, Transfer, Pusher, PusherGet, PusherSeesShutdown, InternalPush, PushRaises,
                      RunProgram, clientVars
  <2> QED
    BY <1>6, <2>1, <2>2, <2>3
<1>7. CASE UNCHANGED vars
  BY <1>5, <1>7 DEF vars, clientVars
<1> QED
  BY <1>1, <1>2, <1>3, <1>4, <1>6, <1>7 DEF Steps0, Threads

\* The parts of SetsRight.
QueuedRight ==
    \A d \in Dev : \A i \in DOMAIN cmdq[d] :
       cmdq[d][i].cmd = "set_queues" =>
          cmdq[d][i].name \in Directions /\ cmdq[d][i].desc = Peer(d, cmdq[d][i].name)
LastRight ==
    A <= L /\ ~waiting["main"] /\ Step("main").cmd = "set_queues" =>
       last["main"] = Peer(Step("main").dev, Step("main").name)
ConnRight == (\A d \in Dev : DOMAIN conn[d] \subseteq Directions) /\ DescriptorsOfPeers

\* The three parts together.
LEMMA SetsRightIs == SetsRight <=> QueuedRight /\ LastRight /\ ConnRight
BY DEF SetsRight, QueuedRight, LastRight, ConnRight

\* Steps that are not the main thread's leave the answer it got alone.
LEMMA LastKept ==
  ASSUME LastRight, tt' = tt, training' = training, A' = A, waiting'["main"] = waiting["main"],
         last'["main"] = last["main"]
  PROVE  LastRight'
<1>1. Script("main")' = Script("main") /\ L' = L
  BY Same
<1>2. Step("main")' = Step("main")
  BY <1>1 DEF Step, A
<1> QED
  BY <1>1, <1>2 DEF LastRight, Peer

\* A step that queues no set_queues leaves those queued right.
LEMMA QueuedKept ==
  ASSUME TypeInv, QueuedRight,
         \A d \in Dev : \A i \in DOMAIN cmdq'[d] :
            (\E j \in DOMAIN cmdq[d] : cmdq'[d][i] = cmdq[d][j]) \/ cmdq'[d][i].cmd # "set_queues"
  PROVE  QueuedRight'
BY DEF QueuedRight, Peer

\* What is left of a queue when its first command has been taken.
LEMMA TakenKept ==
  ASSUME TypeInv, NEW d \in Dev, cmdq[d] # <<>>, cmdq' = [cmdq EXCEPT ![d] = Tail(@)]
  PROVE  /\ Head(cmdq[d]) = cmdq[d][1] /\ 1 \in DOMAIN cmdq[d]
         /\ \A e \in Dev : \A i \in DOMAIN cmdq'[e] : \E j \in DOMAIN cmdq[e] : cmdq'[e][i] = cmdq[e][j]
<1>1. /\ Len(cmdq[d]) \in Nat /\ Len(cmdq[d]) > 0 /\ Head(cmdq[d]) = cmdq[d][1]
      /\ cmdq'[d] = Tail(cmdq[d]) /\ Tail(cmdq[d]) \in Seq(Commands)
      /\ Len(Tail(cmdq[d])) = Len(cmdq[d]) - 1
      /\ \A i \in 1 .. Len(cmdq[d]) - 1 : Tail(cmdq[d])[i] = cmdq[d][i + 1]
      /\ \A e \in Dev \ {d} : cmdq'[e] = cmdq[e]
      /\ DOMAIN cmdq[d] = 1 .. Len(cmdq[d])
  BY HeadIs DEF TypeInv, TypeOK
<1>2. 1 \in DOMAIN cmdq[d]
  BY <1>1
<1>3. ASSUME NEW i \in DOMAIN cmdq'[d] PROVE \E j \in DOMAIN cmdq[d] : cmdq'[d][i] = cmdq[d][j]
  <2>1. DOMAIN cmdq'[d] = 1 .. Len(cmdq[d]) - 1
    <3>1. PICK q : q = Tail(cmdq[d])
      OBVIOUS
    <3>2. q \in Seq(Commands) /\ Len(q) = Len(cmdq[d]) - 1 /\ cmdq'[d] = q
      BY <1>1, <3>1
    <3>3. DOMAIN q = 1 .. Len(q)
      BY <3>2, LenProperties
    <3> QED
      BY <3>2, <3>3
  <2>2. i \in 1 .. Len(cmdq[d]) - 1 /\ i + 1 \in 1 .. Len(cmdq[d])
    BY <1>1, <2>1
  <2>3. cmdq'[d][i] = cmdq[d][i + 1]
    BY <1>1, <2>2
  <2> QED
    BY <1>1, <2>2, <2>3
<1> QED
  BY <1>1, <1>2, <1>3

\* set_queues carries the answer to the get_queues before it.
LEMMA SendSets ==
  ASSUME TypeInv, QueuedRight, LastRight, NEW t \in Threads, Send(t)
  PROVE  QueuedRight' /\ LastRight'
<1>1. PICK s, c : s = Step(t) /\ c = [cmd |-> s.cmd, name |-> s.name, desc |-> last[t]]
  OBVIOUS
<1>2. s \in Steps /\ s.dev \in Dev /\ s.reply \in BOOLEAN /\ at[t] <= Len(Script(t)) /\ ~waiting[t]
  BY <1>1, StepIs DEF Send, CanSend, TypeInv, Steps
<1>3. /\ cmdq' = [cmdq EXCEPT ![s.dev] = Append(@, c)] /\ last' = last
      /\ waiting' = [waiting EXCEPT ![t] = s.reply]
      /\ at' = [at EXCEPT ![t] = IF s.reply THEN @ ELSE @ + 1]
      /\ tt' = tt /\ training' = training
  BY <1>1 DEF Send
<1>4. t = "main" => A <= Len(Script("main")) /\ MainFacts(s)
  BY <1>1, <1>2, MainSteps DEF TypeInv, A
<1>5. t = "loop" => s.cmd = "checkpoint" /\ s.reply
  BY <1>1, <1>2, LoopSteps DEF TypeInv
<1>6. s.cmd = "set_queues" => s.name \in Directions /\ last[t] = Peer(s.dev, s.name)
  <2>1. SUFFICES ASSUME s.cmd = "set_queues" PROVE s.name \in Directions /\ last[t] = Peer(s.dev, s.name)
    OBVIOUS
  <2>2. t = "main"
    BY <1>5, <2>1 DEF Threads
  <2>3. A <= L /\ s.name \in Directions
    BY <1>4, <2>1, <2>2 DEF MainFacts
  <2> QED
    BY <1>1, <1>2, <2>1, <2>2, <2>3 DEF LastRight
<1>7. c.cmd = s.cmd /\ c.name = s.name /\ c.desc = last[t] /\ c \in Commands
  BY <1>1, <1>2 DEF Steps, Commands, TypeInv, TypeOK
<1>8. QueuedRight'
  <2>1. PICK d : d = s.dev
    OBVIOUS
  <2>2. d \in Dev /\ cmdq[d] \in Seq(Commands) /\ DOMAIN cmdq = Dev
    BY <1>2, <2>1 DEF TypeInv, TypeOK
  <2>3. /\ cmdq'[d] = Append(cmdq[d], c) /\ \A e \in Dev \ {d} : cmdq'[e] = cmdq[e]
    BY <1>3, <2>1, <2>2
  <2>4. ASSUME NEW i \in DOMAIN cmdq'[d]
        PROVE  cmdq'[d][i] = c \/ (i \in DOMAIN cmdq[d] /\ cmdq'[d][i] = cmdq[d][i])
    BY <1>7, <2>2, <2>3
  <2>5. ASSUME NEW i \in DOMAIN cmdq'[d], cmdq'[d][i].cmd = "set_queues"
        PROVE  cmdq'[d][i].name \in Directions /\ cmdq'[d][i].desc = Peer(d, cmdq'[d][i].name)
    BY <1>6, <1>7, <2>1, <2>2, <2>4, <2>5 DEF QueuedRight
  <2>6. ASSUME NEW e \in Dev \ {d}, NEW i \in DOMAIN cmdq'[e], cmdq'[e][i].cmd = "set_queues"
        PROVE  cmdq'[e][i].name \in Directions /\ cmdq'[e][i].desc = Peer(e, cmdq'[e][i].name)
    BY <2>3, <2>6 DEF QueuedRight
  <2> QED
    BY <2>5, <2>6 DEF QueuedRight, Peer
<1>9. LastRight'
  <2>1. CASE t = "loop"
    <3>1. A' = A /\ waiting'["main"] = waiting["main"] /\ last'["main"] = last["main"]
      BY <1>3, <2>1 DEF A, TypeInv, TypeOK, Threads
    <3> QED
      BY <1>3, <3>1, LastKept
  <2>2. CASE t = "main" /\ s.reply
    <3>1. waiting'["main"]
      BY <1>3, <2>2 DEF TypeInv, TypeOK, Threads
    <3> QED
      BY <3>1 DEF LastRight
  <2>3. CASE t = "main" /\ ~s.reply
    <3>1. A' = A + 1 /\ A \in Nat /\ L' = L /\ L \in Nat /\ Script("main")' = Script("main")
      BY <1>3, <2>3, Same, ScriptIs, TypeFacts DEF A, TypeInv, TypeOK, Threads
    <3>2. SUFFICES ASSUME A + 1 <= L, Step("main")'.cmd = "set_queues" PROVE FALSE
      BY <3>1 DEF LastRight
    <3>3. s = Setup[A] /\ s.cmd = "set_queues"
      BY <1>4, <2>3, <3>1, <3>2 DEF MainFacts
    <3>4. Step("main")' = Setup[A + 1]
      BY <3>1, <3>2, ScriptIs, TypeFacts DEF Step, A, TypeInv
    <3>5. A + 1 \in DOMAIN Setup /\ GoodSetup(Setup)
      BY <3>1, <3>2, SetupGood, TypeFacts DEF L, TypeInv
    <3>6. Setup[A + 1].cmd = "set_queues" => Setup[(A + 1) - 1].cmd = "get_queues"
      BY <3>5 DEF GoodSetup
    <3>7. (A + 1) - 1 = A
      BY <3>1
    <3> QED
      BY <3>2, <3>3, <3>4, <3>6, <3>7
  <2> QED
    BY <1>2, <2>1, <2>2, <2>3 DEF Threads
<1> QED
  BY <1>8, <1>9

\* The answer to get_queues is what the set_queues after it needs.
LEMMA AnswerSets ==
  ASSUME TypeInv, OneRequest, QueuedRight, LastRight, NEW t \in Threads, GetResponse(t) \/ NoResponse(t)
  PROVE  QueuedRight' /\ LastRight'
<1>1. tt' = tt /\ training' = training /\ cmdq' = cmdq
  BY DEF GetResponse, NoResponse
<1>2. QueuedRight'
  BY <1>1, QueuedKept
<1>3. CASE t = "loop"
  <2>1. A' = A /\ waiting'["main"] = waiting["main"] /\ last'["main"] = last["main"]
    BY <1>3 DEF GetResponse, NoResponse, Answered, A, TypeInv, TypeOK, Threads
  <2> QED
    BY <1>1, <1>2, <2>1, LastKept
<1>4. CASE t = "main"
  <2>1. PICK s : s = Step("main")
    OBVIOUS
  <2>2. waiting["main"] /\ A <= Len(Script("main")) /\ s.reply /\ MainFacts(s) /\ s.dev \in Dev
    BY <1>4, <2>1, MainSteps DEF GetResponse, NoResponse, TypeInv, Waits, Threads, A, MainFacts
  <2>3. /\ L' = L /\ L \in Nat /\ QuitAt \in Nat /\ QuitAt > L /\ A \in Nat /\ Script("main")' = Script("main")
    BY <1>1, <2>2, Same, ScriptIs, TypeFacts, Devices DEF TypeInv, MainFacts
  <2>4. SUFFICES ASSUME A' <= L, Step("main")'.cmd = "set_queues"
                 PROVE  last'["main"] = Peer(Step("main")'.dev, Step("main")'.name)
    BY <1>2, <2>3 DEF LastRight, Peer
  <2>5. A' \in {QuitAt, A + 1}
    BY <1>4, <2>3 DEF GetResponse, NoResponse, Answered, A, TypeInv, TypeOK, Threads
  <2>6. A' = A + 1 /\ A <= L
    BY <2>3, <2>4, <2>5
  <2>7. Step("main")' = Setup[A + 1]
    BY <2>3, <2>4, <2>6, ScriptIs, TypeFacts DEF Step, A, TypeInv
  <2>8. A + 1 \in DOMAIN Setup /\ GoodSetup(Setup) /\ (A + 1) - 1 = A
    BY <2>3, <2>4, <2>6, SetupGood, TypeFacts DEF L, TypeInv
  <2>9. /\ Setup[A].cmd = "get_queues"
        /\ [dev |-> Setup[A].dev, queue |-> Setup[A].name] = Peer(Setup[A + 1].dev, Setup[A + 1].name)
    <3>1. LET i == A + 1 IN
          /\ Setup[i - 1].cmd = "get_queues"
          /\ [dev |-> Setup[i - 1].dev, queue |-> Setup[i - 1].name] = Peer(Setup[i].dev, Setup[i].name)
      BY <2>4, <2>7, <2>8 DEF GoodSetup
    <3> QED
      BY <2>8, <3>1
  <2>10. s = Setup[A]
    BY <2>2, <2>6 DEF MainFacts
  <2>11. Alone /\ Outstanding
    BY <2>6, OneRequestIs DEF Alone
  <2>12. CASE GetResponse("main")
    <3>1. resp[s.dev] # <<>> /\ Answered("main", Head(resp[s.dev]))
      BY <2>1, <2>12 DEF GetResponse
    <3>2. Served(s)
      BY <2>1, <2>2, <2>11, <3>1 DEF Outstanding, Asked
    <3>3. IsAnswer(s, resp[s.dev][1]) /\ Head(resp[s.dev]) = resp[s.dev][1]
      BY <2>2, <3>1, <3>2 DEF Served, TypeInv, TypeOK
    <3>4. Head(resp[s.dev]) = [dev |-> s.dev, queue |-> s.name]
      BY <2>9, <2>10, <3>3 DEF IsAnswer
    <3>5. last'["main"] = Head(resp[s.dev])
      BY <3>1 DEF Answered, TypeInv, TypeOK, Threads
    <3> QED
      BY <2>7, <2>9, <2>10, <3>4, <3>5
  <2>13. CASE NoResponse("main")
    <3>1. at' = [at EXCEPT !["main"] = QuitAt]
      BY <2>1, <2>9, <2>10, <2>13 DEF NoResponse, Answered
    <3>2. A' = QuitAt
      BY <3>1 DEF A, TypeInv, TypeOK, Threads
    <3> QED
      BY <2>3, <2>4, <3>2
  <2> QED
    BY <1>4, <2>12, <2>13
<1> QED
  BY <1>3, <1>4 DEF Threads

\* set_queues gives the connector what the command carries.
LEMMA CommandSets ==
  ASSUME TypeInv, SetsRight, NEW d \in Dev, CommandStep(d)
  PROVE  SetsRight'
<1>1. PICK c : \/ RanCompile(d, c) \/ RanGet(d, c) \/ RanSet(d, c) \/ RanTransfer(d, c)
               \/ RanForward(d, c) \/ RanSync(d, c) \/ RanCheckpoint(d, c) \/ RanQuit(d, c)
  BY DEF CommandStep
<1>2. Ran(d, c)
  BY <1>1 DEF RanCompile, RanGet, RanSet, RanTransfer, RanForward, RanSync, RanCheckpoint, RanQuit
<1>3. /\ tt' = tt /\ training' = training /\ at' = at /\ waiting' = waiting /\ last' = last
      /\ cmdq[d] # <<>> /\ c = Head(cmdq[d]) /\ cmdq' = [cmdq EXCEPT ![d] = Tail(@)]
  BY <1>2 DEF Ran, clientVars
<1>4. QueuedRight'
  BY <1>3, TakenKept, QueuedKept, SetsRightIs
<1>5. LastRight'
  BY <1>3, LastKept, SetsRightIs DEF A
<1>6. c.cmd = "set_queues" => c.name \in Directions /\ c.desc = Peer(d, c.name)
  BY <1>3, TakenKept, SetsRightIs DEF QueuedRight
<1>7. ConnRight'
  <2>0. ConnRight /\ DOMAIN conn = Dev
    BY SetsRightIs DEF TypeInv, TypeOK
  <2>1. CASE RanSet(d, c)
    <3>1. c.cmd = "set_queues" /\ conn' = [conn EXCEPT ![d] = [r \in {c.name} \cup DOMAIN @ |->
                                       IF r = c.name THEN c.desc ELSE @[r]]]
      BY <2>1 DEF RanSet, RunSetQueues
    <3>2. conn'[d] = [r \in {c.name} \cup DOMAIN conn[d] |-> IF r = c.name THEN c.desc ELSE conn[d][r]]
      BY <2>0, <3>1
    <3>3. \A e \in Dev \ {d} : conn'[e] = conn[e]
      BY <2>0, <3>1
    <3>4. /\ DOMAIN conn'[d] \subseteq Directions
          /\ \A r \in DOMAIN conn'[d] : conn'[d][r] = Peer(d, r)
      BY <1>6, <2>0, <3>1, <3>2 DEF ConnRight, DescriptorsOfPeers
    <3>5. ASSUME NEW e \in Dev
          PROVE  DOMAIN conn'[e] \subseteq Directions /\ \A r \in DOMAIN conn'[e] : conn'[e][r] = Peer(e, r)
      <4>1. CASE e = d
        BY <3>4, <4>1
      <4>2. CASE e # d
        BY <2>0, <3>3, <4>2 DEF ConnRight, DescriptorsOfPeers
      <4> QED
        BY <4>1, <4>2
    <3>6. \A e \in Dev : DOMAIN conn'[e] \subseteq Directions
      BY <3>5
    <3>7. \A e \in Dev : \A r \in DOMAIN conn'[e] : conn'[e][r] = Peer(e, r)
      BY <3>5
    <3> QED
      BY <3>6, <3>7 DEF ConnRight, DescriptorsOfPeers, Peer
  <2>2. CASE ~RanSet(d, c)
    <3>1. conn' = conn
      BY <1>1, <2>2 DEF RanCompile, RanGet, RanTransfer, RanForward, RanSync, RanCheckpoint, RanQuit,
         RunCompile, RunGetQueues, RunTransfer, RunRunForward, RunSync, RunCheckpoint, deviceVars
    <3> QED
      BY <2>0, <3>1 DEF ConnRight, DescriptorsOfPeers, Peer
  <2> QED
    BY <2>1, <2>2
<1> QED
  BY <1>4, <1>5, <1>7, SetsRightIs DEF SetsRight, QueuedRight, LastRight, ConnRight

\* Every step keeps the descriptors right, queued or set.
LEMMA SetsStep ==
  ASSUME TypeInv, OneRequest, SetsRight, [Next]_vars
  PROVE  SetsRight'
<1>0. QueuedRight /\ LastRight /\ ConnRight
  BY SetsRightIs
<1>1. Steps0
  BY NextSteps
<1>2. ASSUME conn' = conn, QueuedRight', LastRight' PROVE SetsRight'
  BY <1>0, <1>2 DEF SetsRight, QueuedRight, LastRight, ConnRight, DescriptorsOfPeers, Peer
<1>3. ASSUME conn' = conn, tt' = tt, training' = training, at' = at, waiting' = waiting, last' = last,
             \A d \in Dev : \A i \in DOMAIN cmdq'[d] : \E j \in DOMAIN cmdq[d] : cmdq'[d][i] = cmdq[d][j]
      PROVE  SetsRight'
  <2>1. QueuedRight'
    BY <1>0, <1>3, QueuedKept
  <2>2. LastRight'
    BY <1>0, <1>3, LastKept DEF A
  <2> QED
    BY <1>2, <1>3, <2>1, <2>2
<1>4. ASSUME NEW t \in Threads, ClientStep(t) PROVE SetsRight'
  <2>1. conn' = conn
    BY <1>4 DEF ClientStep, Send, StopRun, GetResponse, NoResponse, deviceVars
  <2>2. CASE StopRun(t)
    <3>1. /\ QueuedRight'
      BY <1>0, <2>2, QueuedKept DEF StopRun
    <3>2. L' = L /\ L \in Nat /\ SyncAt \in Nat /\ L < SyncAt /\ QuitAt = SyncAt + N /\ N \in Nat
      BY <2>2, Same, ScriptIs, TypeFacts, Devices DEF StopRun, TypeInv
    <3>3. A' \in {SyncAt, QuitAt}
      BY <2>2, <3>2 DEF StopRun, GivesUp, A, TypeInv, TypeOK, Threads
    <3>4. LastRight'
      BY <3>2, <3>3 DEF LastRight
    <3> QED
      BY <1>2, <2>1, <3>1, <3>4
  <2> QED
    BY <1>0, <1>2, <1>4, <2>1, <2>2, SendSets, AnswerSets DEF ClientStep
<1>5. CASE MainStep
  <2>1. CASE SkipSync
    <3>1. QueuedRight' /\ conn' = conn
      BY <1>0, <2>1, QueuedKept DEF SkipSync, deviceVars
    <3>2. L' = L /\ L \in Nat /\ SyncAt \in Nat /\ L < SyncAt /\ QuitAt = SyncAt + N /\ N \in Nat
      BY <2>1, Same, ScriptIs, TypeFacts, Devices DEF SkipSync, TypeInv
    <3>3. A' = QuitAt
      BY <2>1 DEF SkipSync, A, TypeInv, TypeOK, Threads
    <3>4. LastRight'
      BY <3>2, <3>3 DEF LastRight
    <3> QED
      BY <1>2, <3>1, <3>4
  <2>2. CASE PassBarrier \/ BarrierBroken \/ LoopJoined \/ Joined \/ Reap
    <3>1. /\ conn' = conn /\ tt' = tt /\ training' = training /\ at' = at /\ waiting' = waiting /\ last' = last
          /\ cmdq' = cmdq
      BY <2>2 DEF PassBarrier, BarrierBroken, LoopJoined, Joined, Reap, deviceVars
    <3> QED
      BY <1>3, <3>1
  <2> QED
    BY <1>5, <2>1, <2>2 DEF MainStep
<1>6. ASSUME NEW d \in Dev, DeviceStep(d) PROVE SetsRight'
  <2>1. /\ conn' = conn /\ tt' = tt /\ training' = training /\ at' = at /\ waiting' = waiting /\ last' = last
    BY <1>6 DEF DeviceStep, SeeShutdown, CommandRaises, Forward, ForwardAbandoned, ThreadsShutDown, Close,
                clientVars, deviceVars
  <2>2. CASE CommandRaises(d)
    BY <1>3, <2>1, <2>2, TakenKept DEF CommandRaises
  <2>3. CASE ForwardAbandoned(d)
    <3>1. cmdq' = [cmdq EXCEPT ![d] = <<>>]
      BY <2>3 DEF ForwardAbandoned
    <3>2. cmdq'[d] = <<>> /\ DOMAIN <<>> = {} /\ \A e \in Dev \ {d} : cmdq'[e] = cmdq[e]
      BY <3>1 DEF TypeInv, TypeOK
    <3> QED
      BY <1>3, <2>1, <3>2
  <2>4. CASE SeeShutdown(d) \/ Forward(d) \/ ThreadsShutDown(d) \/ Close(d)
    <3>1. cmdq' = cmdq
      BY <2>4 DEF SeeShutdown, Forward, ThreadsShutDown, Close
    <3> QED
      BY <1>3, <2>1, <3>1
  <2> QED
    BY <1>6, <2>2, <2>3, <2>4 DEF DeviceStep
<1>7. ASSUME NEW d \in Dev, BesideStep(d) PROVE SetsRight'
  <2>1. /\ conn' = conn /\ tt' = tt /\ training' = training /\ at' = at /\ waiting' = waiting /\ last' = last
        /\ cmdq' = cmdq
    BY <1>7 DEF BesideStep, Transfer, Pusher, PusherGet, PusherSeesShutdown, InternalPush, PushRaises, RunProgram,
                clientVars, deviceVars
  <2> QED
    BY <1>3, <2>1
<1>8. CASE UNCHANGED vars
  BY <1>3, <1>8 DEF vars, clientVars, deviceVars
<1> QED
  BY <1>1, <1>4, <1>5, <1>6, <1>7, <1>8, CommandSets DEF Steps0

\* All of it holds at first ...
LEMMA InitAnswer ==
  ASSUME Init
  PROVE  AnswerInv
<1>1. TypeInv
  BY InitType
<1>2. Kinds
  BY DEF Init, Kinds
<1>3. OneRequest
  BY DEF Init, OneRequest, Unasked, Threads
<1>4. LoopLater
  BY DEF Init, LoopLater, Threads
<1>5. QueuedRight /\ ConnRight
  BY DEF Init, QueuedRight, ConnRight, DescriptorsOfPeers
<1>6. LastRight
  <2>1. A = 1
    BY DEF Init, A, Threads
  <2>2. SUFFICES ASSUME A <= L, Step("main").cmd = "set_queues" PROVE FALSE
    BY DEF LastRight
  <2>3. L \in Nat /\ SyncAt \in Nat /\ L < SyncAt /\ QuitAt = SyncAt + N /\ Len(Script("main")) = QuitAt + N - 1 /\ N \in Nat
    BY <1>1, ScriptIs, TypeFacts, Devices DEF TypeInv
  <2>4. MainFacts(Step("main"))
    BY <1>1, <2>1, <2>2, <2>3, MainSteps DEF TypeInv
  <2> QED
    BY <2>1, <2>2, <2>4 DEF MainFacts
<1> QED
  BY <1>1, <1>2, <1>3, <1>4, <1>5, <1>6, SetsRightIs DEF AnswerInv

\* ... and every step keeps it.
LEMMA AnswerStep ==
  ASSUME AnswerInv, [Next]_vars
  PROVE  AnswerInv'
BY TypeStep, KindsStep, RequestStep, LoopStep, SetsStep DEF AnswerInv

\* Whatever fails, and however the answers of two threads mix, a connector only
\* ever gets the descriptors of the queues it is there for: while they are
\* passed, the one response queue of a device holds the answer to the one
\* request there is (_pass_dram_io_descriptors, get_command_queue_response).
THEOREM PeersAlways == Spec => []DescriptorsOfPeers
<1>1. AnswerInv => DescriptorsOfPeers
  BY DEF AnswerInv, SetsRight
<1> QED
  BY <1>1, InitAnswer, AnswerStep, PTL DEF Spec

-----------------------------------------------------------------------------
(* Counting the elements of a sequence that are in a set.                  *)

\* The elements of s that are in X, counted.
Tally(s, X) == Cardinality({i \in DOMAIN s : s[i] \in X})

\* A tally is a number.
LEMMA TallyType ==
  ASSUME NEW T, NEW s \in Seq(T), NEW X
  PROVE  /\ IsFiniteSet({i \in DOMAIN s : s[i] \in X}) /\ Tally(s, X) \in Nat
         /\ (\A i \in DOMAIN s : s[i] \notin X) <=> Tally(s, X) = 0
<1> DEFINE S == {i \in DOMAIN s : s[i] \in X}
<1>1. DOMAIN s = 1 .. Len(s) /\ Len(s) \in Nat
  OBVIOUS
<1>2. IsFiniteSet(S)
  <2>1. IsFiniteSet(1 .. Len(s)) /\ S \in SUBSET (1 .. Len(s))
    BY <1>1, FS_Interval
  <2> HIDE DEF S
  <2> QED
    BY <2>1, FS_Subset
<1>3. Cardinality(S) \in Nat /\ (Cardinality(S) = 0 <=> S = {})
  BY <1>2, FS_CardinalityType, FS_EmptySet
<1> QED
  BY <1>2, <1>3 DEF Tally

\* The tally of two sequences one after the other ...
LEMMA TallyConcat ==
  ASSUME NEW T, NEW a \in Seq(T), NEW b \in Seq(T), NEW X
  PROVE  Tally(a \o b, X) = Tally(a, X) + Tally(b, X)
<1> DEFINE SA == {i \in DOMAIN a : a[i] \in X}
           SB == {i \in DOMAIN b : b[i] \in X}
           SC == {i \in DOMAIN (a \o b) : (a \o b)[i] \in X}
           SD == {j \in Len(a) + 1 .. Len(a) + Len(b) : j - Len(a) \in SB}
           g == [i \in SB |-> Len(a) + i]
<1>1. /\ Len(a) \in Nat /\ Len(b) \in Nat /\ DOMAIN a = 1 .. Len(a) /\ DOMAIN b = 1 .. Len(b)
      /\ DOMAIN (a \o b) = 1 .. Len(a) + Len(b)
      /\ \A i \in 1 .. Len(a) + Len(b) : (a \o b)[i] = IF i <= Len(a) THEN a[i] ELSE b[i - Len(a)]
  BY ConcatProperties, LenProperties
<1>2. IsFiniteSet(SA) /\ IsFiniteSet(SB)
  BY TallyType
<1>3. SC = SA \cup SD /\ SA \cap SD = {}
  BY <1>1
<1>4. ExistsBijection(SB, SD)
  <2>1. g \in [SB -> SD]
    BY <1>1
  <2>2. \A x, y \in SB : g[x] = g[y] => x = y
    BY <1>1
  <2>3. \A j \in SD : \E x \in SB : g[x] = j
    <3>1. SUFFICES ASSUME NEW j \in SD PROVE j - Len(a) \in SB /\ g[j - Len(a)] = j
      OBVIOUS
    <3> QED
      BY <1>1
  <2> HIDE DEF g, SB, SD
  <2>4. g \in Injection(SB, SD)
    BY <2>1, <2>2 DEF Injection, IsInjective
  <2>5. g \in Surjection(SB, SD)
    BY <2>1, <2>3 DEF Surjection
  <2> QED
    BY <2>4, <2>5 DEF ExistsBijection, Bijection
<1>5. IsFiniteSet(SD) /\ Cardinality(SD) = Cardinality(SB)
  BY <1>2, <1>4, FS_Bijection
<1>6. Cardinality(SC) = Cardinality(SA) + Cardinality(SD) - Cardinality(SA \cap SD)
  BY <1>2, <1>3, <1>5, FS_Union
<1>7. Cardinality(SA \cap SD) = 0 /\ Cardinality(SA) \in Nat /\ Cardinality(SD) \in Nat
  BY <1>2, <1>3, <1>5, FS_EmptySet, FS_CardinalityType
<1>8. /\ Tally(a \o b, X) = Cardinality(SC) /\ Tally(a, X) = Cardinality(SA)
      /\ Tally(b, X) = Cardinality(SB)
  BY DEF Tally
<1> HIDE DEF SA, SB, SC, SD
<1> QED
  BY <1>5, <1>6, <1>7, <1>8

\* ... of one element ...
LEMMA TallyOne ==
  ASSUME NEW x, NEW X
  PROVE  Tally(<<x>>, X) = IF x \in X THEN 1 ELSE 0
<1>1. CASE x \in X
  <2>1. {i \in DOMAIN <<x>> : <<x>>[i] \in X} = {1}
    BY <1>1
  <2> QED
    BY <1>1, <2>1, FS_Singleton DEF Tally
<1>2. CASE x \notin X
  <2>1. {i \in DOMAIN <<x>> : <<x>>[i] \in X} = {}
    BY <1>2
  <2> QED
    BY <1>2, <2>1, FS_EmptySet DEF Tally
<1> QED
  BY <1>1, <1>2

\* ... of one more ...
LEMMA TallyAppend ==
  ASSUME NEW T, NEW s \in Seq(T), NEW x \in T, NEW X
  PROVE  Tally(Append(s, x), X) = Tally(s, X) + (IF x \in X THEN 1 ELSE 0)
<1>1. Append(s, x) = s \o <<x>> /\ <<x>> \in Seq(T)
  BY AppendIsConcat
<1>2. Tally(s \o <<x>>, X) = Tally(s, X) + Tally(<<x>>, X)
  BY <1>1, TallyConcat
<1>3. Tally(<<x>>, X) = IF x \in X THEN 1 ELSE 0
  BY TallyOne
<1>4. Tally(Append(s, x), X) = Tally(s, X) + Tally(<<x>>, X)
  BY <1>1, <1>2
<1> QED
  BY <1>3, <1>4

\* ... and of the first and the others.
LEMMA TallyTail ==
  ASSUME NEW T, NEW s \in Seq(T), s # <<>>, NEW X
  PROVE  Tally(s, X) = Tally(Tail(s), X) + (IF Head(s) \in X THEN 1 ELSE 0)
<1>1. Head(s) \in T /\ Tail(s) \in Seq(T) /\ <<Head(s)>> \in Seq(T)
  BY HeadTailProperties
<1>2. s = <<Head(s)>> \o Tail(s)
  OBVIOUS
<1>3. Tally(<<Head(s)>> \o Tail(s), X) = Tally(<<Head(s)>>, X) + Tally(Tail(s), X)
  BY <1>1, TallyConcat
<1>4. Tally(<<Head(s)>>, X) = IF Head(s) \in X THEN 1 ELSE 0
  BY TallyOne
<1>5. Tally(Tail(s), X) \in Nat
  BY <1>1, TallyType
<1>6. Tally(s, X) = Tally(<<Head(s)>>, X) + Tally(Tail(s), X)
  BY <1>2, <1>3
<1> QED
  BY <1>4, <1>5, <1>6

\* The tally of what is done for one index after the other, from its partial
\* sums.
LEMMA TallyFlatten ==
  ASSUME NEW T, NEW s \in Seq(Seq(T)), NEW X, NEW g \in [0 .. Len(s) -> Nat], g[0] = 0,
         \A i \in 1 .. Len(s) : g[i] = g[i - 1] + Tally(s[i], X)
  PROVE  Tally(FlattenSeq(s), X) = g[Len(s)]
<1>1. PICK f \in [0 .. Len(s) -> Seq(T)] :
            /\ f[0] = <<>>
            /\ \A i \in 1 .. Len(s) : f[i] = f[i - 1] \o s[i]
            /\ FlattenSeq(s) = f[Len(s)]
  BY FlattenSteps
<1>2. Len(s) \in Nat /\ \A i \in 1 .. Len(s) : s[i] \in Seq(T)
  OBVIOUS
<1> DEFINE Good == {i \in 0 .. Len(s) : Tally(f[i], X) = g[i]}
<1>3. 0 \in Good
  <2>1. {i \in DOMAIN <<>> : <<>>[i] \in X} = {}
    OBVIOUS
  <2>2. Tally(<<>>, X) = 0
    BY <2>1, FS_EmptySet DEF Tally
  <2> QED
    BY <1>1, <1>2, <2>2
<1>4. ASSUME NEW i \in 1 .. Len(s), i - 1 \in Good PROVE i \in Good
  <2>1. f[i] = f[i - 1] \o s[i] /\ f[i - 1] \in Seq(T) /\ s[i] \in Seq(T) /\ Tally(f[i - 1], X) = g[i - 1]
    BY <1>1, <1>2, <1>4
  <2>2. Tally(f[i - 1] \o s[i], X) = Tally(f[i - 1], X) + Tally(s[i], X)
    BY <2>1, TallyConcat
  <2>3. Tally(f[i], X) = g[i]
    BY <2>1, <2>2
  <2> QED
    BY <1>2, <2>3
<1>5. \A i \in 0 .. Len(s) : i \in Good
  <2> HIDE DEF Good
  <2> QED
    BY <1>2, <1>3, <1>4, Induct
<1>6. Len(s) \in Good
  <2> HIDE DEF Good
  <2> QED
    BY <1>2, <1>5
<1> QED
  BY <1>1, <1>6

-----------------------------------------------------------------------------
(* What is left of the script.                                             *)

\* What the last device is told to run, and what its transfer thread is told
\* to move: commands on their way, and the steps that send them.
RunCommands == {c \in Commands : c.cmd = "run_forward"}
MoveCommands == {c \in Commands : c.cmd = "dc_transfer" /\ (N = 1 \/ c.name = "forward")}
LastRuns == {x \in Steps : x.dev = N /\ x.cmd = "run_forward"}
LastMoves == {x \in Steps : x.dev = N /\ x.cmd = "dc_transfer" /\ (N = 1 \/ x.name = "forward")}

\* The tally of two elements.
LEMMA TallyPair ==
  ASSUME NEW x, NEW y, NEW X
  PROVE  Tally(<<x, y>>, X) = (IF x \in X THEN 1 ELSE 0) + (IF y \in X THEN 1 ELSE 0)
<1> DEFINE T == {x, y}
<1>1. <<x>> \in Seq(T) /\ <<y>> \in Seq(T)
  OBVIOUS
<1>2. Tally(<<x>> \o <<y>>, X) = Tally(<<x>>, X) + Tally(<<y>>, X)
  BY <1>1, TallyConcat
<1>3. Tally(<<x>>, X) = (IF x \in X THEN 1 ELSE 0) /\ Tally(<<y>>, X) = (IF y \in X THEN 1 ELSE 0)
  BY TallyOne
<1>4. <<x>> \o <<y>> = <<x, y>>
  BY Pair
<1> QED
  BY <1>2, <1>3, <1>4

\* Which steps of _run_forward give the last device something to run or to move.
LEMMA StepKinds ==
  /\ Drain \notin LastRuns /\ Drain \in LastMoves
  /\ \A d \in Dev : /\ Feed(d) \notin LastRuns /\ RunOne(d) \notin LastMoves
                    /\ RunOne(d) \in LastRuns <=> d = N
                    /\ Feed(d) \in LastMoves <=> d = N /\ N = 1
<1>1. Drain \in Steps /\ \A d \in Dev : Feed(d) \in Steps /\ RunOne(d) \in Steps
  BY RunStepTypes DEF RunSteps
<1>2. Drain.dev = N /\ Drain.cmd = "dc_transfer" /\ Drain.name = "forward"
  BY DEF Drain
<1>3. ASSUME NEW d \in Dev
      PROVE  /\ Feed(d).dev = d /\ Feed(d).cmd = "dc_transfer" /\ Feed(d).name = "forward_input"
             /\ RunOne(d).dev = d /\ RunOne(d).cmd = "run_forward"
  BY DEF Feed, RunOne
<1> QED
  BY <1>1, <1>2, <1>3 DEF LastRuns, LastMoves

\* One round of the devices runs one program on the last device ...
LEMMA FeedsTally ==
  /\ Tally(FlattenSeq(Feeds), LastRuns) = 1
  /\ Tally(FlattenSeq(Feeds), LastMoves) = IF N = 1 THEN 1 ELSE 0
<1>1. N \in Nat /\ N >= 1 /\ Dev = 1 .. N /\ Feeds \in Seq(Seq(RunSteps)) /\ Len(Feeds) = N
  BY Devices, RunForwardIs
<1>2. ASSUME NEW d \in 1 .. N
      PROVE  /\ Tally(Feeds[d], LastRuns) = IF d = N THEN 1 ELSE 0
             /\ Tally(Feeds[d], LastMoves) = IF d = N /\ N = 1 THEN 1 ELSE 0
  <2>1. Feeds[d] = <<Feed(d), RunOne(d)>>
    BY DEF Feeds
  <2>2. /\ Tally(Feeds[d], LastRuns) = (IF Feed(d) \in LastRuns THEN 1 ELSE 0) + (IF RunOne(d) \in LastRuns THEN 1 ELSE 0)
        /\ Tally(Feeds[d], LastMoves) = (IF Feed(d) \in LastMoves THEN 1 ELSE 0) + (IF RunOne(d) \in LastMoves THEN 1 ELSE 0)
    BY <2>1, TallyPair
  <2>3. /\ Feed(d) \notin LastRuns /\ RunOne(d) \notin LastMoves
        /\ RunOne(d) \in LastRuns <=> d = N
        /\ Feed(d) \in LastMoves <=> d = N /\ N = 1
    BY <1>1, StepKinds
  <2> QED
    BY <2>2, <2>3
<1>3. Tally(FlattenSeq(Feeds), LastRuns) = 1
  <2> DEFINE g == [i \in 0 .. N |-> IF i = N THEN 1 ELSE 0]
  <2>1. g \in [0 .. N -> Nat] /\ g[0] = 0 /\ g[N] = 1
    BY <1>1
  <2>2. \A i \in 1 .. N : g[i] = g[i - 1] + Tally(Feeds[i], LastRuns)
    BY <1>1, <1>2
  <2> HIDE DEF g
  <2> QED
    BY <1>1, <2>1, <2>2, TallyFlatten
<1>4. Tally(FlattenSeq(Feeds), LastMoves) = IF N = 1 THEN 1 ELSE 0
  <2> DEFINE g == [i \in 0 .. N |-> IF i = N /\ N = 1 THEN 1 ELSE 0]
  <2>1. g \in [0 .. N -> Nat] /\ g[0] = 0 /\ g[N] = IF N = 1 THEN 1 ELSE 0
    BY <1>1
  <2>2. \A i \in 1 .. N : g[i] = g[i - 1] + Tally(Feeds[i], LastMoves)
    BY <1>1, <1>2
  <2> HIDE DEF g
  <2> QED
    BY <1>1, <2>1, <2>2, TallyFlatten
<1> QED
  BY <1>3, <1>4

\* ... and _run_forward moves one output of it besides ...
LEMMA ForwardTally ==
  /\ Tally(RunForward, LastRuns) = 1
  /\ Tally(RunForward, LastMoves) = IF N = 1 THEN 2 ELSE 1
<1>1. /\ RunForward = FlattenSeq(Feeds) \o <<Drain>> /\ Feeds \in Seq(Seq(RunSteps))
      /\ FlattenSeq(Feeds) \in Seq(RunSteps) /\ <<Drain>> \in Seq(RunSteps)
  BY RunForwardIs, FlattenType, RunStepTypes
<1>2. \A X : Tally(RunForward, X) = Tally(FlattenSeq(Feeds), X) + (IF Drain \in X THEN 1 ELSE 0)
  <2>1. SUFFICES ASSUME NEW X
                 PROVE  Tally(RunForward, X) = Tally(FlattenSeq(Feeds), X) + (IF Drain \in X THEN 1 ELSE 0)
    OBVIOUS
  <2>2. Tally(RunForward, X) = Tally(FlattenSeq(Feeds), X) + Tally(<<Drain>>, X)
    BY <1>1, TallyConcat
  <2>3. Tally(<<Drain>>, X) = IF Drain \in X THEN 1 ELSE 0
    BY TallyOne
  <2> QED
    BY <2>2, <2>3
<1> QED
  BY <1>2, FeedsTally, StepKinds

\* ... so the run does both for every input.
LEMMA RunTally ==
  /\ Tally(Run, LastRuns) = Inputs
  /\ Tally(Run, LastMoves) = IF N = 1 THEN 2 * Inputs ELSE Inputs
<1>1. /\ InputCount \in Nat /\ Rounds \in Seq(Seq(RunSteps)) /\ Len(Rounds) = InputCount
      /\ \A i \in 1 .. InputCount : Rounds[i] = RunForward
  BY Devices, RunIs DEF Rounds
<1>2. CASE training
  <2>1. Run = <<>> /\ Inputs = 0 /\ <<>> \in Seq(Steps) /\ DOMAIN <<>> = {}
    BY <1>2, RunIs DEF Inputs
  <2>2. Tally(Run, LastRuns) = 0 /\ Tally(Run, LastMoves) = 0
    BY <2>1, TallyType
  <2> QED
    BY <2>1, <2>2
<1>3. CASE ~training
  <2>1. Run = FlattenSeq(Rounds) /\ Inputs = InputCount
    BY <1>3, RunIs DEF Inputs
  <2>2. Tally(FlattenSeq(Rounds), LastRuns) = InputCount
    <3> DEFINE g == [i \in 0 .. InputCount |-> i]
    <3>1. g \in [0 .. InputCount -> Nat] /\ g[0] = 0 /\ g[InputCount] = InputCount
      BY <1>1
    <3>2. \A i \in 1 .. InputCount : g[i] = g[i - 1] + Tally(Rounds[i], LastRuns)
      BY <1>1, ForwardTally
    <3> HIDE DEF g
    <3> QED
      BY <1>1, <3>1, <3>2, TallyFlatten
  <2>3. Tally(FlattenSeq(Rounds), LastMoves) = IF N = 1 THEN 2 * InputCount ELSE InputCount
    <3> DEFINE g == [i \in 0 .. InputCount |-> IF N = 1 THEN 2 * i ELSE i]
    <3>1. g \in [0 .. InputCount -> Nat] /\ g[0] = 0 /\ g[InputCount] = IF N = 1 THEN 2 * InputCount ELSE InputCount
      BY <1>1
    <3>2. \A i \in 1 .. InputCount : g[i] = g[i - 1] + Tally(Rounds[i], LastMoves)
      BY <1>1, ForwardTally
    <3> HIDE DEF g
    <3> QED
      BY <1>1, <3>1, <3>2, TallyFlatten
  <2> QED
    BY <2>1, <2>2, <2>3
<1> QED
  BY <1>2, <1>3

\* What the main thread has yet to send.
Rest(X) == Cardinality({j \in A .. SyncAt - 1 : (Setup \o Run)[j] \in X})

\* At first all of it is left to do ...
LEMMA RestAtFirst ==
  ASSUME tt \subseteq Dev, A = 1
  PROVE  /\ Rest(LastRuns) = Inputs
         /\ Rest(LastMoves) = IF N = 1 THEN 2 * Inputs ELSE Inputs
<1>1. Setup \in Seq(Steps) /\ GoodSetup(Setup)
  BY SetupGood
<1>2. Run \in Seq(Steps)
  <2>1. RunSteps \subseteq Steps /\ Run \in Seq(RunSteps)
    BY RunIs DEF RunSteps
  <2> QED
    BY <2>1, SeqMonotonic
<1>3. Setup \o Run \in Seq(Steps) /\ DOMAIN (Setup \o Run) = 1 .. SyncAt - 1
  <2>1. Setup \o Run \in Seq(Steps) /\ Len(Setup \o Run) \in Nat /\ SyncAt = Len(Setup \o Run) + 1
    BY <1>1, <1>2 DEF SyncAt
  <2>2. DOMAIN (Setup \o Run) = 1 .. Len(Setup \o Run)
    BY <2>1, LenProperties
  <2>3. SyncAt - 1 = Len(Setup \o Run)
    BY <2>1
  <2> QED
    BY <2>1, <2>2, <2>3
<1>4. \A i \in DOMAIN Setup : Setup[i] \notin LastRuns /\ Setup[i] \notin LastMoves
  BY <1>1 DEF GoodSetup, LastRuns, LastMoves
<1>5. Tally(Setup, LastRuns) = 0 /\ Tally(Setup, LastMoves) = 0
  BY <1>1, <1>4, TallyType
<1>6. \A X : Rest(X) = Tally(Setup \o Run, X)
  BY <1>3 DEF Rest, Tally
<1>7. \A X : Tally(Setup \o Run, X) = Tally(Setup, X) + Tally(Run, X)
  BY <1>1, <1>2, TallyConcat
<1>8. Inputs \in Nat
  BY Devices DEF Inputs
<1> QED
  BY <1>5, <1>6, <1>7, <1>8, RunTally

\* The setup and the run are sequences of steps.
LEMMA WholeRun ==
  ASSUME tt \subseteq Dev
  PROVE  /\ Setup \in Seq(Steps) /\ Run \in Seq(Steps) /\ Setup \o Run \in Seq(Steps)
         /\ L = Len(Setup) /\ L \in Nat /\ SyncAt \in Nat
<1>1. Run \in Seq(Steps)
  <2>1. RunSteps \subseteq Steps /\ Run \in Seq(RunSteps)
    BY RunIs DEF RunSteps
  <2> QED
    BY <2>1, SeqMonotonic
<1>2. Setup \in Seq(Steps)
  BY SetupGood
<1> QED
  BY <1>1, <1>2, ScriptIs DEF L

\* ... a step elsewhere changes nothing of what is left ...
LEMMA RestKept ==
  ASSUME tt' = tt, training' = training, at'["main"] = at["main"]
  PROVE  \A X : Rest(X)' = Rest(X)
<1>1. Setup' = Setup /\ SyncAt' = SyncAt
  BY Same
<1>2. Run' = Run
  BY DEF Run, RunForward, EachDevice, If, Order
<1>3. A' = A
  BY DEF A
<1> QED
  BY <1>1, <1>2, <1>3 DEF Rest

\* ... there is nothing left from the sync on ...
LEMMA RestIs ==
  ASSUME tt \subseteq Dev, A \in Nat
  PROVE  \A X : Rest(X) \in Nat /\ (A >= SyncAt => Rest(X) = 0)
<1> SUFFICES ASSUME NEW X PROVE Rest(X) \in Nat /\ (A >= SyncAt => Rest(X) = 0)
  OBVIOUS
<1> DEFINE S == {j \in A .. SyncAt - 1 : (Setup \o Run)[j] \in X}
<1>1. SyncAt \in Nat
  BY WholeRun
<1>2. IsFiniteSet(S)
  <2>1. IsFiniteSet(A .. SyncAt - 1) /\ S \in SUBSET (A .. SyncAt - 1)
    BY <1>1, FS_Interval
  <2> HIDE DEF S
  <2> QED
    BY <2>1, FS_Subset
<1>3. Cardinality(S) \in Nat
  <2> HIDE DEF S
  <2> QED
    BY <1>2, FS_CardinalityType
<1>4. A >= SyncAt => S = {}
  BY <1>1
<1> QED
  BY <1>3, <1>4, FS_EmptySet DEF Rest

\* ... and a step of the main thread is taken off.
LEMMA RestNext ==
  ASSUME tt \subseteq Dev, tt' = tt, training' = training, A \in Nat \ {0}, A < SyncAt,
         at'["main"] = A + 1
  PROVE  \A X : /\ Rest(X)' \in Nat
                /\ Rest(X) = Rest(X)' + (IF Step("main") \in X THEN 1 ELSE 0)
<1> SUFFICES ASSUME NEW X
             PROVE  /\ Rest(X)' \in Nat
                    /\ Rest(X) = Rest(X)' + (IF Step("main") \in X THEN 1 ELSE 0)
  OBVIOUS
<1>1. Setup' = Setup /\ SyncAt' = SyncAt
  BY Same
<1>2. Run' = Run
  BY DEF Run, RunForward, EachDevice, If, Order
<1>3. A' = A + 1
  BY DEF A
<1>4. SyncAt \in Nat
  BY WholeRun
<1>5. Step("main") = (Setup \o Run)[A]
  <2>1. A \in 1 .. SyncAt - 1
    BY <1>4
  <2> QED
    BY <2>1, ScriptIs DEF Step, A
<1> DEFINE s == Setup \o Run
           a == A
           n == SyncAt - 1
           S == {j \in a .. n : s[j] \in X}
           T == {j \in a + 1 .. n : s[j] \in X}
<1>6. Rest(X) = Cardinality(S) /\ Rest(X)' = Cardinality(T)
  BY <1>1, <1>2, <1>3 DEF Rest
<1>7. a \in Nat /\ n \in Nat /\ a <= n
  BY <1>4
<1>8. Step("main") = s[a]
  BY <1>5
<1> HIDE DEF s, a, n
<1>9. IsFiniteSet(T)
  <2>1. IsFiniteSet(a + 1 .. n) /\ T \in SUBSET (a + 1 .. n)
    BY <1>7, FS_Interval
  <2> HIDE DEF T
  <2> QED
    BY <2>1, FS_Subset
<1>10. Cardinality(T) \in Nat
  <2> HIDE DEF T
  <2> QED
    BY <1>9, FS_CardinalityType
<1>11. a \notin T /\ S = IF s[a] \in X THEN T \cup {a} ELSE T
  BY <1>7
<1> HIDE DEF S, T
<1>12. CASE s[a] \in X
  BY <1>6, <1>8, <1>9, <1>10, <1>11, <1>12, FS_AddElement
<1>13. CASE s[a] \notin X
  BY <1>6, <1>8, <1>10, <1>11, <1>13
<1> QED
  BY <1>12, <1>13

\* Where x occurs in a sequence.
Has(s, x) == \E j \in DOMAIN s : s[j] = x

\* A step is in the concatenation of two sequences if it is in one of them ...
LEMMA HasConcat ==
  ASSUME NEW T, NEW a \in Seq(T), NEW b \in Seq(T), NEW x, Has(a, x) \/ Has(b, x)
  PROVE  Has(a \o b, x)
<1>1. /\ DOMAIN a = 1 .. Len(a) /\ DOMAIN b = 1 .. Len(b) /\ Len(a) \in Nat /\ Len(b) \in Nat
      /\ DOMAIN (a \o b) = 1 .. Len(a) + Len(b)
      /\ \A i \in 1 .. Len(a) : (a \o b)[i] = a[i]
      /\ \A i \in 1 .. Len(b) : (a \o b)[Len(a) + i] = b[i]
  OBVIOUS
<1>2. CASE Has(a, x)
  BY <1>1, <1>2 DEF Has
<1>3. CASE Has(b, x)
  <2>1. PICK i \in 1 .. Len(b) : b[i] = x
    BY <1>1, <1>3 DEF Has
  <2>2. Len(a) + i \in DOMAIN (a \o b) /\ (a \o b)[Len(a) + i] = x
    BY <1>1, <2>1
  <2> QED
    BY <2>2 DEF Has
<1> QED
  BY <1>2, <1>3

\* ... and in that of many.
LEMMA HasFlatten ==
  ASSUME NEW T, NEW s \in Seq(Seq(T)), NEW i \in 1 .. Len(s), NEW x, Has(s[i], x)
  PROVE  Has(FlattenSeq(s), x)
<1>1. PICK f \in [0 .. Len(s) -> Seq(T)] :
            /\ f[0] = <<>>
            /\ \A k \in 1 .. Len(s) : f[k] = f[k - 1] \o s[k]
            /\ FlattenSeq(s) = f[Len(s)]
  BY FlattenSteps
<1>2. Len(s) \in Nat /\ \A k \in 1 .. Len(s) : s[k] \in Seq(T)
  OBVIOUS
<1> DEFINE S == {k \in 0 .. Len(s) : k >= i => Has(f[k], x)}
<1>3. 0 \in S
  BY <1>2
<1>4. ASSUME NEW k \in 1 .. Len(s), k - 1 \in S PROVE k \in S
  <2> SUFFICES ASSUME k >= i PROVE Has(f[k], x)
    BY <1>2
  <2>1. f[k] = f[k - 1] \o s[k] /\ f[k - 1] \in Seq(T) /\ s[k] \in Seq(T)
    <3>1. k - 1 \in 0 .. Len(s) /\ k \in 1 .. Len(s)
      BY <1>2
    <3> HIDE DEF S
    <3> QED
      BY <3>1, <1>1, <1>2
  <2>2. Has(f[k - 1], x) \/ Has(s[k], x)
    BY <1>4, <1>2
  <2> QED
    BY <2>1, <2>2, HasConcat
<1>5. Len(s) \in S
  <2>1. \A k \in 0 .. Len(s) : k \in S
    <3> HIDE DEF S
    <3> QED
      BY <1>2, <1>3, <1>4, Induct
  <2> QED
    BY <2>1, <1>2
<1> QED
  BY <1>5, <1>1, <1>2

\* The setup passes each pusher the descriptors it pushes under.
SetStep(d) == [dev |-> d, cmd |-> "set_queues", name |-> PushDirection(d), reply |-> FALSE]

\* A pass ends with its set_queues.
LEMMA PassHas ==
  ASSUME NEW from, NEW queue, NEW to, NEW direction
  PROVE  Has(Pass(from, queue, to, direction),
             [dev |-> to, cmd |-> "set_queues", name |-> direction, reply |-> FALSE])
<1> DEFINE a == [dev |-> from, cmd |-> "get_queues", name |-> queue, reply |-> TRUE]
           b == [dev |-> to, cmd |-> "set_queues", name |-> direction, reply |-> FALSE]
<1>1. Pass(from, queue, to, direction) = <<a>> \o <<b>>
  BY DEF Pass, Request, Order
<1>2. <<a>> \o <<b>> = <<a, b>>
  <2> HIDE DEF a, b
  <2> QED
    BY Pair
<1> HIDE DEF a, b
<1>3. 2 \in DOMAIN <<a, b>> /\ <<a, b>>[2] = b
  OBVIOUS
<1> QED
  BY <1>1, <1>2, <1>3 DEF Has, b

\* The setup sets the descriptors of every device that pushes to another
\* process.
LEMMA SetupHas ==
  ASSUME tt \subseteq Dev, NEW d \in Pushers
  PROVE  Has(Setup, SetStep(d))
<1> DEFINE p1 == If(1 \in tt, Pass(1, "input", 1, "forward_in_push"))
           p2 == If(training /\ N \in tt, Pass(N, "target", N, "target_in_push"))
           p3 == If(training /\ 1 \in tt, Pass(1, "bw_output", 1, "backward_out"))
           p4 == If(N \in tt, Pass(N, "output", N, "forward_out_pop"))
           x == SetStep(d)
<1>1. Setup = CompileAll \o (PassDevices \o p1 \o p2 \o p3 \o p4)
  BY SetupIs
<1>2. /\ CompileAll \in Seq(Steps) /\ PassDevices \in Seq(Steps)
      /\ p1 \in Seq(Steps) /\ p2 \in Seq(Steps) /\ p3 \in Seq(Steps) /\ p4 \in Seq(Steps)
  BY PieceTypes, GoodEnds DEF GoodSteps
<1>3. d \in Dev
  BY DEF Pushers
<1>4. Has(PassDevices, x) \/ Has(p1, x)
  <2>1. CASE d \in tt
    <3>1. d = 1 /\ x = [dev |-> 1, cmd |-> "set_queues", name |-> "forward_in_push", reply |-> FALSE]
      BY <2>1 DEF Pushers, SetStep, PushDirection
    <3>2. p1 = Pass(1, "input", 1, "forward_in_push")
      BY <2>1, <3>1 DEF If
    <3> QED
      BY <3>1, <3>2, PassHas
  <2>2. CASE d \notin tt
    <3>1. d + 1 \in tt /\ x = [dev |-> d, cmd |-> "set_queues", name |-> "forward_out", reply |-> FALSE]
      BY <2>2 DEF Pushers, SetStep, PushDirection
    <3> DEFINE q1 == If(d + 1 \in tt, Pass(d + 1, "input", d, "forward_out"))
               q2 == If(d < N /\ d \in tt, Pass(d, "output", d + 1, "forward_in"))
               q3 == If(training /\ d < N /\ d \in tt, Pass(d, "bw_input", d + 1, "backward_out_push"))
               q4 == If(training /\ d + 1 \in tt, Pass(d + 1, "bw_output", d, "backward_in"))
    <3>2. Passed(d) = q1 \o q2 \o q3 \o q4
      BY DEF Passed
    <3>3. q2 = <<>> /\ q3 = <<>>
      BY <2>2 DEF If
    <3>4. q1 \in Seq(Steps) /\ q4 \in Seq(Steps) /\ <<>> \in Seq(Steps)
      <4>1. d + 1 \in Dev /\ (d + 1) - 1 = d /\ d \in Dev
        BY <3>1, <1>3, Devices
      <4>2. Pass(d + 1, "input", d, "forward_out") \in GoodSteps /\ Pass(d + 1, "bw_output", d, "backward_in") \in GoodSteps
        BY <4>1, GoodPass, PeerIs DEF Directions, Queues
      <4> QED
        BY <4>2 DEF If, GoodSteps
    <3>5. Has(q1, x)
      BY <3>1, PassHas DEF If
    <3> HIDE DEF q1, q2, q3, q4, x
    <3>6. Has(Passed(d), x)
      <4>1. q1 \o q2 \in Seq(Steps) /\ Has(q1 \o q2, x)
        BY <3>3, <3>4, <3>5, HasConcat
      <4>2. q1 \o q2 \o q3 \in Seq(Steps) /\ Has(q1 \o q2 \o q3, x)
        BY <4>1, <3>3, <3>4, HasConcat
      <4> QED
        BY <4>2, <3>2, <3>4, HasConcat
    <3>7. [e \in Dev |-> Passed(e)] \in Seq(Seq(Steps)) /\ Len([e \in Dev |-> Passed(e)]) = N
      <4>1. \A e \in Dev : Passed(e) \in Seq(Steps)
        BY GoodPassed DEF GoodSteps
      <4> QED
        BY <4>1, Devices
    <3>8. d \in 1 .. N /\ [e \in Dev |-> Passed(e)][d] = Passed(d)
      BY <1>3, Devices
    <3>9. Has(FlattenSeq([e \in Dev |-> Passed(e)]), x)
      <4> DEFINE s == [e \in Dev |-> Passed(e)]
      <4>1. s \in Seq(Seq(Steps)) /\ d \in 1 .. Len(s) /\ Has(s[d], x)
        BY <3>6, <3>7, <3>8
      <4> HIDE DEF s
      <4>2. Has(FlattenSeq(s), x)
        BY <4>1, HasFlatten
      <4> QED
        BY <4>2 DEF s
    <3> QED
      BY <3>9 DEF PassDevices
  <2> QED
    BY <2>1, <2>2
<1> HIDE DEF p1, p2, p3, p4, x
<1> DEFINE r1 == PassDevices \o p1
           r2 == r1 \o p2
           r3 == r2 \o p3
           r4 == r3 \o p4
<1>5. r1 \in Seq(Steps) /\ Has(r1, x)
  <2>1. Has(PassDevices \o p1, x)
    BY <1>2, <1>4, HasConcat
  <2> QED
    BY <1>2, <2>1
<1> HIDE DEF r1
<1>6. r2 \in Seq(Steps) /\ Has(r2, x)
  <2>1. Has(r1 \o p2, x)
    BY <1>2, <1>5, HasConcat
  <2> QED
    BY <1>2, <1>5, <2>1
<1> HIDE DEF r2
<1>7. r3 \in Seq(Steps) /\ Has(r3, x)
  <2>1. Has(r2 \o p3, x)
    BY <1>2, <1>6, HasConcat
  <2> QED
    BY <1>2, <1>6, <2>1
<1> HIDE DEF r3
<1>8. r4 \in Seq(Steps) /\ Has(r4, x)
  <2>1. Has(r3 \o p4, x)
    BY <1>2, <1>7, HasConcat
  <2> QED
    BY <1>2, <1>7, <2>1
<1> HIDE DEF r4
<1>9. Has(CompileAll \o r4, x)
  BY <1>2, <1>8, HasConcat
<1>10. Setup = CompileAll \o r4
  BY <1>1 DEF r1, r2, r3, r4
<1> QED
  BY <1>9, <1>10 DEF x

-----------------------------------------------------------------------------
(* The invariant of an error-free run, and its steps.                      *)

\* Device d has the descriptors of direction r, or will have.
SetSeen(d, r) ==
    r \in DOMAIN conn[d] \/ \E i \in DOMAIN cmdq[d] : cmdq[d][i].cmd = "set_queues" /\ cmdq[d][i].name = r

\* Before the sync every set_queues the setup has sent is on its way or done.
SetsSent ==
    A <= SyncAt => \A j \in 1 .. L : j < A /\ Setup[j].cmd = "set_queues" =>
        SetSeen(Setup[j].dev, Setup[j].name)

\* Nothing of device d moves, but for the end of its pusher.
OnlyQuits(d) == \A i \in DOMAIN pq[d] : pq[d][i] = Quit
Quiet(d) == dpc[d] # "forward" /\ moves[d] = 0 /\ ppc[d] # "push" /\ OnlyQuits(d)

\* The descriptors come before the first command of the run.
SetFirst(d) ==
    \A i \in DOMAIN cmdq[d] : IsRun(cmdq[d][i]) =>
        \E j \in 1 .. i - 1 : cmdq[d][j].cmd = "set_queues" /\ cmdq[d][j].name = PushDirection(d)
PushersSet ==
    \A d \in Pushers : PushDirection(d) \in DOMAIN conn[d] \/ (Quiet(d) /\ SetFirst(d))

\* No input has moved, and no command that moves one is on its way.
NothingRan ==
    \A d \in Dev : /\ Quiet(d) /\ progs[d] = 0
                   /\ \A i \in DOMAIN cmdq[d] : ~IsRun(cmdq[d][i])

Ranges == (A <= L => NothingRan) /\ (synced => A >= QuitAt)

\* A device that quits got every command before, but for a late checkpoint.
Ended(d) == dpc[d] \in {"threads", "barrier", "closed"}
AtBarrier(d) == dpc[d] \in {"barrier", "closed"}
QuitQueued ==
    \A d \in Dev : \A i \in DOMAIN cmdq[d] : cmdq[d][i].cmd = "quit" =>
        /\ A >= QuitAt + d
        /\ \A j \in DOMAIN cmdq[d] : j > i => cmdq[d][j].cmd = "checkpoint"
QuitDone ==
    \A d \in Dev : Ended(d) => /\ A >= QuitAt + d
                               /\ \A j \in DOMAIN cmdq[d] : cmdq[d][j].cmd = "checkpoint"
Barrier ==
    /\ \A d \in Dev : AtBarrier(d) => moves[d] = 0
    /\ phase = "running" => \A d \in Dev : dpc[d] # "closed"
    /\ phase \in {"passed", "join", "done"} => \A d \in Dev : AtBarrier(d)
    /\ phase # "reap"

\* What the main thread has got the answer to sync of is idle.
Past(d) == synced \/ A \in SyncAt + d .. QuitAt - 1
IdleNow(d) ==
    /\ \A i \in DOMAIN cmdq[d] : cmdq[d][i].cmd = "quit"
    /\ progs[d] = 0 /\ dpc[d] # "forward"
SyncedIdle == ~training => \A d \in Dev : Past(d) => IdleNow(d)

\* What is in the queues are tensors; the pushers' have quits as well.
Real == Int \ {NoTensors, Quit}
Busy(d) == ppc[d] \in {"push", "dead"}
Tensors ==
    /\ \A p \in Places : \A i \in DOMAIN data[p] : data[p][i] \in Real
    /\ \A i \in DOMAIN buf : buf[i] \in Real
    /\ \A d \in Dev : \A i \in DOMAIN pq[d] : pq[d][i] \in Real \cup {Quit}
    /\ \A d \in Dev : Busy(d) => held[d] \in Real

\* How many tensors are before place p: at the input, and in the connector.
Via(p) == IF p = 1 THEN 1 ELSE p - 1
Channel(d) == Tally(pq[d], Real) + (IF Busy(d) THEN 1 ELSE 0)
Holds(p) == Len(data[p]) + (IF p \in tt THEN Channel(Via(p)) ELSE 0)

\* f[p] tensors have gone through place p, where h[p] wait; n went in, m came out.
Sums(f, h, n, m) ==
    /\ f \in [0 .. N + 1 -> Nat] /\ h \in [Places -> Nat]
    /\ f[0] = n /\ f[N + 1] = m
    /\ \A p \in Places : f[p - 1] = f[p] + h[p]

\* Every input the last device has not taken is still to be run there, and every
\* output the user has not got is still to be moved.
Running(d) == IF d \in tt THEN progs[d] ELSE IF dpc[d] = "forward" THEN 1 ELSE 0
RunsIn(n) == Rest(LastRuns) + Tally(cmdq[N], RunCommands) + Running(N) + n = Inputs
MovesIn ==
    N \in tt => Rest(LastMoves) + Tally(cmdq[N], MoveCommands) + moves[N] + Len(out)
                  = Inputs + (IF N = 1 THEN Len(buf) ELSE 0)
AllRun(n) == RunsIn(n) /\ MovesIn

Contents == [p \in Places |-> Holds(p)]
Flow(f) ==
    /\ Len(buf) <= Inputs
    /\ Sums(f, Contents, Inputs - Len(buf), Len(out))
    /\ AllRun(f[N]) \/ (NothingRan /\ A > SyncAt)

\* The inductive invariant behind the two other properties: it stands until an error.
Calm ==
    /\ SetsSent /\ PushersSet /\ Ranges /\ QuitQueued /\ QuitDone /\ Barrier
    /\ SyncedIdle /\ Tensors /\ \E f : Flow(f)
QuietInv == ~event => Calm

\* The steps that happen without an error.
CalmSteps ==
    \/ \E t \in Threads : Send(t) \/ GetResponse(t)
    \/ SkipSync \/ PassBarrier \/ LoopJoined \/ Joined
    \/ \E d \in Dev : \/ CommandStep(d) \/ Forward(d) \/ ThreadsShutDown(d) \/ Close(d)
                      \/ Transfer(d) \/ PusherGet(d) \/ InternalPush(d) \/ PushRaises(d)
                      \/ RunProgram(d)
    \/ UNCHANGED vars

\* A step after which no error has been seen is one of an error-free run.
LEMMA CalmIs ==
  ASSUME TypeInv, [Next]_vars, ~event', phase # "reap" \/ event
  PROVE  ~event /\ CalmSteps
<1>0. event \in BOOLEAN
  BY DEF TypeInv, TypeOK
<1>1. Steps0
  BY NextSteps
<1>2. ASSUME NEW t \in Threads, ClientStep(t) PROVE ~event /\ CalmSteps
  <2>1. CASE Send(t)
    BY <1>2, <2>1 DEF Send, CalmSteps
  <2>2. CASE StopRun(t)
    BY <2>2 DEF StopRun, GivesUp
  <2>3. CASE GetResponse(t)
    BY <1>0, <2>3 DEF GetResponse, Answered, CalmSteps
  <2>4. CASE NoResponse(t)
    BY <1>0, <2>4 DEF NoResponse, Answered
  <2> QED
    BY <1>2, <2>1, <2>2, <2>3, <2>4 DEF ClientStep
<1>3. CASE MainStep
  BY <1>3 DEF MainStep, SkipSync, PassBarrier, BarrierBroken, LoopJoined, Joined, Reap, CalmSteps
<1>4. ASSUME NEW d \in Dev, CommandStep(d) PROVE ~event /\ CalmSteps
  BY <1>4 DEF CommandStep, RanCompile, RanGet, RanSet, RanTransfer, RanForward, RanSync, RanCheckpoint,
              RanQuit, Ran, CalmSteps
<1>5. ASSUME NEW d \in Dev, DeviceStep(d) PROVE ~event /\ CalmSteps
  BY <1>5 DEF DeviceStep, SeeShutdown, CommandRaises, Forward, ForwardAbandoned, ThreadsShutDown, Close, CalmSteps
<1>6. ASSUME NEW d \in Dev, BesideStep(d) PROVE ~event /\ CalmSteps
  BY <1>6 DEF BesideStep, Transfer, Pusher, PusherGet, PusherSeesShutdown, InternalPush, PushRaises, RunProgram, CalmSteps
<1>7. CASE UNCHANGED vars
  BY <1>7 DEF vars, CalmSteps
<1> QED
  BY <1>1, <1>2, <1>3, <1>4, <1>5, <1>6, <1>7 DEF Steps0

\* A command put behind the others, and the first one taken.
Put(d, c) ==
    /\ cmdq[d] \in Seq(Commands) /\ cmdq'[d] = Append(cmdq[d], c)
    /\ \A e \in Dev : e # d => cmdq'[e] = cmdq[e]
    /\ \E n \in Nat : /\ DOMAIN cmdq[d] = 1 .. n /\ DOMAIN cmdq'[d] = 1 .. n + 1
                      /\ \A i \in 1 .. n : cmdq'[d][i] = cmdq[d][i]
                      /\ cmdq'[d][n + 1] = c
Got(d, c) ==
    /\ cmdq[d] \in Seq(Commands) /\ cmdq[d] # <<>> /\ Head(cmdq[d]) = c /\ cmdq'[d] = Tail(cmdq[d])
    /\ \A e \in Dev : e # d => cmdq'[e] = cmdq[e]
    /\ c = cmdq[d][1]
    /\ \E n \in Nat : /\ n >= 1 /\ DOMAIN cmdq[d] = 1 .. n /\ DOMAIN cmdq'[d] = 1 .. n - 1
                      /\ \A i \in 1 .. n - 1 : cmdq'[d][i] = cmdq[d][i + 1]

\* _run_command puts a command behind the others ...
LEMMA PutIs ==
  ASSUME TypeInv, NEW d \in Dev, NEW c \in Commands, cmdq' = [cmdq EXCEPT ![d] = Append(@, c)]
  PROVE  Put(d, c)
<1>1. cmdq[d] \in Seq(Commands) /\ cmdq'[d] = Append(cmdq[d], c) /\ \A e \in Dev : e # d => cmdq'[e] = cmdq[e]
  BY DEF TypeInv, TypeOK
<1>2. PICK q, r : q = cmdq[d] /\ r = cmdq'[d]
  OBVIOUS
<1>3. /\ q \in Seq(Commands) /\ r \in Seq(Commands) /\ Len(q) \in Nat /\ Len(r) = Len(q) + 1
      /\ \A i \in 1 .. Len(q) : r[i] = q[i]
      /\ r[Len(q) + 1] = c
  BY <1>1, <1>2, AppendProperties
<1>4. DOMAIN q = 1 .. Len(q) /\ DOMAIN r = 1 .. Len(q) + 1
  BY <1>3, LenProperties
<1> QED
  BY <1>1, <1>2, <1>3, <1>4 DEF Put

\* ... and run_next_command takes the first.
LEMMA GotIs ==
  ASSUME TypeInv, NEW d \in Dev, NEW c, Ran(d, c)
  PROVE  Got(d, c) /\ c \in Commands
<1>1. /\ cmdq[d] \in Seq(Commands) /\ cmdq[d] # <<>> /\ cmdq'[d] = Tail(cmdq[d])
      /\ \A e \in Dev : e # d => cmdq'[e] = cmdq[e]
      /\ c = Head(cmdq[d])
  BY DEF TypeInv, TypeOK, Ran
<1>2. PICK q, r : q = cmdq[d] /\ r = cmdq'[d]
  OBVIOUS
<1>3. /\ q \in Seq(Commands) /\ r \in Seq(Commands) /\ Len(q) \in Nat /\ Len(q) > 0 /\ Len(r) = Len(q) - 1
      /\ \A i \in 1 .. Len(q) - 1 : r[i] = q[i + 1]
      /\ Head(q) = q[1] /\ Head(q) \in Commands
  BY <1>1, <1>2, HeadIs DEF TypeInv
<1>4. DOMAIN q = 1 .. Len(q) /\ DOMAIN r = 1 .. Len(q) - 1
  BY <1>3, LenProperties
<1>5. Len(q) >= 1
  BY <1>3
<1>6. \E n \in Nat : /\ n >= 1 /\ DOMAIN q = 1 .. n /\ DOMAIN r = 1 .. n - 1
                     /\ \A i \in 1 .. n - 1 : r[i] = q[i + 1]
  BY <1>3, <1>4, <1>5
<1> QED
  BY <1>1, <1>2, <1>3, <1>6 DEF Got

\* A step of a calling thread leaves the devices alone.
Still == UNCHANGED <<tt, training, conn, dpc, progs, moves, data, buf, out, pq, ppc, held>>
SentBy(t, s, c) ==
    /\ Still /\ synced' = synced /\ phase' = phase
    /\ s \in Steps /\ s.dev \in Dev /\ c \in Commands /\ c.cmd = s.cmd /\ c.name = s.name
    /\ Put(s.dev, c)
    /\ \/ /\ t = "loop" /\ s.cmd = "checkpoint" /\ training /\ A > L /\ A' = A
       \/ /\ t = "main" /\ s = Step("main") /\ MainFacts(s) /\ phase = "running"
          /\ A' = IF s.reply THEN A ELSE A + 1

\* What sending a step does ...
LEMMA SentIs ==
  ASSUME TypeInv, NEW t \in Threads, Send(t)
  PROVE  \E s, c : SentBy(t, s, c)
<1>1. PICK s, c : s = Step(t) /\ c = [cmd |-> s.cmd, name |-> s.name, desc |-> last[t]]
  OBVIOUS
<1>2. s \in Steps /\ s.dev \in Dev /\ s.reply \in BOOLEAN /\ at[t] <= Len(Script(t)) /\ ~waiting[t]
  BY <1>1, StepIs DEF Send, CanSend, TypeInv, Steps
<1>3. /\ cmdq' = [cmdq EXCEPT ![s.dev] = Append(@, c)]
      /\ at' = [at EXCEPT ![t] = IF s.reply THEN @ ELSE @ + 1]
      /\ Still /\ synced' = synced /\ phase' = phase
  BY <1>1 DEF Send, Still, deviceVars, flowVars, pushVars
<1>4. c.cmd = s.cmd /\ c.name = s.name /\ c \in Commands
  BY <1>1, <1>2 DEF Steps, Commands, TypeInv, TypeOK
<1>5. Put(s.dev, c)
  BY <1>2, <1>3, <1>4, PutIs
<1>6. CASE t = "main"
  <2>1. MainFacts(s) /\ phase = "running"
    BY <1>1, <1>2, <1>6, MainSteps DEF TypeInv, A, Send, CanSend
  <2>2. A' = IF s.reply THEN A ELSE A + 1
    BY <1>3, <1>6 DEF A, TypeInv, TypeOK, Threads
  <2> QED
    BY <1>1, <1>2, <1>3, <1>4, <1>5, <1>6, <2>1, <2>2 DEF SentBy
<1>7. CASE t = "loop"
  <2>1. s.cmd = "checkpoint" /\ s.reply /\ training
    BY <1>1, <1>2, <1>7, LoopSteps DEF TypeInv
  <2>2. A' = A /\ A > L
    BY <1>3, <1>7 DEF A, L, TypeInv, TypeOK, Threads, Send, CanSend
  <2> QED
    BY <1>1, <1>2, <1>3, <1>4, <1>5, <1>7, <2>1, <2>2 DEF SentBy
<1> QED
  BY <1>6, <1>7 DEF Threads

\* What an answer changes for the main thread, and what it then knows.
AnsweredMain(s) ==
    /\ s = Step("main") /\ s.dev \in Dev /\ MainFacts(s) /\ s.reply /\ waiting["main"]
    /\ resp[s.dev] # <<>>
    /\ A' = A + 1 \/ (A' = QuitAt /\ A <= L)
    /\ synced' = (synced \/ A = QuitAt - 1)

\* ... and what taking an answer does.
LEMMA AnsweredIs ==
  ASSUME TypeInv, NEW t \in Threads, GetResponse(t)
  PROVE  /\ Still /\ phase' = phase /\ cmdq' = cmdq
         /\ (A' = A /\ synced' = synced) \/ \E s : AnsweredMain(s)
<1>1. Still /\ phase' = phase /\ cmdq' = cmdq
  BY DEF GetResponse, Still, deviceVars, flowVars, pushVars
<1>2. CASE t = "loop"
  <2>1. A' = A /\ synced' = synced
    BY <1>2 DEF GetResponse, Answered, A, TypeInv, TypeOK, Threads
  <2> QED
    BY <1>1, <2>1
<1>3. CASE t = "main"
  <2>1. PICK s, r : s = Step("main") /\ r = Head(resp[s.dev])
    OBVIOUS
  <2>2. waiting["main"] /\ resp[s.dev] # <<>> /\ Answered("main", r)
    BY <1>3, <2>1 DEF GetResponse
  <2>3. A <= Len(Script("main")) /\ s.reply
    BY <2>1, <2>2 DEF TypeInv, Waits, Threads, A
  <2>4. MainFacts(s) /\ s.dev \in Dev
    BY <2>1, <2>3, MainSteps DEF TypeInv, MainFacts
  <2>5. A' = IF r \in {None, Failure} /\ s.cmd \in {"compile", "get_queues"} THEN QuitAt ELSE A + 1
    BY <2>1, <2>2 DEF Answered, A, TypeInv, TypeOK, Threads
  <2>6. synced' = (synced \/ A = QuitAt - 1)
    BY <2>2 DEF Answered, A
  <2>7. AnsweredMain(s)
    BY <2>1, <2>2, <2>3, <2>4, <2>5, <2>6 DEF AnsweredMain, MainFacts
  <2> QED
    BY <1>1, <2>7
<1> QED
  BY <1>2, <1>3 DEF Threads

-----------------------------------------------------------------------------
(* The calling threads: what they send, and where they are.                *)

\* Where the steps of the main thread are.
LEMMA AtFacts ==
  ASSUME TypeInv
  PROVE  /\ A \in Nat /\ A > 0 /\ L \in Nat /\ SyncAt \in Nat /\ QuitAt \in Nat
         /\ L < SyncAt /\ QuitAt = SyncAt + N /\ SyncAt < QuitAt
         /\ N \in Nat /\ N >= 1 /\ Dev = 1 .. N /\ tt \subseteq Dev /\ Pushers \subseteq Dev
<1>1. tt \subseteq Dev
  BY TypeFacts DEF TypeInv
<1>2. L \in Nat /\ SyncAt \in Nat /\ L < SyncAt /\ QuitAt = SyncAt + N
  BY <1>1, ScriptIs
<1>3. A \in Nat /\ A > 0
  BY DEF A, TypeInv, TypeOK, Threads
<1> QED
  BY <1>1, <1>2, <1>3, Devices DEF Pushers

\* The steps of the calling threads, by what the devices see of them.
SkipsSync == A = SyncAt /\ A' = QuitAt /\ synced' = synced
ClientCalm ==
    /\ Still /\ phase' = phase
    /\ \/ \E t, s, c : SentBy(t, s, c)
       \/ cmdq' = cmdq /\ A' = A /\ synced' = synced
       \/ cmdq' = cmdq /\ \E s : AnsweredMain(s)
       \/ cmdq' = cmdq /\ SkipsSync

\* The steps of the calling threads leave the devices alone.
LEMMA ClientIs ==
  ASSUME TypeInv, (\E t \in Threads : Send(t) \/ GetResponse(t)) \/ SkipSync
  PROVE  ClientCalm
<1>1. ASSUME NEW t \in Threads, Send(t) PROVE ClientCalm
  BY <1>1, SentIs DEF ClientCalm, SentBy
<1>2. ASSUME NEW t \in Threads, GetResponse(t) PROVE ClientCalm
  BY <1>2, AnsweredIs DEF ClientCalm
<1>3. CASE SkipSync
  <2>1. Still /\ phase' = phase /\ cmdq' = cmdq /\ SkipsSync
    BY <1>3 DEF SkipSync, Still, SkipsSync, A, TypeInv, TypeOK, Threads, deviceVars, flowVars, pushVars
  <2> QED
    BY <2>1 DEF ClientCalm
<1> QED
  BY <1>1, <1>2, <1>3

\* The main thread only goes on, and over the end of the setup at most by giving up.
LEMMA AtGrows ==
  ASSUME TypeInv, ClientCalm
  PROVE  /\ A <= A' /\ A' \in Nat
         /\ A' <= SyncAt => A' \in {A, A + 1}
<1>1. CASE \E t, s, c : SentBy(t, s, c)
  BY <1>1, AtFacts DEF SentBy
<1>2. CASE \E s : AnsweredMain(s)
  BY <1>2, AtFacts DEF AnsweredMain
<1> QED
  BY <1>1, <1>2, AtFacts DEF ClientCalm, SkipsSync

\* Descriptors that are there or sent stay so when a thread sends another
\* command.
LEMMA SeenClient ==
  ASSUME TypeInv, ClientCalm, NEW d \in Dev, NEW r, SetSeen(d, r)
  PROVE  SetSeen(d, r)'
<1>1. conn' = conn
  BY DEF ClientCalm, Still
<1>2. ASSUME NEW t, NEW s, NEW c, SentBy(t, s, c) PROVE SetSeen(d, r)'
  <2>1. Put(s.dev, c) /\ s.dev \in Dev
    BY <1>2 DEF SentBy
  <2>2. ASSUME NEW i \in DOMAIN cmdq[d] PROVE i \in DOMAIN cmdq'[d] /\ cmdq'[d][i] = cmdq[d][i]
    BY <2>1 DEF Put
  <2> QED
    BY <1>1, <2>2 DEF SetSeen
<1> QED
  BY <1>1, <1>2 DEF ClientCalm, SetSeen

\* A set_queues is on its way as soon as the main thread is past it.
LEMMA SetsClient ==
  ASSUME TypeInv, SetsSent, ClientCalm
  PROVE  SetsSent'
<1>1. Setup' = Setup /\ L' = L /\ SyncAt' = SyncAt
  BY Same DEF ClientCalm, Still
<1>2. SUFFICES ASSUME A' <= SyncAt, NEW j \in 1 .. L, j < A', Setup[j].cmd = "set_queues",
                      NEW d, NEW r, d = Setup[j].dev, r = Setup[j].name
               PROVE  SetSeen(d, r)'
  BY <1>1 DEF SetsSent, SetSeen
<1>3. d \in Dev
  <2>1. PICK q : q = Setup
    OBVIOUS
  <2>2. q \in Seq(Steps) /\ j \in 1 .. Len(q)
    BY <2>1, SetupGood, AtFacts DEF L
  <2>3. q[j] \in Steps
    BY <2>2, ElementOfSeq
  <2> QED
    BY <1>2, <2>1, <2>3 DEF Steps
<1>4. CASE j < A
  <2>1. SetSeen(d, r)
    BY <1>2, <1>4, AtGrows, AtFacts DEF SetsSent
  <2> QED
    BY <1>3, <2>1, SeenClient
<1>5. CASE j = A
  <2>1. A <= L /\ A' = A + 1
    BY <1>2, <1>5, AtGrows, AtFacts
  <2>2. Step("main") = Setup[A]
    BY <2>1, ScriptIs, AtFacts DEF Step, A
  <2>3. ASSUME NEW s, AnsweredMain(s) PROVE FALSE
    BY <1>2, <1>5, <2>2, <2>3 DEF AnsweredMain, MainFacts
  <2>4. ASSUME NEW t, NEW s, NEW c, SentBy(t, s, c)
        PROVE  SetSeen(d, r)'
    <3>1. s = Setup[A] /\ Put(s.dev, c) /\ c.cmd = "set_queues" /\ c.name = s.name
      BY <1>2, <1>5, <2>1, <2>2, <2>4, AtFacts DEF SentBy
    <3>2. PICK n \in Nat : DOMAIN cmdq'[s.dev] = 1 .. n + 1 /\ cmdq'[s.dev][n + 1] = c
      BY <3>1 DEF Put
    <3>3. n + 1 \in DOMAIN cmdq'[s.dev]
      BY <3>2
    <3>4. s.dev = d /\ s.name = r
      BY <1>2, <1>5, <3>1
    <3> QED
      BY <3>1, <3>2, <3>3, <3>4 DEF SetSeen
  <2> QED
    BY <2>1, <2>3, <2>4, AtFacts DEF ClientCalm, SkipsSync
<1> QED
  BY <1>2, <1>4, <1>5, AtGrows, AtFacts

\* A command of the run is sent after the whole setup, so the descriptors come
\* first.
LEMMA PushersClient ==
  ASSUME TypeInv, SetsSent, PushersSet, ClientCalm
  PROVE  PushersSet'
<1>1. /\ Pushers' = Pushers /\ conn' = conn
      /\ \A d \in Dev : PushDirection(d)' = PushDirection(d)
  BY Same DEF ClientCalm, Still
<1>2. \A d \in Dev : Quiet(d)' <=> Quiet(d)
  BY DEF Quiet, OnlyQuits, ClientCalm, Still
<1>3. ASSUME NEW d \in Pushers, PushDirection(d) \notin DOMAIN conn[d], SetFirst(d)
      PROVE  SetFirst(d)'
  <2>0. d \in Dev /\ PushDirection(d)' = PushDirection(d)
    BY <1>1, AtFacts
  <2>1. ASSUME NEW t, NEW s, NEW c, SentBy(t, s, c) PROVE SetFirst(d)'
    <3>1. Put(s.dev, c) /\ c.cmd = s.cmd /\ s.dev \in Dev
      BY <2>1 DEF SentBy
    <3>2. CASE s.dev # d
      BY <1>3, <2>0, <3>1, <3>2 DEF Put, SetFirst
    <3>3. CASE s.dev = d
      <4>1. PICK n \in Nat : /\ DOMAIN cmdq[d] = 1 .. n /\ DOMAIN cmdq'[d] = 1 .. n + 1
                             /\ \A i \in 1 .. n : cmdq'[d][i] = cmdq[d][i]
                             /\ cmdq'[d][n + 1] = c
        BY <3>1, <3>3 DEF Put
      <4>2. ASSUME IsRun(c)
            PROVE  \E j \in 1 .. n : cmdq[d][j].cmd = "set_queues" /\ cmdq[d][j].name = PushDirection(d)
        <5>1. A > L /\ A < SyncAt
          BY <2>1, <3>1, <4>2 DEF SentBy, IsRun, MainFacts
        <5>2. PICK j \in DOMAIN Setup : Setup[j] = SetStep(d)
          BY SetupHas, AtFacts DEF Has
        <5>3. Setup[j].cmd = "set_queues" /\ Setup[j].dev = d /\ Setup[j].name = PushDirection(d)
          BY <5>2 DEF SetStep
        <5>4. j \in 1 .. L /\ j < A
          BY <5>1, AtFacts, SetupGood DEF L
        <5>5. SetSeen(d, PushDirection(d))
          BY <5>1, <5>3, <5>4, AtFacts DEF SetsSent
        <5> QED
          BY <1>3, <4>1, <5>5 DEF SetSeen
      <4>3. ASSUME NEW i \in 1 .. n + 1, IsRun(cmdq'[d][i])
            PROVE  \E j \in 1 .. i - 1 : cmdq'[d][j].cmd = "set_queues" /\ cmdq'[d][j].name = PushDirection(d)
        <5>1. CASE i = n + 1
          <6>1. PICK j \in 1 .. n : cmdq[d][j].cmd = "set_queues" /\ cmdq[d][j].name = PushDirection(d)
            BY <4>1, <4>2, <4>3, <5>1
          <6>2. j \in 1 .. i - 1 /\ cmdq'[d][j] = cmdq[d][j]
            BY <4>1, <5>1, <6>1
          <6> QED
            BY <6>1, <6>2
        <5>2. CASE i \in 1 .. n
          <6>1. PICK j \in 1 .. i - 1 : cmdq[d][j].cmd = "set_queues" /\ cmdq[d][j].name = PushDirection(d)
            BY <1>3, <4>1, <4>3, <5>2 DEF SetFirst
          <6>2. cmdq'[d][j] = cmdq[d][j]
            BY <4>1, <5>2, <6>1
          <6> QED
            BY <6>1, <6>2
        <5> QED
          BY <4>3, <5>1, <5>2
      <4> QED
        BY <2>0, <4>1, <4>3 DEF SetFirst
    <3> QED
      BY <3>2, <3>3
  <2> QED
    BY <1>3, <2>0, <2>1 DEF ClientCalm, SetFirst
<1> QED
  BY <1>1, <1>2, <1>3, AtFacts DEF PushersSet

\* Nothing runs unless a command of the run is sent.
LEMMA NothingClient ==
  ASSUME TypeInv, NothingRan, ClientCalm, A <= L \/ A >= SyncAt
  PROVE  NothingRan'
<1>1. \A d \in Dev : (Quiet(d)' <=> Quiet(d)) /\ progs'[d] = progs[d]
  BY DEF Quiet, OnlyQuits, ClientCalm, Still
<1>2. ASSUME NEW t, NEW s, NEW c, SentBy(t, s, c)
      PROVE  \A d \in Dev : \A i \in DOMAIN cmdq'[d] : ~IsRun(cmdq'[d][i])
  <2>1. Put(s.dev, c) /\ ~IsRun(c) /\ s.dev \in Dev
    BY <1>2, AtFacts DEF SentBy, IsRun, MainFacts
  <2>2. ASSUME NEW d \in Dev, NEW i \in DOMAIN cmdq'[d]
        PROVE  cmdq'[d][i] = c \/ (i \in DOMAIN cmdq[d] /\ cmdq'[d][i] = cmdq[d][i])
    <3>1. CASE d = s.dev
      BY <2>1, <2>2, <3>1 DEF Put
    <3>2. CASE d # s.dev
      BY <2>1, <2>2, <3>2 DEF Put
    <3> QED
      BY <3>1, <3>2
  <2> QED
    BY <2>1, <2>2 DEF NothingRan
<1> QED
  BY <1>1, <1>2 DEF NothingRan, ClientCalm

\* During the setup nothing that moves an input is sent.
LEMMA RangesClient ==
  ASSUME TypeInv, Ranges, ClientCalm
  PROVE  Ranges'
<1>1. L' = L /\ QuitAt' = QuitAt
  BY Same DEF ClientCalm, Still
<1>2. A' <= L' => NothingRan'
  BY <1>1, AtGrows, AtFacts, NothingClient DEF Ranges
<1>3. synced' => A' >= QuitAt'
  <2>1. CASE synced' = synced
    BY <1>1, <2>1, AtGrows, AtFacts DEF Ranges
  <2>2. ASSUME NEW s, AnsweredMain(s) PROVE synced' => A' >= QuitAt
    <3>1. synced' => synced \/ A = QuitAt - 1
      BY <2>2 DEF AnsweredMain
    <3>2. A' = A + 1 \/ A' = QuitAt
      BY <2>2 DEF AnsweredMain
    <3> QED
      BY <3>1, <3>2, AtFacts DEF Ranges
  <2> QED
    BY <1>1, <2>1, <2>2 DEF ClientCalm, SentBy, SkipsSync
<1> QED
  BY <1>2, <1>3 DEF Ranges

\* The main thread sends QUIT last; only the training thread may send a
\* checkpoint later.
LEMMA QuitClient ==
  ASSUME TypeInv, QuitQueued, QuitDone, ClientCalm
  PROVE  QuitQueued' /\ QuitDone'
<1>1. QuitAt' = QuitAt /\ dpc' = dpc
  BY Same DEF ClientCalm, Still
<1>2. \A d \in Dev : A >= QuitAt + d => A' >= QuitAt + d
  BY AtGrows, AtFacts
<1>3. CASE cmdq' = cmdq
  BY <1>1, <1>2, <1>3 DEF QuitQueued, QuitDone, Ended
<1>4. ASSUME NEW t, NEW s, NEW c, SentBy(t, s, c) PROVE QuitQueued' /\ QuitDone'
  <2>1. Put(s.dev, c) /\ s.dev \in Dev /\ c.cmd = s.cmd
    BY <1>4 DEF SentBy
  <2>2. c.cmd = "checkpoint" \/ A < QuitAt + s.dev
    BY <1>4, <2>1, AtFacts DEF SentBy, MainFacts, Steps, Cmds
  <2>3. c.cmd = "quit" => A' >= QuitAt + s.dev
    BY <1>4, <2>1, AtFacts DEF SentBy, MainFacts
  <2>4. PICK n \in Nat : /\ DOMAIN cmdq[s.dev] = 1 .. n /\ DOMAIN cmdq'[s.dev] = 1 .. n + 1
                         /\ \A i \in 1 .. n : cmdq'[s.dev][i] = cmdq[s.dev][i]
                         /\ cmdq'[s.dev][n + 1] = c
    BY <2>1 DEF Put
  <2>5. \A e \in Dev : e # s.dev => cmdq'[e] = cmdq[e]
    BY <2>1 DEF Put
  <2>6. ASSUME NEW d \in Dev, NEW i \in DOMAIN cmdq'[d], cmdq'[d][i].cmd = "quit"
        PROVE  /\ A' >= QuitAt + d
               /\ \A j \in DOMAIN cmdq'[d] : j > i => cmdq'[d][j].cmd = "checkpoint"
    <3>1. CASE d # s.dev
      BY <1>2, <2>5, <2>6, <3>1 DEF QuitQueued
    <3>2. CASE d = s.dev /\ i \in 1 .. n
      <4>1. i \in DOMAIN cmdq[d] /\ cmdq[d][i].cmd = "quit"
        BY <2>4, <2>6, <3>2
      <4>2. A >= QuitAt + d /\ \A j \in 1 .. n : j > i => cmdq[d][j].cmd = "checkpoint"
        BY <2>4, <3>2, <4>1 DEF QuitQueued
      <4>3. c.cmd = "checkpoint"
        BY <2>1, <2>2, <3>2, <4>2, AtFacts
      <4> QED
        BY <1>2, <2>4, <3>2, <4>2, <4>3
    <3>3. CASE d = s.dev /\ i = n + 1
      BY <2>3, <2>4, <2>6, <3>3
    <3> QED
      BY <2>4, <2>6, <3>1, <3>2, <3>3
  <2>7. ASSUME NEW d \in Dev, Ended(d)
        PROVE  A' >= QuitAt + d /\ \A j \in DOMAIN cmdq'[d] : cmdq'[d][j].cmd = "checkpoint"
    <3>1. A >= QuitAt + d /\ \A j \in DOMAIN cmdq[d] : cmdq[d][j].cmd = "checkpoint"
      BY <2>7 DEF QuitDone
    <3>2. CASE d # s.dev
      BY <1>2, <2>5, <3>1, <3>2
    <3>3. CASE d = s.dev
      <4>1. c.cmd = "checkpoint"
        BY <2>1, <2>2, <3>1, <3>3, AtFacts
      <4> QED
        BY <1>2, <2>4, <3>1, <3>3, <4>1
    <3> QED
      BY <3>2, <3>3
  <2> QED
    BY <1>1, <2>6, <2>7 DEF QuitQueued, QuitDone, Ended
<1> QED
  BY <1>3, <1>4 DEF ClientCalm

\* The answer to SYNC the main thread takes is the one of the device it asked,
\* which had nothing left to do.
LEMMA SyncedClient ==
  ASSUME TypeInv, OneRequest, ~event, Ranges, SyncedIdle, ClientCalm
  PROVE  SyncedIdle'
<1>1. training' = training /\ SyncAt' = SyncAt /\ QuitAt' = QuitAt
  BY Same DEF ClientCalm, Still
<1>2. SUFFICES ASSUME ~training, NEW d \in Dev, Past(d)' PROVE IdleNow(d)'
  BY <1>1 DEF SyncedIdle
<1>3. progs' = progs /\ dpc' = dpc
  BY DEF ClientCalm, Still
<1>4. Past(d)' <=> synced' \/ A' \in SyncAt + d .. QuitAt - 1
  BY <1>1 DEF Past
<1>5. CASE cmdq' = cmdq /\ Past(d)
  BY <1>2, <1>3, <1>5 DEF SyncedIdle, IdleNow
<1>6. ASSUME NEW t, NEW s, NEW c, SentBy(t, s, c) PROVE IdleNow(d)'
  <2>1. t = "main" /\ MainFacts(s) /\ A' = (IF s.reply THEN A ELSE A + 1) /\ synced' = synced
    BY <1>2, <1>6 DEF SentBy
  <2>2. Put(s.dev, c) /\ s.dev \in Dev /\ c.cmd = s.cmd
    BY <1>6 DEF SentBy
  <2>3. Past(d)
    BY <1>2, <1>4, <2>1, AtFacts DEF Past, MainFacts, Steps, Cmds
  <2>4. IdleNow(d)
    BY <1>2, <2>3 DEF SyncedIdle
  <2>5. s.dev = d => c.cmd = "quit"
    BY <1>2, <2>1, <2>2, <2>3, AtFacts DEF Past, Ranges, MainFacts, Steps, Cmds
  <2>6. ASSUME NEW i \in DOMAIN cmdq'[d] PROVE cmdq'[d][i].cmd = "quit"
    <3>1. CASE s.dev = d
      BY <2>2, <2>4, <2>5, <2>6, <3>1 DEF Put, IdleNow
    <3>2. CASE s.dev # d
      BY <2>2, <2>4, <2>6, <3>2 DEF Put, IdleNow
    <3> QED
      BY <3>1, <3>2
  <2> QED
    BY <1>3, <2>4, <2>6 DEF IdleNow
<1>7. CASE cmdq' = cmdq /\ A' = A /\ synced' = synced
  BY <1>2, <1>4, <1>5, <1>7 DEF Past
<1>8. ASSUME NEW s, AnsweredMain(s), cmdq' = cmdq PROVE IdleNow(d)'
  <2>1. CASE Past(d)
    BY <1>5, <1>8, <2>1
  <2>2. CASE ~Past(d)
    <3>1. A = SyncAt + d - 1
      <4>1. synced' => synced \/ A = QuitAt - 1
        BY <1>8 DEF AnsweredMain
      <4>2. A' = A + 1 \/ A' = QuitAt
        BY <1>8 DEF AnsweredMain
      <4>3. ~synced /\ ~(A \in SyncAt + d .. QuitAt - 1)
        BY <2>2 DEF Past
      <4>4. A = QuitAt - 1 \/ A' \in SyncAt + d .. QuitAt - 1
        BY <1>2, <1>4, <4>1, <4>3
      <4>5. d \in 1 .. N
        BY <1>2, AtFacts
      <4> QED
        BY <4>2, <4>3, <4>4, <4>5, AtFacts
    <3>2. s.cmd = "sync" /\ s.dev = d
      BY <1>2, <1>8, <3>1, AtFacts DEF AnsweredMain, MainFacts, Steps, Cmds
    <3>3. Outstanding
      BY <1>2, OneRequestIs DEF Alone
    <3>4. Served(s)
      BY <1>8, <3>3 DEF Outstanding, AnsweredMain, Asked
    <3> QED
      BY <1>3, <1>8, <3>2, <3>4 DEF Served, IdleNow
  <2> QED
    BY <2>1, <2>2
<1>9. CASE cmdq' = cmdq /\ SkipsSync
  BY <1>2, <1>4, <1>5, <1>9, AtFacts DEF SkipsSync, Past
<1> QED
  BY <1>6, <1>7, <1>8, <1>9 DEF ClientCalm

-----------------------------------------------------------------------------
(* The calling threads: what is left to run.                               *)

\* What is left of the script when the main thread goes on or gives up.
LEMMA RestGoes ==
  ASSUME TypeInv, tt' = tt, training' = training, A' \in Nat,
         A' \in {A, A + 1} \/ (A >= SyncAt /\ A' >= SyncAt), NEW X
  PROVE  /\ Rest(X) \in Nat /\ Rest(X)' \in Nat
         /\ Rest(X) = Rest(X)' + (IF A < SyncAt /\ A' = A + 1 /\ Step("main") \in X THEN 1 ELSE 0)
<1>1. /\ A \in Nat \ {0} /\ SyncAt \in Nat /\ tt \subseteq Dev /\ SyncAt' = SyncAt
      /\ A = at["main"] /\ A' = at'["main"]
  BY AtFacts, Same DEF A
<1>2. Rest(X) \in Nat /\ (A >= SyncAt => Rest(X) = 0)
  BY <1>1, RestIs
<1>3. CASE A' = A
  BY <1>1, <1>2, <1>3, RestKept
<1>4. CASE A < SyncAt /\ A' = A + 1
  BY <1>1, <1>2, <1>4, RestNext
<1>5. CASE A >= SyncAt /\ A' >= SyncAt
  <2>1. A' .. SyncAt' - 1 = {}
    BY <1>1, <1>5
  <2>2. Rest(X)' = 0
    BY <2>1, FS_EmptySet DEF Rest
  <2> QED
    BY <1>1, <1>2, <1>5, <2>2
<1> QED
  BY <1>1, <1>3, <1>4, <1>5

\* A command sent is counted with those on their way to the last device.
LEMMA TallySent ==
  ASSUME TypeInv, NEW t, NEW s, NEW c, SentBy(t, s, c), NEW X
  PROVE  /\ Tally(cmdq[N], X) \in Nat
         /\ Tally(cmdq'[N], X) = Tally(cmdq[N], X) + (IF s.dev = N /\ c \in X THEN 1 ELSE 0)
<1>1. /\ Put(s.dev, c) /\ c \in Commands /\ cmdq[N] \in Seq(Commands)
  <2>1. N \in Dev
    BY Devices
  <2> QED
    BY <2>1 DEF SentBy, TypeInv, TypeOK
<1>2. Tally(cmdq[N], X) \in Nat
  BY <1>1, TallyType
<1>3. CASE s.dev = N
  <2>1. cmdq'[N] = Append(cmdq[N], c)
    BY <1>1, <1>3 DEF Put
  <2> QED
    BY <1>1, <1>2, <1>3, <2>1, TallyAppend
<1>4. CASE s.dev # N
  <2>1. cmdq'[N] = cmdq[N]
    BY <1>1, <1>4, AtFacts DEF Put
  <2> QED
    BY <1>2, <1>4, <2>1
<1> QED
  BY <1>3, <1>4

\* Sending a command of the run takes it from what is left to be sent.
LEMMA SentRuns ==
  ASSUME TypeInv, NEW t, NEW s, NEW c, SentBy(t, s, c)
  PROVE  /\ Rest(LastRuns) + Tally(cmdq[N], RunCommands)
              = Rest(LastRuns)' + Tally(cmdq'[N], RunCommands)
         /\ Rest(LastMoves) + Tally(cmdq[N], MoveCommands)
              = Rest(LastMoves)' + Tally(cmdq'[N], MoveCommands)
         /\ Rest(LastRuns)' \in Nat /\ Rest(LastMoves)' \in Nat
         /\ Tally(cmdq'[N], RunCommands) \in Nat /\ Tally(cmdq'[N], MoveCommands) \in Nat
<1>1. /\ s \in Steps /\ c \in Commands /\ c.cmd = s.cmd /\ c.name = s.name
      /\ tt' = tt /\ training' = training
  BY DEF SentBy, Still
<1>2. A' \in {A, A + 1} /\ A' \in Nat /\ A \in Nat /\ SyncAt \in Nat
  BY AtFacts DEF SentBy
<1>3. ASSUME NEW X, NEW Y, s.dev = N /\ c \in Y <=> s \in X,
             s \in X => A < SyncAt /\ A' = A + 1 /\ s = Step("main"),
             Step("main") \in X /\ A < SyncAt /\ A' = A + 1 => s = Step("main")
      PROVE  /\ Rest(X) + Tally(cmdq[N], Y) = Rest(X)' + Tally(cmdq'[N], Y)
             /\ Rest(X)' \in Nat /\ Tally(cmdq'[N], Y) \in Nat
  <2>1. /\ Rest(X) \in Nat /\ Rest(X)' \in Nat
        /\ Rest(X) = Rest(X)' + (IF A < SyncAt /\ A' = A + 1 /\ Step("main") \in X THEN 1 ELSE 0)
    BY <1>1, <1>2, RestGoes
  <2>2. /\ Tally(cmdq[N], Y) \in Nat
        /\ Tally(cmdq'[N], Y) = Tally(cmdq[N], Y) + (IF s.dev = N /\ c \in Y THEN 1 ELSE 0)
    BY TallySent
  <2>3. CASE s \in X
    BY <1>3, <2>1, <2>2, <2>3
  <2>4. CASE s \notin X
    BY <1>3, <2>1, <2>2, <2>4
  <2> QED
    BY <2>3, <2>4
<1>4. /\ s.dev = N /\ c \in RunCommands <=> s \in LastRuns
      /\ s.dev = N /\ c \in MoveCommands <=> s \in LastMoves
  BY <1>1 DEF RunCommands, LastRuns, MoveCommands, LastMoves
<1>5. s.cmd \in {"run_forward", "dc_transfer"} => A < SyncAt /\ A' = A + 1 /\ s = Step("main")
  BY <1>1 DEF SentBy, MainFacts, Steps
<1>6. A' = A + 1 => s = Step("main")
  BY <1>2 DEF SentBy
<1>7. /\ Rest(LastRuns) + Tally(cmdq[N], RunCommands) = Rest(LastRuns)' + Tally(cmdq'[N], RunCommands)
      /\ Rest(LastRuns)' \in Nat /\ Tally(cmdq'[N], RunCommands) \in Nat
  <2>1. s \in LastRuns => s.cmd = "run_forward"
    BY DEF LastRuns
  <2> QED
    BY <1>3, <1>4, <1>5, <1>6, <2>1
<1>8. /\ Rest(LastMoves) + Tally(cmdq[N], MoveCommands) = Rest(LastMoves)' + Tally(cmdq'[N], MoveCommands)
      /\ Rest(LastMoves)' \in Nat /\ Tally(cmdq'[N], MoveCommands) \in Nat
  <2>1. s \in LastMoves => s.cmd = "dc_transfer"
    BY DEF LastMoves
  <2> QED
    BY <1>3, <1>4, <1>5, <1>6, <2>1
<1> QED
  BY <1>7, <1>8

\* The counts of what is to be run and moved, when the queues keep their commands.
LEMMA AllRunKept ==
  ASSUME NEW n, AllRun(n),
         tt' = tt, training' = training, progs'[N] = progs[N], moves'[N] = moves[N],
         dpc'[N] = "forward" <=> dpc[N] = "forward", buf' = buf, out' = out,
         Rest(LastRuns)' + Tally(cmdq'[N], RunCommands) = Rest(LastRuns) + Tally(cmdq[N], RunCommands),
         Rest(LastMoves)' + Tally(cmdq'[N], MoveCommands) = Rest(LastMoves) + Tally(cmdq[N], MoveCommands)
  PROVE  AllRun(n)'
<1>1. Running(N)' = Running(N) /\ Inputs' = Inputs
  BY DEF Running, Inputs
<1>2. RunsIn(n)'
  BY <1>1 DEF AllRun, RunsIn
<1>3. MovesIn'
  BY <1>1 DEF AllRun, MovesIn
<1> QED
  BY <1>2, <1>3 DEF AllRun

\* A command of the run sent counts as much as a step of it left.
LEMMA FlowClient ==
  ASSUME TypeInv, Ranges, ClientCalm, NEW f, Flow(f)
  PROVE  Flow(f)'
<1>1. Still
  BY DEF ClientCalm
<1>2. Contents' = Contents /\ Inputs' = Inputs /\ SyncAt' = SyncAt /\ QuitAt' = QuitAt
  BY <1>1, Same DEF Still, Contents, Holds, Channel, Tally, Busy
<1>3. (Len(buf) <= Inputs)' /\ Sums(f, Contents, Inputs - Len(buf), Len(out))'
  BY <1>1, <1>2 DEF Still, Flow, Sums
<1>4. (NothingRan /\ A > SyncAt) => (NothingRan /\ A > SyncAt)'
  BY <1>2, NothingClient, AtGrows, AtFacts
<1>5. ASSUME AllRun(f[N]) PROVE AllRun(f[N])' \/ (NothingRan /\ A > SyncAt)'
  <2>1. A' \in Nat /\ A \in Nat /\ SyncAt \in Nat /\ SyncAt < QuitAt /\ QuitAt \in Nat
    BY AtFacts, AtGrows
  <2>2. CASE \E t, s, c : SentBy(t, s, c)
    <3>1. PICK t, s, c : SentBy(t, s, c)
      BY <2>2
    <3>2. /\ Rest(LastRuns)' + Tally(cmdq'[N], RunCommands) = Rest(LastRuns) + Tally(cmdq[N], RunCommands)
          /\ Rest(LastMoves)' + Tally(cmdq'[N], MoveCommands) = Rest(LastMoves) + Tally(cmdq[N], MoveCommands)
      BY <3>1, SentRuns
    <3> QED
      BY <1>1, <1>5, <3>2, AllRunKept DEF Still
  <2>3. ASSUME cmdq' = cmdq, Rest(LastRuns)' = Rest(LastRuns), Rest(LastMoves)' = Rest(LastMoves)
        PROVE  AllRun(f[N])'
    BY <1>1, <1>5, <2>3, AllRunKept DEF Still
  <2>4. CASE cmdq' = cmdq /\ A' = A
    <3>1. \A X : Rest(X)' = Rest(X)
      BY <1>1, <2>1, <2>4, RestKept DEF Still, A
    <3> QED
      BY <2>3, <2>4, <3>1
  <2>5. CASE cmdq' = cmdq /\ SkipsSync
    <3>1. \A X : Rest(X)' = Rest(X)
      BY <1>1, <2>1, <2>5, RestGoes DEF Still, SkipsSync
    <3> QED
      BY <2>3, <2>5, <3>1
  <2>6. ASSUME cmdq' = cmdq, NEW s, AnsweredMain(s)
        PROVE  AllRun(f[N])' \/ (NothingRan /\ A > SyncAt)'
    <3>1. s = Step("main") /\ MainFacts(s) /\ s.reply
      BY <2>6 DEF AnsweredMain
    <3>2. s \notin LastRuns /\ s \notin LastMoves
      BY <3>1 DEF MainFacts, LastRuns, LastMoves
    <3>3. CASE A' = A + 1
      <4>1. Rest(LastRuns)' = Rest(LastRuns) /\ Rest(LastMoves)' = Rest(LastMoves)
        BY <1>1, <2>1, <3>1, <3>2, <3>3, RestGoes DEF Still
      <4> QED
        BY <2>3, <2>6, <4>1
    <3>4. CASE A' = QuitAt /\ A <= L
      <4>1. NothingRan'
        BY <3>4, NothingClient DEF Ranges
      <4> QED
        BY <1>2, <2>1, <3>4, <4>1
    <3> QED
      BY <2>6, <3>3, <3>4 DEF AnsweredMain
  <2> QED
    BY <2>2, <2>4, <2>5, <2>6 DEF ClientCalm
<1> QED
  BY <1>3, <1>4, <1>5 DEF Flow

-----------------------------------------------------------------------------
(* The end of the shutdown, and what a command does.                       *)

\* A step of the end of the program moves nothing but the phase.
PhaseStep == PassBarrier \/ LoopJoined \/ Joined \/ UNCHANGED vars

\* Tensors nobody touches stay where they are.
LEMMA FlowKept ==
  ASSUME NEW f, Flow(f), Still, A' = A, cmdq' = cmdq, NothingRan => NothingRan'
  PROVE  Flow(f)'
<1>1. Contents' = Contents /\ Inputs' = Inputs /\ SyncAt' = SyncAt
  BY Same DEF Still, Contents, Holds, Channel, Tally, Busy
<1>2. \A X : Rest(X)' = Rest(X)
  BY RestKept DEF Still, A
<1>3. (Len(buf) <= Inputs)' /\ Sums(f, Contents, Inputs - Len(buf), Len(out))'
  BY <1>1 DEF Still, Flow, Sums
<1>4. AllRun(f[N]) => AllRun(f[N])'
  BY <1>2, AllRunKept DEF Still
<1> QED
  BY <1>1, <1>3, <1>4 DEF Flow

\* The barrier and the joins of the shutdown.
LEMMA PhaseCalm ==
  ASSUME TypeInv, ~event, Calm, PhaseStep
  PROVE  Calm'
<1>1. Still /\ UNCHANGED <<at, synced, cmdq, event>>
  BY DEF PhaseStep, PassBarrier, LoopJoined, Joined, vars, clientVars, deviceVars, flowVars, pushVars, Still
<1>2. /\ tt' = tt /\ training' = training /\ conn' = conn /\ dpc' = dpc /\ progs' = progs /\ moves' = moves
      /\ data' = data /\ buf' = buf /\ out' = out /\ pq' = pq /\ ppc' = ppc /\ held' = held
      /\ cmdq' = cmdq /\ A' = A /\ synced' = synced
  BY <1>1 DEF Still, A
<1>3. /\ Setup' = Setup /\ L' = L /\ SyncAt' = SyncAt /\ QuitAt' = QuitAt
      /\ Pushers' = Pushers /\ \A d \in Dev : PushDirection(d)' = PushDirection(d)
  BY <1>2, Same
<1>4. SetsSent'
  BY <1>2, <1>3 DEF Calm, SetsSent, SetSeen
<1>5. PushersSet'
  BY <1>2, <1>3, AtFacts DEF Calm, PushersSet, Quiet, OnlyQuits, SetFirst
<1>6. NothingRan => NothingRan'
  BY <1>2 DEF NothingRan, Quiet, OnlyQuits
<1>7. Ranges'
  BY <1>2, <1>3, <1>6 DEF Calm, Ranges
<1>8. QuitQueued' /\ QuitDone'
  BY <1>2, <1>3 DEF Calm, QuitQueued, QuitDone, Ended
<1>9. Barrier'
  BY <1>2 DEF Calm, Barrier, AtBarrier, PhaseStep, PassBarrier, LoopJoined, Joined, vars, clientVars
<1>10. SyncedIdle'
  BY <1>2, <1>3 DEF Calm, SyncedIdle, Past, IdleNow
<1>11. Tensors'
  BY <1>2 DEF Calm, Tensors, Busy
<1>12. \E f : Flow(f)'
  BY <1>1, <1>2, <1>6, FlowKept DEF Calm
<1> QED
  BY <1>4, <1>5, <1>7, <1>8, <1>9, <1>10, <1>11, <1>12 DEF Calm

\* What running command c changes on device d.
Took(d, c) ==
    /\ Got(d, c) /\ c \in Commands /\ dpc[d] = "next"
    /\ UNCHANGED <<tt, training, at, synced, phase, data, buf, out, pq, ppc, held>>
    /\ \A e \in Dev : e # d => /\ conn'[e] = conn[e] /\ progs'[e] = progs[e]
                               /\ moves'[e] = moves[e] /\ dpc'[e] = dpc[e]
    /\ DOMAIN conn[d] \subseteq DOMAIN conn'[d]
    /\ c.cmd = "set_queues" => c.name \in DOMAIN conn'[d]
    /\ progs'[d] = progs[d] + (IF c.cmd = "run_forward" /\ d \in tt THEN 1 ELSE 0)
    /\ moves'[d] = moves[d] + (IF c.cmd = "dc_transfer" /\ d \in tt
                                    /\ (IF c.name = "forward" THEN d = N ELSE d = 1) THEN 1 ELSE 0)
    /\ dpc'[d] = IF c.cmd = "quit" THEN "threads"
                 ELSE IF c.cmd = "run_forward" /\ d \notin tt THEN "forward" ELSE "next"

\* What run_next_command does, but for its answer.
LEMMA TookIs ==
  ASSUME TypeInv, NEW d \in Dev, CommandStep(d)
  PROVE  \E c : Took(d, c)
<1>1. PICK c : \/ RanCompile(d, c) \/ RanGet(d, c) \/ RanSet(d, c) \/ RanTransfer(d, c)
               \/ RanForward(d, c) \/ RanSync(d, c) \/ RanCheckpoint(d, c) \/ RanQuit(d, c)
  BY DEF CommandStep
<1>2. Ran(d, c)
  BY <1>1 DEF RanCompile, RanGet, RanSet, RanTransfer, RanForward, RanSync, RanCheckpoint, RanQuit
<1>3. Got(d, c) /\ c \in Commands
  BY <1>2, GotIs
<1>4. /\ dpc[d] = "next" /\ dpc \in [Dev -> {"next", "forward", "threads", "barrier", "closed"}]
      /\ progs \in [Dev -> Nat] /\ moves \in [Dev -> Nat] /\ DOMAIN conn = Dev
      /\ UNCHANGED <<tt, training, at, synced, phase, data, buf, out, pq, ppc, held>>
  BY <1>2 DEF Ran, TypeInv, TypeOK, clientVars, pushVars
<1>5. CASE RanSet(d, c)
  <2>1. c.cmd = "set_queues" /\ dpc' = dpc /\ progs' = progs /\ moves' = moves
    BY <1>5 DEF RanSet, RunSetQueues
  <2>2. \A e \in Dev : e # d => conn'[e] = conn[e]
    BY <1>4, <1>5 DEF RanSet, RunSetQueues
  <2>3. PICK old : old = conn[d]
    OBVIOUS
  <2>4. conn'[d] = [r \in {c.name} \cup DOMAIN old |-> IF r = c.name THEN c.desc ELSE old[r]]
    BY <1>4, <1>5, <2>3 DEF RanSet, RunSetQueues
  <2>5. DOMAIN conn'[d] = {c.name} \cup DOMAIN old
    BY <2>4
  <2> QED
    BY <1>3, <1>4, <2>1, <2>2, <2>3, <2>5 DEF Took
<1>6. CASE RanCompile(d, c) \/ RanGet(d, c) \/ RanSync(d, c) \/ RanCheckpoint(d, c)
  <2>1. c.cmd \in {"compile", "get_queues", "sync", "checkpoint"}
        /\ conn' = conn /\ dpc' = dpc /\ progs' = progs /\ moves' = moves
    BY <1>6 DEF RanCompile, RunCompile, RanGet, RunGetQueues, RanSync, RunSync, RanCheckpoint, RunCheckpoint, deviceVars
  <2> QED
    BY <1>3, <1>4, <2>1 DEF Took
<1>7. CASE RanTransfer(d, c)
  <2>1. c.cmd = "dc_transfer" /\ conn' = conn /\ dpc' = dpc /\ progs' = progs
    BY <1>7 DEF RanTransfer, RunTransfer, deviceVars
  <2>2. /\ \A e \in Dev : e # d => moves'[e] = moves[e]
        /\ moves'[d] = moves[d] + (IF d \in tt /\ (IF c.name = "forward" THEN d = N ELSE d = 1) THEN 1 ELSE 0)
    BY <1>4, <1>7 DEF RanTransfer, RunTransfer
  <2> QED
    BY <1>3, <1>4, <2>1, <2>2 DEF Took
<1>8. CASE RanForward(d, c)
  <2>1. c.cmd = "run_forward" /\ conn' = conn /\ moves' = moves
    BY <1>8 DEF RanForward, RunRunForward
  <2>2. /\ \A e \in Dev : e # d => progs'[e] = progs[e] /\ dpc'[e] = dpc[e]
        /\ progs'[d] = progs[d] + (IF d \in tt THEN 1 ELSE 0)
        /\ dpc'[d] = IF d \notin tt THEN "forward" ELSE "next"
    BY <1>4, <1>8 DEF RanForward, RunRunForward, Goto
  <2> QED
    BY <1>3, <1>4, <2>1, <2>2 DEF Took
<1>9. CASE RanQuit(d, c)
  <2>1. c.cmd = "quit" /\ conn' = conn /\ moves' = moves /\ progs' = progs
    BY <1>9 DEF RanQuit
  <2>2. dpc'[d] = "threads" /\ \A e \in Dev : e # d => dpc'[e] = dpc[e]
    BY <1>4, <1>9 DEF RanQuit, Goto
  <2> QED
    BY <1>3, <1>4, <2>1, <2>2 DEF Took
<1> QED
  BY <1>1, <1>5, <1>6, <1>7, <1>8, <1>9

-----------------------------------------------------------------------------
(* A command taken: the queues.                                            *)

\* The commands left on device d are those behind the one it took.
LEMMA TookQueue ==
  ASSUME TypeInv, NEW d \in Dev, NEW c, Took(d, c)
  PROVE  /\ 1 \in DOMAIN cmdq[d] /\ cmdq[d][1] = c
         /\ \A i \in DOMAIN cmdq'[d] : /\ i \in Nat /\ i >= 1 /\ i + 1 \in DOMAIN cmdq[d]
                                       /\ cmdq'[d][i] = cmdq[d][i + 1]
         /\ \A i \in DOMAIN cmdq[d] : i \in Nat /\ (i = 1 \/ (i > 1 /\ i - 1 \in DOMAIN cmdq'[d]))
         /\ \A e \in Dev : e # d => cmdq'[e] = cmdq[e]
<1>1. Got(d, c)
  BY DEF Took
<1>2. PICK n \in Nat : /\ n >= 1 /\ DOMAIN cmdq[d] = 1 .. n /\ DOMAIN cmdq'[d] = 1 .. n - 1
                       /\ \A i \in 1 .. n - 1 : cmdq'[d][i] = cmdq[d][i + 1]
  BY <1>1 DEF Got
<1>3. 1 \in 1 .. n /\ \A i \in 1 .. n - 1 : i \in Nat /\ i >= 1 /\ i + 1 \in 1 .. n
  BY <1>2
<1>4. \A i \in 1 .. n : i \in Nat /\ (i = 1 \/ (i > 1 /\ i - 1 \in 1 .. n - 1))
  BY <1>2
<1> QED
  BY <1>1, <1>2, <1>3, <1>4 DEF Got

\* A set_queues taken is done: its descriptors are there.
LEMMA SetsCommand ==
  ASSUME TypeInv, SetsSent, NEW d \in Dev, NEW c, Took(d, c)
  PROVE  SetsSent'
<1>1. Setup' = Setup /\ L' = L /\ SyncAt' = SyncAt /\ A' = A
  BY Same DEF Took, A
<1>2. ASSUME NEW e, NEW r, SetSeen(e, r), e \in Dev PROVE SetSeen(e, r)'
  <2>1. CASE e # d
    BY <1>2, <2>1, TookQueue DEF Took, SetSeen
  <2>2. CASE e = d /\ r \in DOMAIN conn[d]
    BY <2>2 DEF Took, SetSeen
  <2>3. CASE e = d /\ \E i \in DOMAIN cmdq[d] : cmdq[d][i].cmd = "set_queues" /\ cmdq[d][i].name = r
    <3>1. PICK i \in DOMAIN cmdq[d] : cmdq[d][i].cmd = "set_queues" /\ cmdq[d][i].name = r
      BY <2>3
    <3>2. CASE i = 1
      <4>1. cmdq[d][1] = c
        BY TookQueue
      <4> QED
        BY <2>3, <3>1, <3>2, <4>1 DEF Took, SetSeen
    <3>3. CASE i > 1
      <4>1. i - 1 \in DOMAIN cmdq'[d] /\ i \in Nat
        BY <3>3, TookQueue
      <4>2. cmdq'[d][i - 1] = cmdq[d][i - 1 + 1] /\ i - 1 + 1 = i
        BY <4>1, TookQueue
      <4> QED
        BY <2>3, <3>1, <4>1, <4>2 DEF SetSeen
    <3> QED
      BY <3>2, <3>3, TookQueue
  <2> QED
    BY <1>2, <2>1, <2>2, <2>3 DEF SetSeen
<1>3. \A j \in 1 .. L : Setup[j].dev \in Dev
  <2>1. PICK q : q = Setup
    OBVIOUS
  <2>2. q \in Seq(Steps) /\ L = Len(q)
    BY <2>1, SetupGood, AtFacts DEF L
  <2>3. \A j \in 1 .. L : q[j] \in Steps
    BY <2>2, ElementOfSeq
  <2> QED
    BY <2>1, <2>3 DEF Steps
<1> QED
  BY <1>1, <1>2, <1>3 DEF SetsSent

\* The descriptors have been set when the first command of the run is taken.
LEMMA PushersCommand ==
  ASSUME TypeInv, PushersSet, NEW d \in Dev, NEW c, Took(d, c)
  PROVE  PushersSet'
<1>1. /\ Pushers' = Pushers /\ Pushers \subseteq Dev
      /\ \A e \in Dev : PushDirection(e)' = PushDirection(e)
  BY Same, AtFacts DEF Took
<1>2. SUFFICES ASSUME NEW p \in Pushers
               PROVE  (PushDirection(p) \in DOMAIN conn[p] \/ (Quiet(p) /\ SetFirst(p)))'
  BY <1>1 DEF PushersSet
<1>3. CASE PushDirection(p) \in DOMAIN conn[p]
  <2>1. DOMAIN conn[p] \subseteq DOMAIN conn'[p]
    BY <1>1 DEF Took
  <2> QED
    BY <1>1, <1>3, <2>1
<1>4. CASE p # d /\ Quiet(p) /\ SetFirst(p)
  <2>1. cmdq'[p] = cmdq[p] /\ PushDirection(p)' = PushDirection(p)
    BY <1>1, <1>4, TookQueue
  <2>2. Quiet(p)'
    BY <1>1, <1>4 DEF Quiet, OnlyQuits, Took
  <2> QED
    BY <1>4, <2>1, <2>2 DEF SetFirst
<1>5. CASE p = d /\ Quiet(d) /\ SetFirst(d)
  <2>1. ~IsRun(c)
    BY <1>5, TookQueue DEF SetFirst
  <2>2. Quiet(d)'
    <3>1. dpc'[d] # "forward"
      BY <2>1 DEF Took, IsRun
    <3>2. moves'[d] = moves[d] + 0 /\ moves[d] = 0
      BY <1>5, <2>1 DEF Took, IsRun, Quiet
    <3> QED
      BY <1>5, <3>1, <3>2 DEF Quiet, OnlyQuits, Took
  <2>3. CASE c.cmd = "set_queues" /\ c.name = PushDirection(d)
    BY <1>1, <1>5, <2>3 DEF Took
  <2>4. CASE ~(c.cmd = "set_queues" /\ c.name = PushDirection(d))
    <3>1. ASSUME NEW i \in DOMAIN cmdq'[d], IsRun(cmdq'[d][i])
          PROVE  \E j \in 1 .. i - 1 : cmdq'[d][j].cmd = "set_queues" /\ cmdq'[d][j].name = PushDirection(d)
      <4>1. i \in Nat /\ i + 1 \in DOMAIN cmdq[d] /\ cmdq'[d][i] = cmdq[d][i + 1]
        BY <3>1, TookQueue
      <4>2. PICK j \in 1 .. (i + 1) - 1 : cmdq[d][j].cmd = "set_queues" /\ cmdq[d][j].name = PushDirection(d)
        BY <1>5, <3>1, <4>1 DEF SetFirst
      <4>3. j # 1
        BY <2>4, <4>2, TookQueue
      <4>4. j - 1 \in 1 .. i - 1 /\ j - 1 \in DOMAIN cmdq'[d]
        <5>1. PICK n \in Nat : /\ DOMAIN cmdq'[d] = 1 .. n - 1
          BY DEF Took, Got
        <5> QED
          BY <3>1, <4>1, <4>2, <4>3, <5>1
      <4>5. cmdq'[d][j - 1] = cmdq[d][j - 1 + 1] /\ j - 1 + 1 = j
        BY <4>2, <4>4, TookQueue
      <4> QED
        BY <4>2, <4>4, <4>5
    <3>2. PushDirection(d)' = PushDirection(d)
      BY <1>1
    <3>3. SetFirst(d)'
      BY <3>1, <3>2 DEF SetFirst
    <3> QED
      BY <1>5, <2>2, <3>3
  <2> QED
    BY <1>5, <2>3, <2>4
<1> QED
  BY <1>2, <1>3, <1>4, <1>5 DEF PushersSet

\* The commands of the setup move no input.
LEMMA NothingCommand ==
  ASSUME TypeInv, NothingRan, NEW d \in Dev, NEW c, Took(d, c)
  PROVE  NothingRan'
<1>1. ~IsRun(c)
  BY TookQueue DEF NothingRan
<1>2. ASSUME NEW e \in Dev PROVE Quiet(e)' /\ progs'[e] = 0
  <2>1. CASE e # d
    BY <2>1 DEF Took, NothingRan, Quiet, OnlyQuits
  <2>2. CASE e = d
    <3>1. dpc'[d] # "forward" /\ moves'[d] = moves[d] + 0 /\ progs'[d] = progs[d] + 0
      BY <1>1 DEF Took, IsRun
    <3> QED
      BY <2>2, <3>1 DEF Took, NothingRan, Quiet, OnlyQuits
  <2> QED
    BY <2>1, <2>2
<1>3. ASSUME NEW e \in Dev, NEW i \in DOMAIN cmdq'[e] PROVE ~IsRun(cmdq'[e][i])
  BY <1>3, TookQueue DEF NothingRan
<1> QED
  BY <1>2, <1>3 DEF NothingRan

\* A device that takes QUIT leaves at most a late checkpoint behind.
LEMMA QuitCommand ==
  ASSUME TypeInv, QuitQueued, QuitDone, NEW d \in Dev, NEW c, Took(d, c)
  PROVE  QuitQueued' /\ QuitDone'
<1>1. QuitAt' = QuitAt /\ A' = A
  BY Same DEF Took, A
<1>2. ASSUME NEW e \in Dev, NEW i \in DOMAIN cmdq'[e], cmdq'[e][i].cmd = "quit"
      PROVE  A >= QuitAt + e /\ \A j \in DOMAIN cmdq'[e] : j > i => cmdq'[e][j].cmd = "checkpoint"
  <2>1. CASE e # d
    BY <1>2, <2>1, TookQueue DEF QuitQueued
  <2>2. CASE e = d
    <3>1. i \in Nat /\ i + 1 \in DOMAIN cmdq[d] /\ cmdq[d][i + 1].cmd = "quit"
      BY <1>2, <2>2, TookQueue
    <3>2. A >= QuitAt + d /\ \A j \in DOMAIN cmdq[d] : j > i + 1 => cmdq[d][j].cmd = "checkpoint"
      BY <3>1 DEF QuitQueued
    <3>3. ASSUME NEW j \in DOMAIN cmdq'[d], j > i PROVE cmdq'[d][j].cmd = "checkpoint"
      <4>1. j \in Nat /\ j + 1 \in DOMAIN cmdq[d] /\ cmdq'[d][j] = cmdq[d][j + 1]
        BY TookQueue
      <4>2. j + 1 > i + 1
        BY <3>1, <3>3, <4>1
      <4> QED
        BY <3>2, <4>1, <4>2
    <3> QED
      BY <2>2, <3>2, <3>3
  <2> QED
    BY <2>1, <2>2
<1>3. ASSUME NEW e \in Dev, Ended(e)'
      PROVE  A >= QuitAt + e /\ \A j \in DOMAIN cmdq'[e] : cmdq'[e][j].cmd = "checkpoint"
  <2>1. CASE e # d
    <3>1. Ended(e)
      BY <1>3, <2>1 DEF Took, Ended
    <3> QED
      BY <2>1, <3>1, TookQueue DEF QuitDone
  <2>2. CASE e = d
    <3>1. c.cmd = "quit"
      BY <1>3, <2>2 DEF Took, Ended
    <3>2. 1 \in DOMAIN cmdq[d] /\ cmdq[d][1].cmd = "quit"
      BY <3>1, TookQueue
    <3>3. A >= QuitAt + d /\ \A j \in DOMAIN cmdq[d] : j > 1 => cmdq[d][j].cmd = "checkpoint"
      BY <3>2 DEF QuitQueued
    <3>4. ASSUME NEW j \in DOMAIN cmdq'[d] PROVE cmdq'[d][j].cmd = "checkpoint"
      <4>1. j \in Nat /\ j >= 1 /\ j + 1 \in DOMAIN cmdq[d] /\ cmdq'[d][j] = cmdq[d][j + 1]
        BY TookQueue
      <4> QED
        BY <3>3, <4>1
    <3> QED
      BY <2>2, <3>3, <3>4
  <2> QED
    BY <2>1, <2>2
<1> QED
  BY <1>1, <1>2, <1>3 DEF QuitQueued, QuitDone

\* A command moves nobody to or from the barrier.
LEMMA BarrierCommand ==
  ASSUME TypeInv, Barrier, NEW d \in Dev, NEW c, Took(d, c)
  PROVE  Barrier'
<1>1. ~AtBarrier(d) /\ ~AtBarrier(d)' /\ dpc'[d] # "closed"
  BY DEF AtBarrier, Took
<1>2. \A e \in Dev : e # d => moves'[e] = moves[e] /\ dpc'[e] = dpc[e]
  BY DEF Took
<1> QED
  BY <1>1, <1>2 DEF Barrier, AtBarrier, Took

\* A device whose SYNC has been answered only takes QUIT.
LEMMA SyncedCommand ==
  ASSUME TypeInv, SyncedIdle, NEW d \in Dev, NEW c, Took(d, c)
  PROVE  SyncedIdle'
<1>1. SyncAt' = SyncAt /\ QuitAt' = QuitAt /\ A' = A /\ synced' = synced /\ training' = training
  BY Same DEF Took, A
<1>2. SUFFICES ASSUME NEW e \in Dev, IdleNow(e) PROVE IdleNow(e)'
  BY <1>1 DEF SyncedIdle, Past
<1>3. CASE e # d
  BY <1>2, <1>3, TookQueue DEF IdleNow, Took
<1>4. CASE e = d
  <2>1. c.cmd = "quit"
    BY <1>2, <1>4, TookQueue DEF IdleNow
  <2>2. dpc'[d] = "threads" /\ progs'[d] = progs[d] + 0
    BY <2>1 DEF Took
  <2>3. \A i \in DOMAIN cmdq'[d] : cmdq'[d][i].cmd = "quit"
    BY <1>2, <1>4, TookQueue DEF IdleNow
  <2> QED
    BY <1>2, <1>4, <2>2, <2>3 DEF IdleNow
<1> QED
  BY <1>3, <1>4

-----------------------------------------------------------------------------
(* A command taken: what is left to run.                                   *)

\* A command the last device takes becomes a run or a move to be made.
LEMMA RunsCommand ==
  ASSUME TypeInv, NEW d \in Dev, NEW c, Took(d, c), NEW n, AllRun(n)
  PROVE  AllRun(n)'
<1>1. \A X : Rest(X)' = Rest(X)
  BY RestKept DEF Took
<1>2. Inputs' = Inputs /\ tt' = tt /\ buf' = buf /\ out' = out
  BY Same DEF Took
<1>3. N \in Dev /\ N \in Nat /\ cmdq[N] \in Seq(Commands) /\ progs[N] \in Nat /\ moves[N] \in Nat /\ A \in Nat
      /\ tt \subseteq Dev
  <2>1. N \in Dev
    BY Devices
  <2> QED
    BY <2>1, AtFacts DEF TypeInv, TypeOK
<1>4. CASE d # N
  <2>1. cmdq'[N] = cmdq[N] /\ progs'[N] = progs[N] /\ moves'[N] = moves[N] /\ dpc'[N] = dpc[N]
    BY <1>3, <1>4, TookQueue DEF Took
  <2> QED
    BY <1>1, <1>2, <2>1 DEF AllRun, RunsIn, MovesIn, Running
<1>5. CASE d = N
  <2>1. /\ cmdq[N] # <<>> /\ Head(cmdq[N]) = c /\ cmdq'[N] = Tail(cmdq[N]) /\ c \in Commands
    BY <1>5 DEF Took, Got
  <2>2. \A X : /\ Tally(cmdq[N], X) = Tally(cmdq'[N], X) + (IF c \in X THEN 1 ELSE 0)
    BY <1>3, <2>1, TallyTail
  <2>3. \A X : Tally(cmdq'[N], X) \in Nat
    <3>1. Tail(cmdq[N]) \in Seq(Commands)
      BY <1>3, <2>1, HeadTailProperties
    <3> QED
      BY <2>1, <3>1, TallyType
  <2>4. Rest(LastRuns) \in Nat /\ Rest(LastMoves) \in Nat
    BY <1>3, RestIs
  <2>5. Running(N)' = Running(N) + (IF c \in RunCommands THEN 1 ELSE 0) /\ Running(N) \in Nat
    BY <1>2, <1>3, <1>5, <2>1 DEF Took, Running, RunCommands
  <2>6. N \in tt => moves'[N] = moves[N] + (IF c \in MoveCommands THEN 1 ELSE 0)
    BY <1>3, <1>5, <2>1 DEF Took, MoveCommands
  <2>7. RunsIn(n)'
    <3>1. Rest(LastRuns) + Tally(cmdq[N], RunCommands) + Running(N) + n = Inputs
      BY DEF AllRun, RunsIn
    <3>2. Tally(cmdq[N], RunCommands) + Running(N) = Tally(cmdq'[N], RunCommands) + Running(N)'
      BY <2>2, <2>3, <2>5
    <3>3. Rest(LastRuns)' + Tally(cmdq'[N], RunCommands) + Running(N)' + n = Inputs'
      <4>0. Tally(cmdq[N], RunCommands) \in Nat
        BY <1>3, TallyType
      <4>1. Tally(cmdq[N], RunCommands) \in Nat /\ Running(N)' \in Nat
        BY <2>5, <4>0
      <4>2. Rest(LastRuns) + Tally(cmdq[N], RunCommands) + Running(N)
              = Rest(LastRuns)' + Tally(cmdq'[N], RunCommands) + Running(N)'
        BY <1>1, <2>3, <2>4, <2>5, <3>2, <4>1
      <4> QED
        BY <1>2, <3>1, <4>2
    <3> QED
      BY <3>3 DEF RunsIn
  <2>8. MovesIn'
    <3>1. SUFFICES ASSUME N \in tt
                   PROVE  Rest(LastMoves)' + Tally(cmdq'[N], MoveCommands) + moves'[N] + Len(out)
                            = Inputs + (IF N = 1 THEN Len(buf) ELSE 0)
      BY <1>2 DEF MovesIn
    <3>2. Rest(LastMoves) + Tally(cmdq[N], MoveCommands) + moves[N] + Len(out)
            = Inputs + (IF N = 1 THEN Len(buf) ELSE 0)
      BY <3>1 DEF AllRun, MovesIn
    <3>3. /\ Tally(cmdq[N], MoveCommands) + moves[N] = Tally(cmdq'[N], MoveCommands) + moves'[N]
          /\ Tally(cmdq[N], MoveCommands) \in Nat /\ moves'[N] \in Nat
      BY <1>3, <2>2, <2>3, <2>6, <3>1, TallyType
    <3>4. Rest(LastMoves) + Tally(cmdq[N], MoveCommands) + moves[N]
            = Rest(LastMoves)' + Tally(cmdq'[N], MoveCommands) + moves'[N]
      BY <1>1, <1>3, <2>3, <2>4, <3>3
    <3> QED
      BY <3>2, <3>4
  <2> QED
    BY <2>7, <2>8 DEF AllRun
<1> QED
  BY <1>4, <1>5

\* A command of the run taken counts as much as one queued.
LEMMA FlowCommand ==
  ASSUME TypeInv, NEW d \in Dev, NEW c, Took(d, c), NEW f, Flow(f)
  PROVE  Flow(f)'
<1>1. Contents' = Contents /\ Inputs' = Inputs /\ SyncAt' = SyncAt /\ A' = A
  BY Same DEF Took, Contents, Holds, Channel, Tally, Busy, A
<1>2. (Len(buf) <= Inputs)' /\ Sums(f, Contents, Inputs - Len(buf), Len(out))'
  BY <1>1 DEF Took, Flow, Sums
<1> QED
  BY <1>1, <1>2, RunsCommand, NothingCommand DEF Flow

\* A command taken without an error.
LEMMA CommandCalm ==
  ASSUME TypeInv, Calm, NEW d \in Dev, CommandStep(d)
  PROVE  Calm'
<1>1. PICK c : Took(d, c)
  BY TookIs
<1>2. SetsSent' /\ PushersSet' /\ QuitQueued' /\ QuitDone' /\ Barrier' /\ SyncedIdle'
  BY <1>1, SetsCommand, PushersCommand, QuitCommand, BarrierCommand, SyncedCommand DEF Calm
<1>3. Ranges'
  <2>1. A' = A /\ L' = L /\ QuitAt' = QuitAt /\ synced' = synced
    BY <1>1, Same DEF Took, A
  <2> QED
    BY <1>1, <2>1, NothingCommand DEF Calm, Ranges
<1>4. Tensors'
  BY <1>1 DEF Calm, Tensors, Took, Busy
<1>5. \E f : Flow(f)'
  BY <1>1, FlowCommand DEF Calm
<1> QED
  BY <1>2, <1>3, <1>4, <1>5 DEF Calm

\* ... and what the calling threads do keeps it too.
LEMMA ClientKeepsCalm ==
  ASSUME TypeInv, OneRequest, ~event, Calm, ClientCalm
  PROVE  Calm'
<1>1. SetsSent' /\ PushersSet' /\ Ranges' /\ QuitQueued' /\ QuitDone' /\ SyncedIdle'
  BY SetsClient, PushersClient, RangesClient, QuitClient, SyncedClient DEF Calm
<1>2. Barrier' /\ Tensors'
  BY DEF Calm, Barrier, Tensors, AtBarrier, Busy, ClientCalm, Still
<1>3. \E f : Flow(f)'
  BY FlowClient DEF Calm
<1> QED
  BY <1>1, <1>2, <1>3 DEF Calm

-----------------------------------------------------------------------------
(* The places a tensor waits at.                                           *)

\* One tensor goes from place k to place l + 1.
LEMMA Shift ==
  ASSUME NEW f, NEW h, NEW n, NEW m, Sums(f, h, n, m), NEW k \in 0 .. N + 1, NEW l \in k .. N + 1,
         NEW hh \in [Places -> Nat],
         \A p \in Places : hh[p] + (IF p = k THEN 1 ELSE 0) = h[p] + (IF p = l + 1 THEN 1 ELSE 0)
  PROVE  \E g : /\ Sums(g, hh, n + (IF k = 0 THEN 1 ELSE 0), m + (IF l = N + 1 THEN 1 ELSE 0))
                /\ g[N] = f[N] + (IF k <= N /\ N <= l THEN 1 ELSE 0)
<1>1. /\ N \in Nat /\ N >= 1 /\ k \in Nat /\ l \in Nat /\ k <= l /\ l <= N + 1
      /\ f \in [0 .. N + 1 -> Nat] /\ h \in [Places -> Nat]
      /\ f[0] = n /\ f[N + 1] = m /\ \A p \in Places : f[p - 1] = f[p] + h[p]
  BY Devices DEF Sums
<1> DEFINE one(p) == IF k <= p /\ p <= l THEN 1 ELSE 0
           g == [p \in 0 .. N + 1 |-> f[p] + one(p)]
<1>2. \A p \in 0 .. N + 1 : g[p] = f[p] + one(p)
  OBVIOUS
<1>3. g \in [0 .. N + 1 -> Nat]
  BY <1>1
<1> HIDE DEF g
<1>4. ASSUME NEW p \in Places PROVE g[p - 1] = g[p] + hh[p]
  <2>1. p - 1 \in 0 .. N + 1 /\ p \in 0 .. N + 1 /\ p \in Nat
    BY <1>1 DEF Places
  <2>2. g[p - 1] = f[p - 1] + one(p - 1) /\ g[p] = f[p] + one(p)
    BY <1>2, <2>1
  <2>3. f[p - 1] = f[p] + h[p] /\ f[p] \in Nat /\ h[p] \in Nat /\ hh[p] \in Nat
    BY <1>1, <2>1
  <2>4. hh[p] + (IF p = k THEN 1 ELSE 0) = h[p] + (IF p = l + 1 THEN 1 ELSE 0)
    OBVIOUS
  <2> QED
    BY <1>1, <2>1, <2>2, <2>3, <2>4
<1>5. g[0] = n + (IF k = 0 THEN 1 ELSE 0) /\ g[N + 1] = m + (IF l = N + 1 THEN 1 ELSE 0)
      /\ g[N] = f[N] + (IF k <= N /\ N <= l THEN 1 ELSE 0)
  BY <1>1, <1>2
<1> QED
  BY <1>3, <1>4, <1>5 DEF Sums

\* The channel of a pusher leads to one place.
LEMMA OneChannel ==
  ASSUME TypeInv, NEW d \in Pushers
  PROVE  /\ d \in Dev /\ Target(d) \in tt /\ Target(d) \in Dev /\ Target(d) \in Places /\ Via(Target(d)) = d
         /\ \A p \in tt : Via(p) = d => p = Target(d)
<1>1. tt \subseteq Dev /\ (\A e \in tt : e + 1 \notin tt) /\ N \in Nat /\ N >= 1 /\ Dev = 1 .. N
  BY TypeFacts, Devices DEF TypeInv
<1>2. d \in Dev /\ IF d \in tt THEN d = 1 ELSE d + 1 \in tt
  BY DEF Pushers
<1> QED
  BY <1>1, <1>2 DEF Target, Via, Places

\* What is in a connector is a number of tensors ...
LEMMA ChannelIs ==
  ASSUME TypeInv, NEW d \in Dev
  PROVE  Channel(d) \in Nat /\ pq[d] \in Seq(Int)
<1>1. pq[d] \in Seq(Int)
  BY DEF TypeInv, TypeOK
<1>2. Tally(pq[d], Real) \in Nat
  BY <1>1, TallyType
<1> QED
  BY <1>1, <1>2 DEF Channel

\* ... and so is what waits at a place.
LEMMA PlaceIs ==
  ASSUME TypeInv, NEW p \in Places
  PROVE  Holds(p) \in Nat /\ Len(data[p]) \in Nat /\ data[p] \in Seq(Int) /\ (p \in tt => Via(p) \in Dev)
<1>1. data[p] \in Seq(Int) /\ Len(data[p]) \in Nat
  BY DEF TypeInv, TypeOK
<1>2. p \in tt => Via(p) \in Dev
  BY AtFacts DEF Via
<1> QED
  BY <1>1, <1>2, ChannelIs DEF Holds

\* A step beside the channel of d, or in it.
LEMMA HoldsChange ==
  ASSUME TypeInv, TypeInv', tt' = tt, NEW d \in Dev,
         \A e \in Dev \ {d} : pq'[e] = pq[e] /\ ppc'[e] = ppc[e],
         NEW p \in Places
  PROVE  /\ Holds(p) \in Nat /\ Holds(p)' \in Nat
         /\ d \in Pushers /\ p = Target(d) =>
               Holds(p)' + Len(data[p]) + Channel(d) = Holds(p) + Len(data'[p]) + Channel(d)'
         /\ ~(d \in Pushers /\ p = Target(d)) /\ (d \in Pushers \/ Channel(d)' = Channel(d)) =>
               Holds(p)' + Len(data[p]) = Holds(p) + Len(data'[p])
<1>1. Holds(p) \in Nat /\ Len(data[p]) \in Nat /\ (p \in tt => Via(p) \in Dev)
  BY PlaceIs
<1>2. data'[p] \in Seq(Int) /\ Len(data'[p]) \in Nat
  BY DEF TypeInv, TypeOK
<1>3. \A e \in Dev : Channel(e) \in Nat /\ Channel(e)' \in Nat
  <2>1. ASSUME NEW e \in Dev PROVE Channel(e)' \in Nat
    <3>1. pq'[e] \in Seq(Int)
      BY DEF TypeInv, TypeOK
    <3>2. Tally(pq'[e], Real) \in Nat
      BY <3>1, TallyType
    <3> QED
      BY <3>2 DEF Channel
  <2> QED
    BY <2>1, ChannelIs
<1>4. \A e \in Dev \ {d} : Channel(e)' = Channel(e)
  BY DEF Channel, Busy
<1>5. /\ Holds(p) = Len(data[p]) + (IF p \in tt THEN Channel(Via(p)) ELSE 0)
      /\ Holds(p)' = Len(data'[p]) + (IF p \in tt THEN Channel(Via(p))' ELSE 0)
  BY DEF Holds, Via
<1>6. Holds(p)' \in Nat
  BY <1>1, <1>2, <1>3, <1>5 DEF Via
<1>7. CASE p \notin tt
  <2>1. ~(d \in Pushers /\ p = Target(d))
    BY <1>7, OneChannel
  <2>2. Holds(p) = Len(data[p]) /\ Holds(p)' = Len(data'[p])
    BY <1>5, <1>7
  <2>3. Holds(p)' + Len(data[p]) = Holds(p) + Len(data'[p])
    <3>1. PICK x, y : x = Len(data[p]) /\ y = Len(data'[p])
      OBVIOUS
    <3>2. x \in Nat /\ y \in Nat /\ Holds(p) = x /\ Holds(p)' = y
      BY <1>1, <1>2, <2>2, <3>1
    <3>3. Holds(p)' + x = Holds(p) + y
      BY <3>2
    <3> QED
      BY <3>1, <3>3
  <2> QED
    BY <1>1, <1>6, <2>1, <2>3
<1>8. CASE p \in tt
  <2>1. PICK v : v = Via(p)
    OBVIOUS
  <2>2. v \in Dev /\ Via(p)' = v
    BY <1>1, <1>8, <2>1 DEF Via
  <2>3. Channel(Via(p))' = Channel(v)' /\ Channel(Via(p)) = Channel(v)
    BY <2>1 DEF Via
  <2>4. d \in Pushers /\ p = Target(d) => v = d
    BY <2>1, OneChannel
  <2>5. ~(d \in Pushers /\ p = Target(d)) /\ (d \in Pushers \/ Channel(d)' = Channel(d)) => Channel(v)' = Channel(v)
    <3>1. CASE v # d
      BY <1>4, <2>2, <3>1
    <3>2. CASE v = d /\ d \in Pushers
      BY <1>8, <2>1, <3>2, OneChannel
    <3> QED
      BY <3>1, <3>2
  <2>6. Channel(v) \in Nat /\ Channel(v)' \in Nat
    BY <1>3, <2>2
  <2>7. Holds(p) = Len(data[p]) + Channel(v) /\ Holds(p)' = Len(data'[p]) + Channel(v)'
    BY <1>5, <1>8, <2>3
  <2>8. CASE d \in Pushers /\ p = Target(d)
    BY <1>1, <1>2, <1>6, <2>4, <2>6, <2>7, <2>8
  <2>9. CASE ~(d \in Pushers /\ p = Target(d))
    BY <1>1, <1>2, <1>6, <2>5, <2>6, <2>7, <2>9
  <2> QED
    BY <2>8, <2>9
<1> QED
  BY <1>7, <1>8

-----------------------------------------------------------------------------
(* A tensor moved on.                                                      *)

\* What the devices and the threads beside them leave alone.
Beside == UNCHANGED <<tt, training, at, synced, phase, cmdq, conn>>

\* What waits at the places before and after a step.
LEMMA ContentsAre ==
  ASSUME TypeInv, TypeInv'
  PROVE  /\ Contents \in [Places -> Nat] /\ Contents' \in [Places -> Nat]
         /\ \A p \in Places : Contents[p] = Holds(p) /\ Contents'[p] = Holds(p)'
         /\ \A p \in Places : Holds(p) \in Nat /\ Holds(p)' \in Nat
<1>1. \A p \in Places : Holds(p) \in Nat
  BY PlaceIs
<1>2. ASSUME NEW p \in Places PROVE Holds(p)' \in Nat
  <2>1. data'[p] \in Seq(Int) /\ Len(data'[p]) \in Nat
    BY DEF TypeInv, TypeOK
  <2>2. tt' \subseteq Dev
    BY PipelinesAssumption DEF TypeInv, TypeOK
  <2>3. p \in tt' => Via(p) \in Dev
    BY <2>2, Devices DEF Via
  <2>4. p \in tt' => Channel(Via(p))' \in Nat
    <3>1. SUFFICES ASSUME NEW v \in Dev PROVE Channel(v)' \in Nat
      BY <2>3 DEF Via
    <3>2. pq'[v] \in Seq(Int)
      BY DEF TypeInv, TypeOK
    <3>3. Tally(pq'[v], Real) \in Nat
      BY <3>2, TallyType
    <3> QED
      BY <3>3 DEF Channel
  <2> QED
    BY <2>1, <2>4 DEF Holds
<1> QED
  BY <1>1, <1>2 DEF Contents

\* One tensor taken at place k and put behind place l keeps the count.
LEMMA FlowShift ==
  ASSUME TypeInv, TypeInv', NEW f, Flow(f), Beside, NothingRan => NothingRan',
         NEW k \in 0 .. N + 1, NEW l \in k .. N + 1,
         \A p \in Places : Holds(p)' + (IF p = k THEN 1 ELSE 0) = Holds(p) + (IF p = l + 1 THEN 1 ELSE 0),
         Len(buf') + (IF k = 0 THEN 1 ELSE 0) = Len(buf),
         Len(out') = Len(out) + (IF l = N + 1 THEN 1 ELSE 0),
         Running(N)' + (IF k <= N /\ N <= l THEN 1 ELSE 0) = Running(N),
         N \in tt => moves'[N] + Len(out') + (IF N = 1 THEN Len(buf) ELSE 0)
                       = moves[N] + Len(out) + (IF N = 1 THEN Len(buf') ELSE 0)
  PROVE  \E g : Flow(g)'
<1>1. /\ Inputs' = Inputs /\ SyncAt' = SyncAt /\ A' = A /\ tt' = tt /\ cmdq' = cmdq
      /\ \A X : Rest(X)' = Rest(X)
  BY Same, RestKept DEF Beside, A
<1>2. /\ Sums(f, Contents, Inputs - Len(buf), Len(out)) /\ Len(buf) <= Inputs
      /\ AllRun(f[N]) \/ (NothingRan /\ A > SyncAt)
  BY DEF Flow
<1>3. PICK h, hh : h = Contents /\ hh = Contents'
  OBVIOUS
<1>4. /\ hh \in [Places -> Nat]
      /\ \A p \in Places : hh[p] + (IF p = k THEN 1 ELSE 0) = h[p] + (IF p = l + 1 THEN 1 ELSE 0)
  BY <1>3, ContentsAre
<1>5. PICK g : /\ Sums(g, hh, Inputs - Len(buf) + (IF k = 0 THEN 1 ELSE 0), Len(out) + (IF l = N + 1 THEN 1 ELSE 0))
               /\ g[N] = f[N] + (IF k <= N /\ N <= l THEN 1 ELSE 0)
  <2>1. Sums(f, h, Inputs - Len(buf), Len(out))
    BY <1>2, <1>3
  <2> QED
    BY <1>4, <2>1, Shift
<1>6. Inputs \in Nat /\ Len(buf) \in Nat /\ Len(buf') \in Nat /\ Len(out) \in Nat /\ Len(out') \in Nat
  <2>1. Inputs \in Nat
    BY Devices DEF Inputs
  <2>2. Len(buf) \in Nat /\ Len(buf') \in Nat /\ Len(out) \in Nat /\ Len(out') \in Nat
    BY DEF TypeInv, TypeOK
  <2> QED
    BY <2>1, <2>2
<1>7. /\ Inputs - Len(buf) + (IF k = 0 THEN 1 ELSE 0) = Inputs - Len(buf') /\ Len(buf') <= Inputs
      /\ Len(out) + (IF l = N + 1 THEN 1 ELSE 0) = Len(out')
  BY <1>2, <1>6
<1>8. (Len(buf) <= Inputs)' /\ Sums(g, Contents, Inputs - Len(buf), Len(out))'
  BY <1>1, <1>3, <1>5, <1>7 DEF Sums
<1>9. ASSUME AllRun(f[N]) PROVE AllRun(g[N])'
  <2>1. N \in Dev /\ N \in Nat /\ N \in 0 .. N + 1 /\ N >= 1
    BY Devices
  <2>2. f[N] \in Nat
    BY <1>2, <2>1 DEF Sums
  <2>3. Rest(LastRuns) \in Nat /\ Rest(LastMoves) \in Nat
    BY AtFacts, RestIs
  <2>4. Tally(cmdq[N], RunCommands) \in Nat /\ Tally(cmdq[N], MoveCommands) \in Nat
    <3>1. cmdq[N] \in Seq(Commands)
      BY <2>1 DEF TypeInv, TypeOK
    <3> QED
      BY <3>1, TallyType
  <2>5. /\ progs[N] \in Nat /\ moves[N] \in Nat /\ progs'[N] \in Nat /\ moves'[N] \in Nat
    BY <2>1 DEF TypeInv, TypeOK
  <2>6. Running(N) \in Nat /\ Running(N)' \in Nat
    BY <2>5 DEF Running
  <2>7. RunsIn(g[N])'
    <3>1. Rest(LastRuns) + Tally(cmdq[N], RunCommands) + Running(N) + f[N] = Inputs
      BY <1>9 DEF AllRun, RunsIn
    <3>2. Running(N)' + g[N] = Running(N) + f[N]
      BY <1>5, <2>2, <2>6
    <3>3. g[N] \in Nat
      BY <1>5, <2>2
    <3>4. Rest(LastRuns) + Tally(cmdq[N], RunCommands) + Running(N)' + g[N] = Inputs
      <4>1. PICK a, r, rr, x, y : /\ a = Rest(LastRuns) + Tally(cmdq[N], RunCommands)
                                  /\ r = Running(N) /\ rr = Running(N)' /\ x = f[N] /\ y = g[N]
        OBVIOUS
      <4>2. a \in Nat /\ r \in Nat /\ rr \in Nat /\ x \in Nat /\ y \in Nat
        BY <2>2, <2>3, <2>4, <2>6, <3>3, <4>1
      <4>3. rr + y = r + x
        BY <3>2, <4>1
      <4>4. a + rr + y = a + r + x
        BY <4>2, <4>3
      <4> QED
        BY <3>1, <4>1, <4>4
    <3> QED
      BY <1>1, <3>4 DEF RunsIn
  <2>8. MovesIn'
    <3>1. SUFFICES ASSUME N \in tt
                   PROVE  Rest(LastMoves) + Tally(cmdq[N], MoveCommands) + moves'[N] + Len(out')
                            = Inputs + (IF N = 1 THEN Len(buf') ELSE 0)
      BY <1>1 DEF MovesIn
    <3>2. Rest(LastMoves) + Tally(cmdq[N], MoveCommands) + moves[N] + Len(out)
            = Inputs + (IF N = 1 THEN Len(buf) ELSE 0)
      BY <1>9, <3>1 DEF AllRun, MovesIn
    <3>3. moves'[N] + Len(out') + (IF N = 1 THEN Len(buf) ELSE 0)
            = moves[N] + Len(out) + (IF N = 1 THEN Len(buf') ELSE 0)
      BY <3>1
    <3>4. PICK a, m, mm, o, oo, b, bb, i :
            /\ a = Rest(LastMoves) + Tally(cmdq[N], MoveCommands)
            /\ m = moves[N] /\ mm = moves'[N] /\ o = Len(out) /\ oo = Len(out')
            /\ b = (IF N = 1 THEN Len(buf) ELSE 0) /\ bb = (IF N = 1 THEN Len(buf') ELSE 0) /\ i = Inputs
      OBVIOUS
    <3>5. /\ a \in Nat /\ m \in Nat /\ mm \in Nat /\ o \in Nat /\ oo \in Nat /\ b \in Nat /\ bb \in Nat
          /\ i \in Nat
      BY <1>6, <2>3, <2>4, <2>5, <3>4
    <3>6. mm + oo + b = m + o + bb /\ a + m + o = i + b
      BY <3>2, <3>3, <3>4
    <3>7. a + mm + oo = i + bb
      BY <3>5, <3>6
    <3> QED
      BY <3>4, <3>7
  <2> QED
    BY <2>7, <2>8 DEF AllRun
<1>10. Flow(g)'
  BY <1>1, <1>2, <1>8, <1>9 DEF Flow
<1> QED
  BY <1>10

\* A step that moves nothing between the places.
LEMMA FlowStay ==
  ASSUME TypeInv, TypeInv', NEW f, Flow(f), Beside, NothingRan => NothingRan',
         \A p \in Places : Holds(p)' = Holds(p), buf' = buf, out' = out,
         progs'[N] = progs[N], moves'[N] = moves[N], dpc'[N] = "forward" <=> dpc[N] = "forward"
  PROVE  \E g : Flow(g)'
<1>1. Inputs' = Inputs /\ SyncAt' = SyncAt /\ A' = A /\ Contents' = Contents
      /\ (\A X : Rest(X)' = Rest(X)) /\ cmdq' = cmdq /\ tt' = tt /\ training' = training
  BY Same, RestKept DEF Beside, A, Contents
<1>2. (Len(buf) <= Inputs)' /\ Sums(f, Contents, Inputs - Len(buf), Len(out))'
  BY <1>1 DEF Flow, Sums
<1>3. AllRun(f[N]) => AllRun(f[N])'
  BY <1>1, AllRunKept
<1>4. Flow(f)'
  BY <1>1, <1>2, <1>3 DEF Flow
<1> QED
  BY <1>4

-----------------------------------------------------------------------------
(* The threads beside the commands: the queues.                            *)

\* What a device or a thread beside it does, by what the other conjuncts see of it.
Worked(d) ==
    /\ Beside
    /\ \A e \in Dev \ {d} : /\ dpc'[e] = dpc[e] /\ moves'[e] = moves[e] /\ progs'[e] = progs[e]
                            /\ pq'[e] = pq[e] /\ ppc'[e] = ppc[e] /\ held'[e] = held[e]
    /\ \/ dpc'[d] = dpc[d]
       \/ dpc[d] = "forward" /\ dpc'[d] = "next"
       \/ dpc[d] = "threads" /\ dpc'[d] = "barrier" /\ moves[d] = 0
       \/ dpc[d] = "barrier" /\ dpc'[d] = "closed" /\ phase # "running"
    /\ moves'[d] = moves[d] \/ moves[d] > 0
    /\ progs'[d] = progs[d] \/ progs[d] > 0
    /\ \/ ppc'[d] = ppc[d]
       \/ ppc[d] = "push" /\ ppc'[d] # "push"
       \/ ppc[d] = "poll" /\ pq[d] # <<>> /\ ppc'[d] = IF Head(pq[d]) = Quit THEN "ended" ELSE "push"
    /\ \/ pq'[d] = pq[d] \/ pq'[d] = Append(pq[d], Quit)
       \/ dpc[d] = "forward" \/ moves[d] > 0
       \/ pq[d] # <<>> /\ pq'[d] = Tail(pq[d])

\* The steps beside the commands, by what they leave alone.
LEMMA WorkedIs ==
  ASSUME TypeInv, ~event, NEW d \in Dev,
         \/ Forward(d) \/ ThreadsShutDown(d) \/ Close(d) \/ Transfer(d)
         \/ PusherGet(d) \/ InternalPush(d) \/ PushRaises(d) \/ RunProgram(d)
  PROVE  Worked(d)
<1>1. /\ dpc \in [Dev -> {"next", "forward", "threads", "barrier", "closed"}]
      /\ progs \in [Dev -> Nat] /\ moves \in [Dev -> Nat]
      /\ pq \in [Dev -> Seq(Int)] /\ ppc \in [Dev -> {"poll", "push", "ended", "dead"}]
      /\ held \in [Dev -> Int]
  BY DEF TypeInv, TypeOK
<1>2. CASE Forward(d)
  <2>1. Beside /\ moves' = moves /\ progs' = progs /\ ppc' = ppc /\ held' = held /\ dpc[d] = "forward"
    BY <1>2 DEF Forward, Beside, clientVars
  <2>2. dpc'[d] = "next" /\ \A e \in Dev \ {d} : dpc'[e] = dpc[e]
    BY <1>1, <1>2 DEF Forward, Goto
  <2>3. \A e \in Dev \ {d} : pq'[e] = pq[e]
    BY <1>1, <1>2 DEF Forward
  <2> QED
    BY <2>1, <2>2, <2>3 DEF Worked
<1>3. CASE ThreadsShutDown(d)
  <2>1. Beside /\ UNCHANGED <<moves, progs, ppc, held>> /\ dpc[d] = "threads" /\ moves[d] = 0
    BY <1>3 DEF ThreadsShutDown, Beside, clientVars, flowVars
  <2>2. dpc'[d] = "barrier" /\ \A e \in Dev \ {d} : dpc'[e] = dpc[e]
    BY <1>1, <1>3 DEF ThreadsShutDown, Goto
  <2>3. (\A e \in Dev \ {d} : pq'[e] = pq[e]) /\ (pq'[d] = pq[d] \/ pq'[d] = Append(pq[d], Quit))
    BY <1>1, <1>3 DEF ThreadsShutDown
  <2> QED
    BY <2>1, <2>2, <2>3 DEF Worked
<1>4. CASE Close(d)
  <2>1. Beside /\ UNCHANGED <<moves, progs, ppc, held>> /\ dpc[d] = "barrier" /\ phase # "running"
    BY <1>4 DEF Close, Beside, clientVars, flowVars
  <2>2. dpc'[d] = "closed" /\ \A e \in Dev \ {d} : dpc'[e] = dpc[e]
    BY <1>1, <1>4 DEF Close, Goto
  <2>3. (\A e \in Dev \ {d} : pq'[e] = pq[e]) /\ (pq'[d] = pq[d] \/ pq'[d] = Append(pq[d], Quit))
    BY <1>1, <1>4 DEF Close
  <2> QED
    BY <2>1, <2>2, <2>3 DEF Worked
<1>5. CASE Transfer(d)
  <2>1. Beside /\ UNCHANGED <<dpc, progs, ppc, held>> /\ moves[d] > 0
    BY <1>5 DEF Transfer, Beside, clientVars, deviceVars
  <2>2. (\A e \in Dev \ {d} : moves'[e] = moves[e])
    BY <1>1, <1>5 DEF Transfer
  <2>3. (\A e \in Dev \ {d} : pq'[e] = pq[e])
    BY <1>1, <1>5 DEF Transfer
  <2> QED
    BY <2>1, <2>2, <2>3 DEF Worked
<1>6. CASE PusherGet(d)
  <2>1. Beside /\ UNCHANGED <<dpc, progs, moves>> /\ ppc[d] = "poll" /\ pq[d] # <<>>
    BY <1>6 DEF PusherGet, Beside, clientVars, deviceVars, flowVars
  <2>2. \A e \in Dev \ {d} : pq'[e] = pq[e] /\ ppc'[e] = ppc[e] /\ held'[e] = held[e]
    BY <1>1, <1>6 DEF PusherGet
  <2>3. pq'[d] = Tail(pq[d]) /\ ppc'[d] = IF Head(pq[d]) = Quit THEN "ended" ELSE "push"
    BY <1>1, <1>6 DEF PusherGet
  <2> QED
    BY <2>1, <2>2, <2>3 DEF Worked
<1>7. CASE InternalPush(d) \/ PushRaises(d)
  <2>1. Beside /\ UNCHANGED <<dpc, progs, moves, pq, held>> /\ ppc[d] = "push"
    BY <1>7 DEF InternalPush, PushRaises, Beside, clientVars, deviceVars, flowVars
  <2>2. \A e \in Dev \ {d} : ppc'[e] = ppc[e]
    BY <1>1, <1>7 DEF InternalPush, PushRaises
  <2>3. ppc'[d] # "push"
    BY <1>1, <1>7 DEF InternalPush, PushRaises
  <2> QED
    BY <2>1, <2>2, <2>3 DEF Worked
<1>8. CASE RunProgram(d)
  <2>1. Beside /\ UNCHANGED <<dpc, moves, pq, ppc, held>> /\ progs[d] > 0
    BY <1>8 DEF RunProgram, Beside, clientVars, deviceVars, pushVars
  <2>2. \A e \in Dev \ {d} : progs'[e] = progs[e]
    BY <1>1, <1>8 DEF RunProgram
  <2> QED
    BY <2>1, <2>2 DEF Worked
<1> QED
  BY <1>2, <1>3, <1>4, <1>5, <1>6, <1>7, <1>8

\* A pusher that had nothing to push gets nothing from them ...
LEMMA QuietWork ==
  ASSUME TypeInv, NEW d \in Dev, Worked(d), NEW p \in Dev, Quiet(p)
  PROVE  Quiet(p)'
<1>1. CASE p # d
  BY <1>1 DEF Worked, Quiet, OnlyQuits
<1>2. CASE p = d
  <2>1. dpc'[d] # "forward" /\ moves'[d] = 0
    BY <1>2 DEF Worked, Quiet
  <2>2. PICK q, r : q = pq[d] /\ r = pq'[d]
    OBVIOUS
  <2>3. q \in Seq(Int) /\ (r = q \/ r = Append(q, Quit) \/ (q # <<>> /\ r = Tail(q)))
    BY <1>2, <2>2 DEF TypeInv, TypeOK, Worked, Quiet
  <2>4. \A i \in DOMAIN q : q[i] = Quit
    BY <1>2, <2>2 DEF Quiet, OnlyQuits
  <2>5. \A i \in DOMAIN r : r[i] = Quit
    <3>1. CASE r = Append(q, Quit)
      <4>1. Len(q) \in Nat /\ DOMAIN q = 1 .. Len(q)
        BY <2>3, LenProperties
      <4>2. /\ r \in Seq(Int) /\ Len(r) = Len(q) + 1 /\ \A i \in 1 .. Len(q) : r[i] = q[i]
            /\ r[Len(q) + 1] = Quit
        BY <2>3, <3>1, AppendProperties DEF Quit
      <4>3. DOMAIN r = 1 .. Len(q) + 1
        BY <4>2, LenProperties
      <4> QED
        BY <2>4, <4>1, <4>2, <4>3
    <3>2. CASE q # <<>> /\ r = Tail(q)
      <4>1. Len(q) \in Nat /\ DOMAIN q = 1 .. Len(q)
        BY <2>3, LenProperties
      <4>2. /\ r \in Seq(Int) /\ Len(r) = Len(q) - 1 /\ \A i \in 1 .. Len(q) - 1 : r[i] = q[i + 1]
        BY <2>3, <3>2, HeadTailProperties
      <4>3. DOMAIN r = 1 .. Len(q) - 1
        BY <4>2, LenProperties
      <4>4. ASSUME NEW i \in 1 .. Len(q) - 1 PROVE i + 1 \in 1 .. Len(q) /\ r[i] = q[i + 1]
        BY <4>1, <4>2
      <4> QED
        BY <2>4, <4>1, <4>3, <4>4
    <3> QED
      BY <2>3, <2>4, <3>1, <3>2
  <2>6. ppc'[d] # "push"
    <3>1. pq[d] # <<>> => Head(pq[d]) = Quit
      <4>1. ASSUME q # <<>> PROVE Head(q) = Quit
        <5>1. Head(q) = q[1] /\ Len(q) \in Nat /\ Len(q) > 0
          BY <2>3, <4>1
        <5>2. 1 \in DOMAIN q
          BY <2>3, <5>1, LenProperties
        <5> QED
          BY <2>4, <5>1, <5>2
      <4> QED
        BY <2>2, <4>1
    <3> QED
      BY <1>2, <3>1 DEF Worked, Quiet
  <2> QED
    BY <1>2, <2>1, <2>2, <2>5, <2>6 DEF Quiet, OnlyQuits
<1> QED
  BY <1>1, <1>2

\* ... and nothing moves while no input has been run.
LEMMA NothingWork ==
  ASSUME TypeInv, NEW d \in Dev, Worked(d), NothingRan
  PROVE  NothingRan'
<1>1. cmdq' = cmdq /\ \A e \in Dev : progs[e] = 0 => progs'[e] = 0
  BY DEF Worked, Beside
<1> QED
  BY <1>1, QuietWork DEF NothingRan

\* They keep all parts of the invariant but the tensors and their count.
LEMMA WorkKeeps ==
  ASSUME TypeInv, Calm, NEW d \in Dev, Worked(d)
  PROVE  SetsSent' /\ PushersSet' /\ Ranges' /\ QuitQueued' /\ QuitDone' /\ Barrier' /\ SyncedIdle'
<1>1. /\ Setup' = Setup /\ L' = L /\ SyncAt' = SyncAt /\ QuitAt' = QuitAt /\ A' = A
      /\ Pushers' = Pushers /\ Pushers \subseteq Dev
      /\ \A e \in Dev : PushDirection(e)' = PushDirection(e)
  BY Same, AtFacts DEF Worked, Beside, A
<1>2. /\ tt' = tt /\ training' = training /\ synced' = synced /\ phase' = phase
      /\ cmdq' = cmdq /\ conn' = conn
  BY DEF Worked, Beside
<1>3. SetsSent'
  BY <1>1, <1>2 DEF Calm, SetsSent, SetSeen
<1>4. PushersSet'
  <2>1. \A p \in Pushers : SetFirst(p) => SetFirst(p)'
    BY <1>1, <1>2 DEF SetFirst
  <2>2. \A p \in Pushers : Quiet(p) => Quiet(p)'
    BY <1>1, QuietWork
  <2> QED
    BY <1>1, <1>2, <2>1, <2>2 DEF Calm, PushersSet
<1>5. Ranges'
  BY <1>1, <1>2, NothingWork DEF Calm, Ranges
<1>6. QuitQueued'
  BY <1>1, <1>2 DEF Calm, QuitQueued
<1>7. QuitDone'
  <2>1. \A e \in Dev : Ended(e)' => Ended(e)
    BY DEF Worked, Ended
  <2> QED
    BY <1>1, <1>2, <2>1 DEF Calm, QuitDone
<1>8. Barrier'
  <2>1. /\ \A e \in Dev : AtBarrier(e) => moves[e] = 0
        /\ phase = "running" => \A e \in Dev : dpc[e] # "closed"
        /\ phase \in {"passed", "join", "done"} => \A e \in Dev : AtBarrier(e)
        /\ phase # "reap"
    BY DEF Calm, Barrier
  <2>2. \A e \in Dev : AtBarrier(e)' => moves'[e] = 0
    BY <2>1 DEF Worked, AtBarrier
  <2>3. phase = "running" => \A e \in Dev : dpc'[e] # "closed"
    BY <2>1 DEF Worked
  <2>4. \A e \in Dev : AtBarrier(e) => AtBarrier(e)'
    BY DEF Worked, AtBarrier
  <2> QED
    BY <1>2, <2>1, <2>2, <2>3, <2>4 DEF Barrier
<1>9. SyncedIdle'
  <2>1. \A e \in Dev : IdleNow(e) => IdleNow(e)'
    BY <1>2 DEF Worked, IdleNow
  <2> QED
    BY <1>1, <1>2, <2>1 DEF Calm, SyncedIdle, Past
<1> QED
  BY <1>3, <1>4, <1>5, <1>6, <1>7, <1>8, <1>9

-----------------------------------------------------------------------------
(* The threads beside the commands: the tensors.                           *)

\* What is true of all elements stays so when one is added ...
LEMMA AllAppend ==
  ASSUME NEW T, NEW s \in Seq(T), NEW x \in T, NEW R, \A i \in DOMAIN s : s[i] \in R, x \in R
  PROVE  \A i \in DOMAIN Append(s, x) : Append(s, x)[i] \in R
<1>1. PICK r : r = Append(s, x)
  OBVIOUS
<1>2. Len(s) \in Nat /\ DOMAIN s = 1 .. Len(s)
  BY LenProperties
<1>3. r \in Seq(T) /\ Len(r) = Len(s) + 1 /\ r[Len(s) + 1] = x /\ \A i \in 1 .. Len(s) : r[i] = s[i]
  BY <1>1, AppendProperties
<1>4. DOMAIN r = 1 .. Len(s) + 1
  BY <1>3, LenProperties
<1> QED
  BY <1>1, <1>2, <1>3, <1>4

\* ... or the first is taken.
LEMMA AllTail ==
  ASSUME NEW T, NEW s \in Seq(T), s # <<>>, NEW R, \A i \in DOMAIN s : s[i] \in R
  PROVE  Head(s) \in R /\ \A i \in DOMAIN Tail(s) : Tail(s)[i] \in R
<1>1. PICK r : r = Tail(s)
  OBVIOUS
<1>2. Len(s) \in Nat /\ Len(s) > 0 /\ DOMAIN s = 1 .. Len(s) /\ Head(s) = s[1]
  BY LenProperties
<1>3. r \in Seq(T) /\ Len(r) = Len(s) - 1 /\ \A i \in 1 .. Len(s) - 1 : r[i] = s[i + 1]
  BY <1>1, HeadTailProperties
<1>4. DOMAIN r = 1 .. Len(s) - 1
  BY <1>3, LenProperties
<1>5. \A i \in 1 .. Len(s) - 1 : i + 1 \in 1 .. Len(s)
  BY <1>2
<1>6. 1 \in DOMAIN s
  BY <1>2
<1> QED
  BY <1>1, <1>2, <1>3, <1>4, <1>5, <1>6

\* A queue that gets an element of R, or gives one away.
Changed(s, r, R) ==
    \/ r = s
    \/ \E x \in R : r = Append(s, x)
    \/ s # <<>> /\ r = Tail(s)

\* A sequence changed at one end holds what it held, and the new element.
LEMMA ChangedKeeps ==
  ASSUME NEW s \in Seq(Int), NEW r, NEW R, R \subseteq Int, Changed(s, r, R), \A i \in DOMAIN s : s[i] \in R
  PROVE  \A i \in DOMAIN r : r[i] \in R
<1>1. CASE r = s
  BY <1>1
<1>2. CASE \E x \in R : r = Append(s, x)
  BY <1>2, AllAppend
<1>3. CASE s # <<>> /\ r = Tail(s)
  BY <1>3, AllTail
<1> QED
  BY <1>1, <1>2, <1>3 DEF Changed

\* A step that takes and adds only tensors.
LEMMA TensorsKept ==
  ASSUME TypeInv, Tensors,
         \A p \in Places : Changed(data[p], data'[p], Real),
         Changed(buf, buf', Real),
         \A e \in Dev : Changed(pq[e], pq'[e], Real \cup {Quit}),
         \A e \in Dev : Busy(e)' => held'[e] \in Real
  PROVE  Tensors'
<1>1. Real \subseteq Int /\ Real \cup {Quit} \subseteq Int
  BY DEF Real, Quit
<1>2. /\ \A p \in Places : data[p] \in Seq(Int)
      /\ buf \in Seq(Int) /\ \A e \in Dev : pq[e] \in Seq(Int)
  BY DEF TypeInv, TypeOK
<1>3. \A p \in Places : \A i \in DOMAIN data'[p] : data'[p][i] \in Real
  <2> TAKE p \in Places
  <2>1. \A i \in DOMAIN data[p] : data[p][i] \in Real
    BY DEF Tensors
  <2> QED
    BY <1>1, <1>2, <2>1, ChangedKeeps
<1>4. \A i \in DOMAIN buf' : buf'[i] \in Real
  <2>1. \A i \in DOMAIN buf : buf[i] \in Real
    BY DEF Tensors
  <2> QED
    BY <1>1, <1>2, <2>1, ChangedKeeps
<1>5. \A e \in Dev : \A i \in DOMAIN pq'[e] : pq'[e][i] \in Real \cup {Quit}
  <2> TAKE e \in Dev
  <2>1. \A i \in DOMAIN pq[e] : pq[e][i] \in Real \cup {Quit}
    BY DEF Tensors
  <2> QED
    BY <1>1, <1>2, <2>1, ChangedKeeps
<1> QED
  BY <1>3, <1>4, <1>5 DEF Tensors

\* A quit at the end of a channel counts for nothing.
LEMMA QuitAdds ==
  ASSUME TypeInv, NEW d \in Dev, pq'[d] = Append(pq[d], Quit), ppc'[d] = ppc[d]
  PROVE  Channel(d)' = Channel(d)
<1>1. pq[d] \in Seq(Int) /\ Quit \in Int /\ Quit \notin Real
  BY DEF TypeInv, TypeOK, Quit, Real
<1>2. Tally(Append(pq[d], Quit), Real) = Tally(pq[d], Real) + 0
  BY <1>1, TallyAppend
<1>3. Tally(pq[d], Real) \in Nat
  BY <1>1, TallyType
<1>4. Tally(pq'[d], Real) = Tally(pq[d], Real)
  BY <1>2, <1>3
<1>5. Channel(d)' = Tally(pq'[d], Real) + (IF Busy(d)' THEN 1 ELSE 0)
  BY DEF Channel
<1>6. Busy(d)' <=> Busy(d)
  BY DEF Busy
<1> QED
  BY <1>4, <1>5, <1>6 DEF Channel

\* A tensor given to a pusher is one more in its connector.
LEMMA TensorAdds ==
  ASSUME TypeInv, NEW d \in Dev, NEW x \in Real, pq'[d] = Append(pq[d], x), ppc'[d] = ppc[d]
  PROVE  Channel(d)' = Channel(d) + 1
<1>1. pq[d] \in Seq(Int) /\ x \in Int
  BY DEF TypeInv, TypeOK, Real
<1>2. Tally(Append(pq[d], x), Real) = Tally(pq[d], Real) + 1
  BY <1>1, TallyAppend
<1>3. Tally(pq[d], Real) \in Nat
  BY <1>1, TallyType
<1>4. Channel(d)' = Tally(pq'[d], Real) + (IF Busy(d)' THEN 1 ELSE 0)
  BY DEF Channel
<1>5. Busy(d)' <=> Busy(d)
  BY DEF Busy
<1>6. Channel(d) = Tally(pq[d], Real) + (IF Busy(d) THEN 1 ELSE 0)
  BY DEF Channel
<1>7. Tally(pq'[d], Real) = Tally(pq[d], Real) + 1
  BY <1>2
<1> QED
  BY <1>3, <1>4, <1>5, <1>6, <1>7

\* No channel changes.
LEMMA HoldsSame ==
  ASSUME TypeInv, TypeInv', tt' = tt, \A e \in Dev : Channel(e)' = Channel(e), NEW p \in Places
  PROVE  /\ Holds(p) \in Nat /\ Holds(p)' \in Nat /\ Len(data[p]) \in Nat /\ Len(data'[p]) \in Nat
         /\ Holds(p)' + Len(data[p]) = Holds(p) + Len(data'[p])
<1>1. Holds(p) \in Nat /\ Len(data[p]) \in Nat /\ (p \in tt => Via(p) \in Dev)
  BY PlaceIs
<1>2. data'[p] \in Seq(Int) /\ Len(data'[p]) \in Nat
  BY DEF TypeInv, TypeOK
<1>3. PICK c : c = IF p \in tt THEN Channel(Via(p)) ELSE 0
  OBVIOUS
<1>4. c = IF p \in tt THEN Channel(Via(p))' ELSE 0
  <2>1. ASSUME p \in tt PROVE Channel(Via(p))' = Channel(Via(p))
    <3>1. SUFFICES ASSUME NEW v \in Dev PROVE Channel(v)' = Channel(v)
      BY <1>1, <2>1 DEF Via
    <3> QED
      OBVIOUS
  <2> QED
    BY <1>3, <2>1
<1>5. Holds(p) = Len(data[p]) + c /\ Holds(p)' = Len(data'[p]) + c
  BY <1>3, <1>4 DEF Holds, Via
<1>6. c \in Nat
  BY <1>1, <1>3, ChannelIs
<1>7. PICK x, y : x = Len(data[p]) /\ y = Len(data'[p])
  OBVIOUS
<1>8. x \in Nat /\ y \in Nat /\ Holds(p) = x + c /\ Holds(p)' = y + c
  BY <1>1, <1>2, <1>5, <1>7
<1>9. Holds(p)' + x = Holds(p) + y /\ Holds(p)' \in Nat
  BY <1>6, <1>8
<1> QED
  BY <1>1, <1>2, <1>7, <1>9

-----------------------------------------------------------------------------
(* The pushers.                                                            *)

\* The part of the invariant about the tensors, and the step it is about.
FlowInv == Tensors /\ \E f : Flow(f)

\* The quit of a pusher is no tensor.
LEMMA QuitFlow ==
  ASSUME TypeInv, TypeInv', ~event, Calm, NEW d \in Dev, ThreadsShutDown(d) \/ Close(d)
  PROVE  FlowInv'
<1>1. Worked(d) /\ (NothingRan => NothingRan')
  BY WorkedIs, NothingWork
<1>2. /\ UNCHANGED <<data, buf, out, progs, moves, ppc, held>> /\ dpc[d] \in {"threads", "barrier"}
      /\ dpc'[d] # "forward"
  BY <1>1 DEF ThreadsShutDown, Close, flowVars, Worked
<1>3. /\ \A e \in Dev \ {d} : pq'[e] = pq[e] /\ dpc'[e] = dpc[e]
      /\ pq'[d] = pq[d] \/ pq'[d] = Append(pq[d], Quit)
  <2>1. pq' = pq \/ pq' = [pq EXCEPT ![d] = Append(@, Quit)]
    BY DEF ThreadsShutDown, Close
  <2>2. pq \in [Dev -> Seq(Int)]
    BY DEF TypeInv, TypeOK
  <2> QED
    BY <1>1, <2>1, <2>2 DEF Worked
<1>4. \A e \in Dev : Channel(e)' = Channel(e)
  <2>1. \A e \in Dev : pq'[e] = pq[e] => Channel(e)' = Channel(e)
    BY <1>2 DEF Channel, Busy
  <2> QED
    BY <1>2, <1>3, <2>1, QuitAdds
<1>5. ASSUME NEW p \in Places PROVE Holds(p)' = Holds(p)
  BY <1>1, <1>2, <1>4, HoldsSame DEF Worked, Beside
<1>6. Tensors'
  <2>1. \A e \in Dev : Changed(pq[e], pq'[e], Real \cup {Quit})
    BY <1>3 DEF Changed
  <2>2. Changed(buf, buf', Real) /\ \A p \in Places : Changed(data[p], data'[p], Real)
    BY <1>2 DEF Changed
  <2>3. \A e \in Dev : Busy(e)' => held'[e] \in Real
    BY <1>2 DEF Calm, Tensors, Busy
  <2> QED
    BY <2>1, <2>2, <2>3, TensorsKept DEF Calm
<1>7. \E f : Flow(f)'
  <2>1. PICK f : Flow(f)
    BY DEF Calm
  <2>2. dpc'[N] = "forward" <=> dpc[N] = "forward"
    BY <1>2, <1>3, Devices
  <2> QED
    BY <1>1, <1>2, <1>5, <2>1, <2>2, FlowStay DEF Worked
<1> QED
  BY <1>6, <1>7 DEF FlowInv

\* The tensor the pusher takes stays in the connector.
LEMMA GetFlow ==
  ASSUME TypeInv, TypeInv', ~event, Calm, NEW d \in Dev, PusherGet(d)
  PROVE  FlowInv'
<1>1. Worked(d) /\ (NothingRan => NothingRan')
  BY WorkedIs, NothingWork
<1>2. UNCHANGED <<data, buf, out, progs, moves, dpc>> /\ ppc[d] = "poll" /\ pq[d] # <<>>
  BY DEF PusherGet, flowVars, deviceVars
<1>3. PICK x : x = Head(pq[d])
  OBVIOUS
<1>4. /\ pq'[d] = Tail(pq[d]) /\ held'[d] = x /\ ppc'[d] = IF x = Quit THEN "ended" ELSE "push"
      /\ pq[d] \in Seq(Int) /\ Tail(pq[d]) \in Seq(Int)
  BY <1>2, <1>3 DEF PusherGet, TypeInv, TypeOK
<1>5. x \in Real \cup {Quit}
  <2>1. \A i \in DOMAIN pq[d] : pq[d][i] \in Real \cup {Quit}
    BY DEF Calm, Tensors
  <2> QED
    BY <1>2, <1>3, <1>4, <2>1, AllTail
<1>6. Channel(d)' = Channel(d)
  <2>1. Tally(pq[d], Real) = Tally(pq'[d], Real) + (IF x \in Real THEN 1 ELSE 0)
    BY <1>2, <1>3, <1>4, TallyTail
  <2>2. Tally(pq'[d], Real) \in Nat
    BY <1>4, TallyType
  <2>3. x \in Real <=> x # Quit
    BY <1>5 DEF Real
  <2>4. Channel(d)' = Tally(pq'[d], Real) + (IF Busy(d)' THEN 1 ELSE 0)
    BY DEF Channel
  <2>5. (Busy(d)' <=> x # Quit) /\ ~Busy(d)
    BY <1>2, <1>4 DEF Busy
  <2>6. Channel(d) = Tally(pq[d], Real) + 0
    BY <2>5 DEF Channel
  <2> QED
    BY <2>1, <2>2, <2>3, <2>4, <2>5, <2>6
<1>7. \A e \in Dev : Channel(e)' = Channel(e)
  <2>1. \A e \in Dev \ {d} : Channel(e)' = Channel(e)
    BY <1>1 DEF Worked, Channel, Busy
  <2> QED
    BY <1>6, <2>1
<1>8. ASSUME NEW p \in Places PROVE Holds(p)' = Holds(p)
  BY <1>1, <1>2, <1>7, HoldsSame DEF Worked, Beside
<1>9. Tensors'
  <2>1. \A e \in Dev : Changed(pq[e], pq'[e], Real \cup {Quit})
    BY <1>1, <1>2, <1>4 DEF Changed, Worked
  <2>2. Changed(buf, buf', Real) /\ \A p \in Places : Changed(data[p], data'[p], Real)
    BY <1>2 DEF Changed
  <2>3. \A e \in Dev : Busy(e)' => held'[e] \in Real
    <3>1. Busy(d)' => held'[d] \in Real
      BY <1>4, <1>5 DEF Busy
    <3>2. \A e \in Dev \ {d} : Busy(e)' => held'[e] \in Real
      BY <1>1 DEF Calm, Tensors, Busy, Worked
    <3> QED
      BY <3>1, <3>2
  <2> QED
    BY <2>1, <2>2, <2>3, TensorsKept DEF Calm
<1>10. \E f : Flow(f)'
  <2>1. PICK f : Flow(f)
    BY DEF Calm
  <2> QED
    BY <1>1, <1>2, <1>8, <2>1, FlowStay DEF Worked
<1> QED
  BY <1>9, <1>10 DEF FlowInv

\* The tensor of a pusher that dies stays in the connector.
LEMMA RaiseFlow ==
  ASSUME TypeInv, TypeInv', ~event, Calm, NEW d \in Dev, PushRaises(d)
  PROVE  FlowInv'
<1>1. Worked(d) /\ (NothingRan => NothingRan')
  BY WorkedIs, NothingWork
<1>2. UNCHANGED <<data, buf, out, progs, moves, dpc, pq, held>> /\ ppc[d] = "push"
  BY DEF PushRaises, flowVars, deviceVars
<1>3. ppc'[d] = "dead"
  BY DEF PushRaises, TypeInv, TypeOK
<1>4. \A e \in Dev : Busy(e)' <=> Busy(e)
  BY <1>1, <1>2, <1>3 DEF Worked, Busy
<1>5. \A e \in Dev : Channel(e)' = Channel(e)
  BY <1>2, <1>4 DEF Channel
<1>6. ASSUME NEW p \in Places PROVE Holds(p)' = Holds(p)
  BY <1>1, <1>2, <1>5, HoldsSame DEF Worked, Beside
<1>7. Tensors'
  BY <1>2, <1>4 DEF Calm, Tensors
<1>8. \E f : Flow(f)'
  <2>1. PICK f : Flow(f)
    BY DEF Calm
  <2> QED
    BY <1>1, <1>2, <1>6, <2>1, FlowStay DEF Worked
<1> QED
  BY <1>7, <1>8 DEF FlowInv

\* The tensor pushed goes from the connector to the queue, at the same place.
LEMMA PushFlow ==
  ASSUME TypeInv, TypeInv', Kinds, ~event, Calm, NEW d \in Dev, InternalPush(d)
  PROVE  FlowInv'
<1>1. Worked(d) /\ (NothingRan => NothingRan')
  BY WorkedIs, NothingWork
<1>2. UNCHANGED <<buf, out, progs, moves, dpc, pq, held>> /\ ppc[d] = "push"
  BY DEF InternalPush, deviceVars
<1>3. d \in Pushers
  BY <1>2 DEF Kinds
<1>4. held[d] \in Real /\ held[d] \in Int
  BY <1>2 DEF Calm, Tensors, Busy, Real
<1>5. PICK t : t = Target(d)
  OBVIOUS
<1>6. t \in Places
  BY <1>3, <1>5, OneChannel
<1>7. data \in [Places -> Seq(Int)]
  BY DEF TypeInv, TypeOK
<1>8. /\ ppc'[d] = "poll" /\ data'[t] = Append(data[t], held[d])
      /\ \A p \in Places : p # t => data'[p] = data[p]
  BY <1>5, <1>6, <1>7 DEF InternalPush, TypeInv, TypeOK
<1>9. Len(data'[t]) = Len(data[t]) + 1
  BY <1>4, <1>6, <1>7, <1>8, AppendProperties
<1>10. Channel(d) = Channel(d)' + 1 /\ Channel(d)' \in Nat
  <2>1. Tally(pq[d], Real) \in Nat
    BY TallyType, ChannelIs
  <2>2. Channel(d) = Tally(pq[d], Real) + 1
    BY <1>2 DEF Channel, Busy
  <2>3. Channel(d)' = Tally(pq[d], Real) + 0
    BY <1>2, <1>8 DEF Channel, Busy
  <2> QED
    BY <2>1, <2>2, <2>3
<1>11. ASSUME NEW p \in Places PROVE Holds(p)' = Holds(p)
  <2>1. /\ Holds(p) \in Nat /\ Holds(p)' \in Nat
        /\ d \in Pushers /\ p = Target(d) =>
             Holds(p)' + Len(data[p]) + Channel(d) = Holds(p) + Len(data'[p]) + Channel(d)'
        /\ ~(d \in Pushers /\ p = Target(d)) /\ (d \in Pushers \/ Channel(d)' = Channel(d)) =>
             Holds(p)' + Len(data[p]) = Holds(p) + Len(data'[p])
    BY <1>1, HoldsChange DEF Worked, Beside
  <2>2. Len(data[p]) \in Nat
    BY PlaceIs
  <2>3. CASE p = t
    <3>1. Holds(p)' + Len(data[p]) + Channel(d) = Holds(p) + (Len(data[p]) + 1) + Channel(d)'
      BY <1>3, <1>5, <1>9, <2>1, <2>3
    <3> QED
      BY <1>10, <2>1, <2>2, <3>1
  <2>4. CASE p # t
    <3>1. Holds(p)' + Len(data[p]) = Holds(p) + Len(data[p])
      BY <1>3, <1>5, <1>8, <2>1, <2>4
    <3> QED
      BY <2>1, <2>2, <3>1
  <2> QED
    BY <2>3, <2>4
<1>12. Tensors'
  <2>1. \A p \in Places : Changed(data[p], data'[p], Real)
    BY <1>4, <1>8 DEF Changed
  <2>2. Changed(buf, buf', Real) /\ \A e \in Dev : Changed(pq[e], pq'[e], Real \cup {Quit})
    BY <1>2 DEF Changed
  <2>3. \A e \in Dev : Busy(e)' => held'[e] \in Real
    BY <1>1, <1>2, <1>8 DEF Calm, Tensors, Busy, Worked
  <2> QED
    BY <2>1, <2>2, <2>3, TensorsKept DEF Calm
<1>13. \E f : Flow(f)'
  <2>1. PICK f : Flow(f)
    BY DEF Calm
  <2> QED
    BY <1>1, <1>2, <1>11, <2>1, FlowStay DEF Worked
<1> QED
  BY <1>12, <1>13 DEF FlowInv

-----------------------------------------------------------------------------
(* A program run by the device.                                            *)

\* A tensor is taken from a place, and a place gets one.
LEMMA RunFlow ==
  ASSUME TypeInv, TypeInv', Kinds, ~event, Calm, NEW d \in Dev, RunProgram(d)
  PROVE  FlowInv'
<1>1. Worked(d) /\ (NothingRan => NothingRan')
  BY WorkedIs, NothingWork
<1>2. UNCHANGED <<buf, out, moves, dpc, pq, ppc, held>> /\ progs[d] > 0 /\ data[d] # <<>>
  BY DEF RunProgram, deviceVars, pushVars
<1>3. d \in tt /\ d \in Places /\ d + 1 \in Places /\ d \in Nat /\ d # d + 1 /\ N \in Nat /\ N \in Dev /\ d <= N
      /\ N >= 1 /\ d >= 1
  BY <1>2, Devices DEF Kinds, Places
<1>4. data \in [Places -> Seq(Int)] /\ progs \in [Dev -> Nat]
  BY DEF TypeInv, TypeOK
<1>5. PICK x : x = Head(data[d])
  OBVIOUS
<1>6. x \in Real /\ x \in Int
  <2>1. \A i \in DOMAIN data[d] : data[d][i] \in Real
    BY <1>3 DEF Calm, Tensors
  <2>2. data[d] \in Seq(Int)
    BY <1>3, <1>4
  <2> QED
    BY <1>2, <1>5, <2>1, <2>2, AllTail DEF Real
<1>7. /\ data'[d] = Tail(data[d]) /\ data'[d + 1] = Append(data[d + 1], x)
      /\ \A p \in Places : p # d /\ p # d + 1 => data'[p] = data[p]
  BY <1>3, <1>4, <1>5 DEF RunProgram
<1>8. /\ Len(data'[d]) = Len(data[d]) - 1 /\ Len(data'[d + 1]) = Len(data[d + 1]) + 1
  BY <1>2, <1>3, <1>4, <1>6, <1>7, AppendProperties, HeadTailProperties
<1>9. \A e \in Dev : Channel(e)' = Channel(e)
  BY <1>2 DEF Channel, Busy
<1>10. ASSUME NEW p \in Places
       PROVE  Holds(p)' + (IF p = d THEN 1 ELSE 0) = Holds(p) + (IF p = d + 1 THEN 1 ELSE 0)
  <2>1. /\ Holds(p) \in Nat /\ Holds(p)' \in Nat /\ Len(data[p]) \in Nat /\ Len(data'[p]) \in Nat
        /\ Holds(p)' + Len(data[p]) = Holds(p) + Len(data'[p])
    BY <1>1, <1>9, HoldsSame DEF Worked, Beside
  <2>2. CASE p = d
    BY <1>3, <1>8, <2>1, <2>2
  <2>3. CASE p = d + 1
    BY <1>3, <1>8, <2>1, <2>3
  <2>4. CASE p # d /\ p # d + 1
    BY <1>7, <2>1, <2>4
  <2> QED
    BY <2>2, <2>3, <2>4
<1>11. Tensors'
  <2>1. \A p \in Places : Changed(data[p], data'[p], Real)
    BY <1>2, <1>6, <1>7 DEF Changed
  <2>2. Changed(buf, buf', Real) /\ \A e \in Dev : Changed(pq[e], pq'[e], Real \cup {Quit})
    BY <1>2 DEF Changed
  <2>3. \A e \in Dev : Busy(e)' => held'[e] \in Real
    BY <1>2 DEF Calm, Tensors, Busy
  <2> QED
    BY <2>1, <2>2, <2>3, TensorsKept DEF Calm
<1>12. Running(N)' + (IF d <= N /\ N <= d THEN 1 ELSE 0) = Running(N)
  <2>0. tt' = tt
    BY <1>1 DEF Worked, Beside
  <2>1. CASE d = N
    <3>1. progs'[N] = progs[N] - 1 /\ progs[N] \in Nat
      BY <1>3, <1>4, <2>1 DEF RunProgram
    <3>2. Running(N)' = progs'[N] /\ Running(N) = progs[N]
      BY <1>3, <2>0, <2>1 DEF Running
    <3> QED
      BY <1>3, <2>1, <3>1, <3>2
  <2>2. CASE d # N
    <3>1. progs'[N] = progs[N] /\ progs[N] \in Nat
      BY <1>1, <1>3, <1>4, <2>2 DEF Worked
    <3>2. Running(N)' = Running(N) /\ Running(N) \in Nat
      BY <1>2, <2>0, <3>1 DEF Running
    <3>3. ~(d <= N /\ N <= d)
      BY <1>3, <2>2
    <3> QED
      BY <3>2, <3>3
  <2> QED
    BY <2>1, <2>2
<1>13. \E f : Flow(f)'
  <2>1. PICK f : Flow(f)
    BY DEF Calm
  <2>2. d \in 0 .. N + 1 /\ d \in d .. N + 1 /\ d # 0 /\ d # N + 1
    BY <1>3
  <2>3. /\ Len(buf') + (IF d = 0 THEN 1 ELSE 0) = Len(buf)
        /\ Len(out') = Len(out) + (IF d = N + 1 THEN 1 ELSE 0)
        /\ N \in tt => moves'[N] + Len(out') + (IF N = 1 THEN Len(buf) ELSE 0)
                         = moves[N] + Len(out) + (IF N = 1 THEN Len(buf') ELSE 0)
    <3>1. Len(buf) \in Nat /\ Len(out) \in Nat
      BY DEF TypeInv, TypeOK
    <3> QED
      BY <1>2, <2>2, <3>1
  <2>4. Beside
    BY <1>1 DEF Worked
  <2> QED
    BY <1>1, <1>10, <1>12, <2>1, <2>2, <2>3, <2>4, FlowShift
<1> QED
  BY <1>11, <1>13 DEF FlowInv

-----------------------------------------------------------------------------
(* A forward of a CPUDevice.                                               *)

\* The arithmetic of one more and one less.
LEMMA Moved ==
  \A a, b, x \in Nat : /\ a + x = b + (x - 1) => a + 1 = b + 0
                       /\ a + x = b + (x + 1) => a + 0 = b + 1
                       /\ a + x = b + x => a + 0 = b + 0
                       /\ \A c \in Nat : a + x + c = b + x + (c + 1) => a + 0 = b + 1
OBVIOUS

\* What a CPUDevice reads, and where it puts it.
LEMMA ForwardFacts ==
  ASSUME TypeInv, Kinds, ~event, Calm, NEW d \in Dev, Forward(d)
  PROVE  /\ Worked(d) /\ (NothingRan => NothingRan')
         /\ UNCHANGED <<progs, moves, buf, ppc, held>> /\ data[d] # <<>>
         /\ d \notin tt /\ d \in Places /\ d + 1 \in Places /\ d \in Nat /\ d # d + 1
         /\ d <= N /\ d >= 1 /\ N \in Nat /\ N \in Dev
         /\ dpc[d] = "forward" /\ dpc'[d] = "next"
         /\ Head(data[d]) \in Real /\ Head(data[d]) \in Int
         /\ Len(Tail(data[d])) = Len(data[d]) - 1
         /\ Len(buf) \in Nat /\ Len(out) \in Nat
<1>1. Worked(d) /\ (NothingRan => NothingRan')
  BY WorkedIs, NothingWork
<1>2. /\ UNCHANGED <<progs, moves, buf, ppc, held>> /\ data[d] # <<>> /\ dpc[d] = "forward"
  BY DEF Forward
<1>3. d \notin tt /\ d \in Places /\ d + 1 \in Places /\ d \in Nat /\ d # d + 1 /\ d <= N /\ d >= 1
      /\ N \in Nat /\ N \in Dev
  BY <1>2, Devices DEF Kinds, Places
<1>4. data[d] \in Seq(Int) /\ Len(buf) \in Nat /\ Len(out) \in Nat
  BY <1>3 DEF TypeInv, TypeOK
<1>5. Head(data[d]) \in Real
  <2>1. \A i \in DOMAIN data[d] : data[d][i] \in Real
    BY <1>3 DEF Calm, Tensors
  <2> QED
    BY <1>2, <1>4, <2>1, AllTail
<1>6. dpc'[d] = "next"
  BY DEF Forward, Goto, TypeInv, TypeOK
<1>7. Len(Tail(data[d])) = Len(data[d]) - 1
  BY <1>2, <1>4, HeadTailProperties
<1> QED
  BY <1>1, <1>2, <1>3, <1>4, <1>5, <1>6, <1>7 DEF Real

\* Into the channel of its pusher,
LEMMA ForwardPush ==
  ASSUME TypeInv, TypeInv', Kinds, ~event, Calm, NEW d \in Dev, Forward(d), d \in Pushers,
         pq' = [pq EXCEPT ![d] = Append(@, Head(data[d]))], data' = [data EXCEPT ![d] = Tail(@)], out' = out
  PROVE  FlowInv'
<1>1. PICK x : x = Head(data[d])
  OBVIOUS
<1>2. /\ Worked(d) /\ (NothingRan => NothingRan') /\ UNCHANGED <<progs, moves, buf, ppc, held>>
      /\ data[d] # <<>> /\ d \notin tt /\ d \in Places /\ d + 1 \in Places /\ d \in Nat
      /\ d >= 1 /\ N \in Nat /\ N \in Dev /\ d <= N /\ x \in Real
      /\ Len(Tail(data[d])) = Len(data[d]) - 1 /\ Len(buf) \in Nat /\ Len(out) \in Nat
  BY <1>1, ForwardFacts
<1>3. data \in [Places -> Seq(Int)] /\ pq \in [Dev -> Seq(Int)]
  BY DEF TypeInv, TypeOK
<1>4. /\ data'[d] = Tail(data[d]) /\ \A p \in Places : p # d => data'[p] = data[p]
      /\ pq'[d] = Append(pq[d], x) /\ \A e \in Dev \ {d} : pq'[e] = pq[e]
  BY <1>1, <1>2, <1>3
<1>5. Target(d) = d + 1 /\ d + 1 \in Dev
  BY <1>2, OneChannel DEF Target
<1>6. d # N
  BY <1>2, <1>5, Devices
<1>7. Channel(d)' = Channel(d) + 1 /\ Channel(d) \in Nat
  BY <1>2, <1>4, TensorAdds, ChannelIs
<1>8. ASSUME NEW p \in Places
      PROVE  Holds(p)' + (IF p = d THEN 1 ELSE 0) = Holds(p) + (IF p = d + 1 THEN 1 ELSE 0)
  <2>1. /\ Holds(p) \in Nat /\ Holds(p)' \in Nat
        /\ d \in Pushers /\ p = Target(d) =>
             Holds(p)' + Len(data[p]) + Channel(d) = Holds(p) + Len(data'[p]) + Channel(d)'
        /\ ~(d \in Pushers /\ p = Target(d)) /\ (d \in Pushers \/ Channel(d)' = Channel(d)) =>
             Holds(p)' + Len(data[p]) = Holds(p) + Len(data'[p])
    BY <1>2, <1>4, HoldsChange DEF Worked, Beside
  <2>2. Len(data[p]) \in Nat
    BY PlaceIs
  <2>3. CASE p = d
    <3>0. p # d + 1 /\ p # Target(d)
      BY <1>2, <1>5, <2>3
    <3>1. Len(data'[p]) = Len(data[p]) - 1 /\ p # Target(d) /\ p # d + 1
      BY <1>2, <1>4, <2>3, <3>0
    <3>2. Holds(p)' + Len(data[p]) = Holds(p) + (Len(data[p]) - 1)
      BY <1>2, <2>1, <3>1
    <3>3. Holds(p)' + 1 = Holds(p) + 0
      BY <2>1, <2>2, <3>2, Moved
    <3> QED
      BY <2>3, <3>1, <3>3
  <2>4. CASE p = d + 1
    <3>1. p = Target(d) /\ data'[p] = data[p] /\ p # d
      BY <1>2, <1>4, <1>5, <2>4
    <3>2. Holds(p)' + Len(data[p]) + Channel(d) = Holds(p) + Len(data[p]) + (Channel(d) + 1)
      BY <1>7, <2>1, <3>1
    <3>3. Holds(p)' + 0 = Holds(p) + 1
      BY <1>7, <2>1, <2>2, <3>2, Moved
    <3> QED
      BY <2>4, <3>1, <3>3
  <2>5. CASE p # d /\ p # d + 1
    <3>1. Holds(p)' + Len(data[p]) = Holds(p) + Len(data[p])
      BY <1>4, <1>5, <2>1, <2>5
    <3> QED
      BY <2>1, <2>2, <2>5, <3>1
  <2> QED
    BY <2>3, <2>4, <2>5
<1>9. Tensors'
  <2>1. \A p \in Places : Changed(data[p], data'[p], Real)
    BY <1>2, <1>4 DEF Changed
  <2>2. Changed(buf, buf', Real) /\ \A e \in Dev : Changed(pq[e], pq'[e], Real \cup {Quit})
    BY <1>2, <1>4 DEF Changed
  <2>3. \A e \in Dev : Busy(e)' => held'[e] \in Real
    BY <1>2 DEF Calm, Tensors, Busy
  <2> QED
    BY <2>1, <2>2, <2>3, TensorsKept DEF Calm
<1>10. \E f : Flow(f)'
  <2>1. PICK f : Flow(f)
    BY DEF Calm
  <2>2. d \in 0 .. N + 1 /\ d \in d .. N + 1 /\ d # 0 /\ d # N + 1 /\ ~(d <= N /\ N <= d)
    BY <1>2, <1>6
  <2>3. /\ Len(buf') + (IF d = 0 THEN 1 ELSE 0) = Len(buf)
        /\ Len(out') = Len(out) + (IF d = N + 1 THEN 1 ELSE 0)
        /\ N \in tt => moves'[N] + Len(out') + (IF N = 1 THEN Len(buf) ELSE 0)
                         = moves[N] + Len(out) + (IF N = 1 THEN Len(buf') ELSE 0)
    BY <1>2, <2>2
  <2>4. Running(N)' + (IF d <= N /\ N <= d THEN 1 ELSE 0) = Running(N)
    <3>1. dpc'[N] = dpc[N] /\ tt' = tt
      BY <1>2, <1>6 DEF Worked, Beside
    <3>2. Running(N)' = Running(N)
      BY <1>2, <3>1 DEF Running
    <3>3. Running(N) \in Nat
      BY <1>2 DEF Running, TypeInv, TypeOK
    <3> QED
      BY <2>2, <3>2, <3>3
  <2>5. Beside
    BY <1>2 DEF Worked
  <2> QED
    BY <1>2, <1>8, <2>1, <2>2, <2>3, <2>4, <2>5, FlowShift
<1> QED
  BY <1>9, <1>10 DEF FlowInv

\* to the user,
LEMMA ForwardOut ==
  ASSUME TypeInv, TypeInv', Kinds, ~event, Calm, NEW d \in Dev, Forward(d), d = N,
         pq' = pq, data' = [data EXCEPT ![d] = Tail(@)], out' = Append(out, Head(data[d]))
  PROVE  FlowInv'
<1>2. /\ Worked(d) /\ (NothingRan => NothingRan') /\ UNCHANGED <<progs, moves, buf, ppc, held>>
      /\ data[d] # <<>> /\ d \notin tt /\ d \in Places /\ d \in Nat
      /\ d >= 1 /\ N \in Nat /\ N \in Dev /\ d <= N
      /\ Len(Tail(data[d])) = Len(data[d]) - 1 /\ Len(buf) \in Nat /\ Len(out) \in Nat
      /\ dpc[d] = "forward" /\ dpc'[d] = "next" /\ Head(data[d]) \in Int
  BY ForwardFacts
<1>3. data \in [Places -> Seq(Int)] /\ out \in Seq(Int)
  BY DEF TypeInv, TypeOK
<1>4. /\ data'[d] = Tail(data[d]) /\ \A p \in Places : p # d => data'[p] = data[p]
  BY <1>2, <1>3
<1>5. Len(out') = Len(out) + 1
  BY <1>2, <1>3, AppendProperties
<1>6. \A e \in Dev : Channel(e)' = Channel(e)
  BY <1>2 DEF Channel, Busy
<1>7. ASSUME NEW p \in Places
      PROVE  Holds(p)' + (IF p = N THEN 1 ELSE 0) = Holds(p) + (IF p = N + 1 + 1 THEN 1 ELSE 0)
  <2>1. /\ Holds(p) \in Nat /\ Holds(p)' \in Nat /\ Len(data[p]) \in Nat /\ Len(data'[p]) \in Nat
        /\ Holds(p)' + Len(data[p]) = Holds(p) + Len(data'[p])
    BY <1>2, <1>6, HoldsSame DEF Worked, Beside
  <2>2. p # N + 1 + 1
    BY <1>2 DEF Places
  <2>3. CASE p = N
    <3>1. Len(data'[p]) = Len(data[p]) - 1
      BY <1>2, <1>4, <2>3
    <3>2. Holds(p)' + 1 = Holds(p) + 0
      BY <2>1, <3>1, Moved
    <3> QED
      BY <2>2, <2>3, <3>2
  <2>4. CASE p # N
    BY <1>4, <2>1, <2>2, <2>4
  <2> QED
    BY <2>3, <2>4
<1>8. Tensors'
  <2>1. \A p \in Places : Changed(data[p], data'[p], Real)
    BY <1>2, <1>4 DEF Changed
  <2>2. Changed(buf, buf', Real) /\ \A e \in Dev : Changed(pq[e], pq'[e], Real \cup {Quit})
    BY <1>2 DEF Changed
  <2>3. \A e \in Dev : Busy(e)' => held'[e] \in Real
    BY <1>2 DEF Calm, Tensors, Busy
  <2> QED
    BY <2>1, <2>2, <2>3, TensorsKept DEF Calm
<1>9. \E f : Flow(f)'
  <2>1. PICK f : Flow(f)
    BY DEF Calm
  <2>2. N \in 0 .. N + 1 /\ N + 1 \in N .. N + 1 /\ N # 0 /\ N <= N /\ N <= N + 1
    BY <1>2
  <2>3. /\ Len(buf') + (IF N = 0 THEN 1 ELSE 0) = Len(buf)
        /\ Len(out') = Len(out) + (IF N + 1 = N + 1 THEN 1 ELSE 0)
        /\ N \notin tt
    BY <1>2, <1>5, <2>2
  <2>4. Running(N)' + (IF N <= N /\ N <= N + 1 THEN 1 ELSE 0) = Running(N)
    <3>1. tt' = tt
      BY <1>2 DEF Worked, Beside
    <3>2. Running(N)' = 0 /\ Running(N) = 1
      BY <1>2, <3>1 DEF Running
    <3> QED
      BY <2>2, <3>2
  <2>5. Beside
    BY <1>2 DEF Worked
  <2> QED
    BY <1>2, <1>7, <2>1, <2>2, <2>3, <2>4, <2>5, FlowShift
<1> QED
  BY <1>8, <1>9 DEF FlowInv

\* or to the next device.
LEMMA ForwardNext ==
  ASSUME TypeInv, TypeInv', Kinds, ~event, Calm, NEW d \in Dev, Forward(d), d < N, pq' = pq, out' = out,
         data' = [[data EXCEPT ![d] = Tail(@)] EXCEPT ![d + 1] = Append(@, Head(data[d]))]
  PROVE  FlowInv'
<1>1. PICK x : x = Head(data[d])
  OBVIOUS
<1>2. /\ Worked(d) /\ (NothingRan => NothingRan') /\ UNCHANGED <<progs, moves, buf, ppc, held>>
      /\ data[d] # <<>> /\ d \in Places /\ d + 1 \in Places /\ d \in Nat /\ d # d + 1
      /\ d >= 1 /\ N \in Nat /\ N \in Dev /\ x \in Real /\ x \in Int
      /\ Len(Tail(data[d])) = Len(data[d]) - 1 /\ Len(buf) \in Nat /\ Len(out) \in Nat
  BY <1>1, ForwardFacts
<1>3. data \in [Places -> Seq(Int)]
  BY DEF TypeInv, TypeOK
<1>4. /\ data'[d] = Tail(data[d]) /\ data'[d + 1] = Append(data[d + 1], x)
      /\ \A p \in Places : p # d /\ p # d + 1 => data'[p] = data[p]
  BY <1>1, <1>2, <1>3
<1>5. /\ Len(data'[d]) = Len(data[d]) - 1 /\ Len(data'[d + 1]) = Len(data[d + 1]) + 1
  <2>1. Len(Append(data[d + 1], x)) = Len(data[d + 1]) + 1
    BY <1>2, <1>3, AppendProperties
  <2> QED
    BY <1>2, <1>4, <2>1
<1>6. \A e \in Dev : Channel(e)' = Channel(e)
  BY <1>2 DEF Channel, Busy
<1>7. ASSUME NEW p \in Places
      PROVE  Holds(p)' + (IF p = d THEN 1 ELSE 0) = Holds(p) + (IF p = d + 1 THEN 1 ELSE 0)
  <2>1. /\ Holds(p) \in Nat /\ Holds(p)' \in Nat /\ Len(data[p]) \in Nat /\ Len(data'[p]) \in Nat
        /\ Holds(p)' + Len(data[p]) = Holds(p) + Len(data'[p])
    BY <1>2, <1>6, HoldsSame DEF Worked, Beside
  <2>2. CASE p = d
    BY <1>2, <1>5, <2>1, <2>2
  <2>3. CASE p = d + 1
    BY <1>2, <1>5, <2>1, <2>3
  <2>4. CASE p # d /\ p # d + 1
    BY <1>4, <2>1, <2>4
  <2> QED
    BY <2>2, <2>3, <2>4
<1>8. Tensors'
  <2>1. \A p \in Places : Changed(data[p], data'[p], Real)
    BY <1>2, <1>4 DEF Changed
  <2>2. Changed(buf, buf', Real) /\ \A e \in Dev : Changed(pq[e], pq'[e], Real \cup {Quit})
    BY <1>2 DEF Changed
  <2>3. \A e \in Dev : Busy(e)' => held'[e] \in Real
    BY <1>2 DEF Calm, Tensors, Busy
  <2> QED
    BY <2>1, <2>2, <2>3, TensorsKept DEF Calm
<1>9. \E f : Flow(f)'
  <2>1. PICK f : Flow(f)
    BY DEF Calm
  <2>2. d \in 0 .. N + 1 /\ d \in d .. N + 1 /\ d # 0 /\ d # N + 1 /\ ~(d <= N /\ N <= d) /\ d # N
    BY <1>2
  <2>3. /\ Len(buf') + (IF d = 0 THEN 1 ELSE 0) = Len(buf)
        /\ Len(out') = Len(out) + (IF d = N + 1 THEN 1 ELSE 0)
        /\ N \in tt => moves'[N] + Len(out') + (IF N = 1 THEN Len(buf) ELSE 0)
                         = moves[N] + Len(out) + (IF N = 1 THEN Len(buf') ELSE 0)
    BY <1>2, <2>2
  <2>4. Running(N)' + (IF d <= N /\ N <= d THEN 1 ELSE 0) = Running(N)
    <3>1. dpc'[N] = dpc[N] /\ tt' = tt
      BY <1>2, <2>2 DEF Worked, Beside
    <3>2. Running(N)' = Running(N)
      BY <1>2, <3>1 DEF Running
    <3>3. Running(N) \in Nat
      BY <1>2 DEF Running, TypeInv, TypeOK
    <3> QED
      BY <2>2, <3>2, <3>3
  <2>5. Beside
    BY <1>2 DEF Worked
  <2> QED
    BY <1>2, <1>7, <2>1, <2>2, <2>3, <2>4, <2>5, FlowShift
<1> QED
  BY <1>8, <1>9 DEF FlowInv

\* A forward takes a tensor from the device's input to the next one.
LEMMA ForwardFlow ==
  ASSUME TypeInv, TypeInv', Kinds, ~event, Calm, NEW d \in Dev, Forward(d)
  PROVE  FlowInv'
<1>1. \/ /\ d \in Pushers /\ pq' = [pq EXCEPT ![d] = Append(@, Head(data[d]))]
         /\ data' = [data EXCEPT ![d] = Tail(@)] /\ out' = out
      \/ d = N /\ out' = Append(out, Head(data[d])) /\ data' = [data EXCEPT ![d] = Tail(@)] /\ pq' = pq
      \/ /\ d < N /\ pq' = pq /\ out' = out
         /\ data' = [[data EXCEPT ![d] = Tail(@)] EXCEPT ![d + 1] = Append(@, Head(data[d]))]
  BY DEF Forward
<1> QED
  BY <1>1, ForwardPush, ForwardOut, ForwardNext

-----------------------------------------------------------------------------
(* The transfer threads, and every step.                                   *)

\* An input goes to the pusher of the first device,
LEMMA TransferIn ==
  ASSUME TypeInv, TypeInv', Kinds, ~event, Calm, NEW d \in Dev, Transfer(d), d = 1,
         pq' = [pq EXCEPT ![d] = Append(@, IF buf = <<>> THEN NoTensors ELSE Head(buf))],
         buf # <<>>, buf' = If(buf # <<>>, Tail(buf)), UNCHANGED <<data, out>>
  PROVE  FlowInv'
<1>1. PICK x : x = Head(buf)
  OBVIOUS
<1>2. /\ Worked(d) /\ (NothingRan => NothingRan') /\ UNCHANGED <<progs, dpc, ppc, held>> /\ moves[d] > 0
  BY WorkedIs, NothingWork DEF Transfer, deviceVars
<1>3. data \in [Places -> Seq(Int)] /\ pq \in [Dev -> Seq(Int)] /\ buf \in Seq(Int) /\ moves \in [Dev -> Nat]
      /\ out \in Seq(Int)
  BY DEF TypeInv, TypeOK
<1>4. /\ d \in tt /\ d \in Pushers /\ Target(d) = 1 /\ N \in Nat /\ N \in Dev /\ N >= 1 /\ Dev = 1 .. N
      /\ 1 \in Places
  BY <1>2, Devices DEF Kinds, Pushers, Target, Places
<1>5. x \in Real
  <2>1. \A i \in DOMAIN buf : buf[i] \in Real
    BY DEF Calm, Tensors
  <2> QED
    BY <1>1, <1>3, <2>1, AllTail
<1>6. /\ pq'[d] = Append(pq[d], x) /\ \A e \in Dev \ {d} : pq'[e] = pq[e]
      /\ buf' = Tail(buf) /\ Len(buf') = Len(buf) - 1 /\ Len(buf) \in Nat
      /\ moves'[d] = moves[d] - 1 /\ \A e \in Dev \ {d} : moves'[e] = moves[e]
  <2>1. pq'[d] = Append(pq[d], x) /\ \A e \in Dev \ {d} : pq'[e] = pq[e]
    BY <1>1, <1>3
  <2>2. buf' = Tail(buf) /\ Len(buf) \in Nat
    BY <1>3 DEF If
  <2>3. Len(Tail(buf)) = Len(buf) - 1
    BY <1>3, HeadTailProperties
  <2>4. moves'[d] = moves[d] - 1 /\ \A e \in Dev \ {d} : moves'[e] = moves[e]
    BY <1>3 DEF Transfer
  <2> QED
    BY <2>1, <2>2, <2>3, <2>4
<1>7. Channel(d)' = Channel(d) + 1 /\ Channel(d) \in Nat
  BY <1>2, <1>5, <1>6, TensorAdds, ChannelIs
<1>8. ASSUME NEW p \in Places
      PROVE  Holds(p)' + (IF p = 0 THEN 1 ELSE 0) = Holds(p) + (IF p = 0 + 1 THEN 1 ELSE 0)
  <2>1. /\ Holds(p) \in Nat /\ Holds(p)' \in Nat
        /\ d \in Pushers /\ p = Target(d) =>
             Holds(p)' + Len(data[p]) + Channel(d) = Holds(p) + Len(data'[p]) + Channel(d)'
        /\ ~(d \in Pushers /\ p = Target(d)) /\ (d \in Pushers \/ Channel(d)' = Channel(d)) =>
             Holds(p)' + Len(data[p]) = Holds(p) + Len(data'[p])
    BY <1>2, <1>6, HoldsChange DEF Worked, Beside
  <2>2. Len(data[p]) \in Nat /\ data'[p] = data[p] /\ p # 0
    BY PlaceIs, Devices DEF Places
  <2>3. CASE p = 1
    <3>1. Holds(p)' + Len(data[p]) + Channel(d) = Holds(p) + Len(data[p]) + (Channel(d) + 1)
      BY <1>4, <1>7, <2>1, <2>2, <2>3
    <3>2. Holds(p)' + 0 = Holds(p) + 1
      BY <1>7, <2>1, <2>2, <3>1, Moved
    <3> QED
      BY <2>2, <2>3, <3>2
  <2>4. CASE p # 1
    <3>1. Holds(p)' + Len(data[p]) = Holds(p) + Len(data[p])
      BY <1>4, <2>1, <2>2, <2>4
    <3>2. Holds(p)' + 0 = Holds(p) + 0
      BY <2>1, <2>2, <3>1, Moved
    <3> QED
      BY <2>2, <2>4, <3>2
  <2> QED
    BY <2>3, <2>4
<1>9. Tensors'
  <2>1. \A p \in Places : Changed(data[p], data'[p], Real)
    BY DEF Changed
  <2>2. Changed(buf, buf', Real) /\ \A e \in Dev : Changed(pq[e], pq'[e], Real \cup {Quit})
    BY <1>5, <1>6 DEF Changed
  <2>3. \A e \in Dev : Busy(e)' => held'[e] \in Real
    BY <1>2 DEF Calm, Tensors, Busy
  <2> QED
    BY <2>1, <2>2, <2>3, TensorsKept DEF Calm
<1>10. \E f : Flow(f)'
  <2>1. PICK f : Flow(f)
    BY DEF Calm
  <2>2. 0 \in 0 .. N + 1 /\ 0 # N + 1 /\ ~(N <= 0)
    BY <1>4
  <2>3. Len(buf') + 1 = Len(buf) /\ Len(out') = Len(out) + 0
    <3>1. Len(out) \in Nat
      BY <1>3
    <3> QED
      BY <1>6, <3>1
  <2>4. moves'[N] + Len(out') + (IF N = 1 THEN Len(buf) ELSE 0)
          = moves[N] + Len(out) + (IF N = 1 THEN Len(buf') ELSE 0)
    <3>1. moves[N] \in Nat /\ Len(out) \in Nat /\ Len(out') = Len(out)
      BY <1>3, <1>4
    <3>2. CASE N = 1
      <4>1. moves'[N] = moves[N] - 1
        BY <1>6, <3>2
      <4>2. moves[N] - 1 + Len(out) + Len(buf) = moves[N] + Len(out) + (Len(buf) - 1)
        BY <1>6, <3>1
      <4> QED
        BY <1>6, <3>1, <3>2, <4>1, <4>2
    <3>3. CASE N # 1
      BY <1>4, <1>6, <3>1, <3>3
    <3> QED
      BY <3>2, <3>3
  <2>5. Running(N)' = Running(N) /\ Running(N) \in Nat
    <3>1. tt' = tt
      BY <1>2 DEF Worked, Beside
    <3>2. progs[N] \in Nat
      BY <1>4 DEF TypeInv, TypeOK
    <3> QED
      BY <1>2, <3>1, <3>2 DEF Running
  <2>6. Running(N)' + (IF 0 <= N /\ N <= 0 THEN 1 ELSE 0) = Running(N)
    BY <2>2, <2>5
  <2>7. Beside
    BY <1>2 DEF Worked
  <2> QED
    BY <1>2, <1>8, <2>1, <2>2, <2>3, <2>4, <2>6, <2>7, FlowShift
<1> QED
  BY <1>9, <1>10 DEF FlowInv

\* or an output to the user.
LEMMA TransferOut ==
  ASSUME TypeInv, TypeInv', Kinds, ~event, Calm, NEW d \in Dev, Transfer(d), d = N, data[N + 1] # <<>>,
         out' = Append(out, IF data[N + 1] = <<>> THEN NoTensors ELSE Head(data[N + 1])),
         data' = [data EXCEPT ![N + 1] = If(@ # <<>>, Tail(@))], UNCHANGED <<pq, buf>>
  PROVE  FlowInv'
<1>1. /\ Worked(d) /\ (NothingRan => NothingRan') /\ UNCHANGED <<progs, dpc, ppc, held>> /\ moves[d] > 0
  BY WorkedIs, NothingWork DEF Transfer, deviceVars
<1>2. data \in [Places -> Seq(Int)] /\ out \in Seq(Int) /\ moves \in [Dev -> Nat] /\ buf \in Seq(Int)
  BY DEF TypeInv, TypeOK
<1>3. N \in Nat /\ N \in Dev /\ N >= 1 /\ N + 1 \in Places
  BY Devices DEF Places
<1>4. data'[N + 1] = Tail(data[N + 1]) /\ \A p \in Places : p # N + 1 => data'[p] = data[p]
  BY <1>2, <1>3 DEF If
<1>5. Len(data'[N + 1]) = Len(data[N + 1]) - 1
  BY <1>2, <1>3, <1>4, HeadTailProperties
<1>6. Len(out') = Len(out) + 1 /\ Len(out) \in Nat
  <2>1. data[N + 1] \in Seq(Int)
    BY <1>2, <1>3
  <2>2. PICK x : x = Head(data[N + 1])
    OBVIOUS
  <2>3. x \in Int /\ out' = Append(out, x)
    BY <2>1, <2>2
  <2> QED
    BY <1>2, <2>3, AppendProperties
<1>7. \A e \in Dev : Channel(e)' = Channel(e)
  BY <1>1 DEF Channel, Busy
<1>8. ASSUME NEW p \in Places
      PROVE  Holds(p)' + (IF p = N + 1 THEN 1 ELSE 0) = Holds(p) + (IF p = N + 1 + 1 THEN 1 ELSE 0)
  <2>1. /\ Holds(p) \in Nat /\ Holds(p)' \in Nat /\ Len(data[p]) \in Nat /\ Len(data'[p]) \in Nat
        /\ Holds(p)' + Len(data[p]) = Holds(p) + Len(data'[p])
    BY <1>1, <1>7, HoldsSame DEF Worked, Beside
  <2>2. p # N + 1 + 1
    BY <1>3 DEF Places
  <2>3. CASE p = N + 1
    <3>1. Len(data'[p]) = Len(data[p]) - 1
      BY <1>5, <2>3
    <3>2. Holds(p)' + 1 = Holds(p) + 0
      BY <2>1, <3>1, Moved
    <3> QED
      BY <2>2, <2>3, <3>2
  <2>4. CASE p # N + 1
    <3>1. Holds(p)' + 0 = Holds(p) + 0
      BY <1>4, <2>1, <2>4, Moved
    <3> QED
      BY <2>2, <2>4, <3>1
  <2> QED
    BY <2>3, <2>4
<1>9. Tensors'
  <2>1. \A p \in Places : Changed(data[p], data'[p], Real)
    BY <1>4 DEF Changed
  <2>2. Changed(buf, buf', Real) /\ \A e \in Dev : Changed(pq[e], pq'[e], Real \cup {Quit})
    BY DEF Changed
  <2>3. \A e \in Dev : Busy(e)' => held'[e] \in Real
    BY <1>1 DEF Calm, Tensors, Busy
  <2> QED
    BY <2>1, <2>2, <2>3, TensorsKept DEF Calm
<1>10. \E f : Flow(f)'
  <2>1. PICK f : Flow(f)
    BY DEF Calm
  <2>2. N + 1 \in 0 .. N + 1 /\ N + 1 \in N + 1 .. N + 1 /\ N + 1 # 0 /\ ~(N + 1 <= N)
    BY <1>3
  <2>3. Len(buf') + 0 = Len(buf)
    <3>1. Len(buf) \in Nat
      BY <1>2
    <3> QED
      BY <3>1
  <2>4. moves'[N] + Len(out') + (IF N = 1 THEN Len(buf) ELSE 0)
          = moves[N] + Len(out) + (IF N = 1 THEN Len(buf') ELSE 0)
    <3>1. moves[N] \in Nat /\ Len(buf) \in Nat /\ Len(buf') = Len(buf)
      BY <1>2, <1>3
    <3>2. moves'[N] = moves[N] - 1
      BY <1>2, <1>3 DEF Transfer
    <3>3. moves'[N] + Len(out') = moves[N] + Len(out)
      <4>1. PICK m, o : m = moves[N] /\ o = Len(out)
        OBVIOUS
      <4>2. m - 1 + (o + 1) = m + o
        BY <1>6, <3>1, <4>1
      <4> QED
        BY <1>6, <3>2, <4>1, <4>2
    <3> QED
      BY <3>1, <3>3
  <2>5. Running(N)' = Running(N) /\ Running(N) \in Nat
    <3>1. tt' = tt
      BY <1>1 DEF Worked, Beside
    <3>2. progs[N] \in Nat
      BY <1>3 DEF TypeInv, TypeOK
    <3> QED
      BY <1>1, <3>1, <3>2 DEF Running
  <2>6. Running(N)' + (IF N + 1 <= N /\ N <= N + 1 THEN 1 ELSE 0) = Running(N)
    BY <2>2, <2>5
  <2>7. Beside
    BY <1>1 DEF Worked
  <2> QED
    BY <1>1, <1>6, <1>8, <2>1, <2>2, <2>3, <2>4, <2>6, <2>7, FlowShift
<1> QED
  BY <1>9, <1>10 DEF FlowInv

\* A transfer takes an input to the pusher, or an output to the user.
LEMMA TransferFlow ==
  ASSUME TypeInv, TypeInv', Kinds, ~event, Calm, NEW d \in Dev, Transfer(d)
  PROVE  FlowInv'
<1>1. \/ /\ d = 1 /\ buf # <<>>
         /\ pq' = [pq EXCEPT ![d] = Append(@, IF buf = <<>> THEN NoTensors ELSE Head(buf))]
         /\ buf' = If(buf # <<>>, Tail(buf)) /\ UNCHANGED <<data, out>>
      \/ /\ d = N /\ data[N + 1] # <<>>
         /\ out' = Append(out, IF data[N + 1] = <<>> THEN NoTensors ELSE Head(data[N + 1]))
         /\ data' = [data EXCEPT ![N + 1] = If(@ # <<>>, Tail(@))] /\ UNCHANGED <<pq, buf>>
  BY DEF Transfer
<1> QED
  BY <1>1, TransferIn, TransferOut

\* A step beside the commands, without an error.
LEMMA WorkCalm ==
  ASSUME TypeInv, TypeInv', Kinds, ~event, Calm, NEW d \in Dev,
         \/ Forward(d) \/ ThreadsShutDown(d) \/ Close(d) \/ Transfer(d)
         \/ PusherGet(d) \/ InternalPush(d) \/ PushRaises(d) \/ RunProgram(d)
  PROVE  Calm'
<1>1. FlowInv'
  BY QuitFlow, GetFlow, RaiseFlow, PushFlow, RunFlow, ForwardFlow, TransferFlow
<1>2. Worked(d)
  BY WorkedIs
<1>3. SetsSent' /\ PushersSet' /\ Ranges' /\ QuitQueued' /\ QuitDone' /\ Barrier' /\ SyncedIdle'
  BY <1>2, WorkKeeps
<1> QED
  BY <1>1, <1>3 DEF Calm, FlowInv

\* Every step keeps the invariant of an error-free run.
LEMMA QuietStep ==
  ASSUME AnswerInv, QuietInv, [Next]_vars
  PROVE  QuietInv'
<1>1. SUFFICES ASSUME ~event' PROVE Calm'
  BY DEF QuietInv
<1>2. TypeInv /\ TypeInv' /\ Kinds /\ OneRequest
  BY TypeStep DEF AnswerInv
<1>3. phase # "reap" \/ event
  BY DEF QuietInv, Calm, Barrier
<1>4. ~event /\ CalmSteps
  BY <1>1, <1>2, <1>3, CalmIs
<1>5. Calm
  BY <1>4 DEF QuietInv
<1>6. CASE (\E t \in Threads : Send(t) \/ GetResponse(t)) \/ SkipSync
  <2>1. ClientCalm
    BY <1>2, <1>6, ClientIs
  <2> QED
    BY <1>2, <1>4, <1>5, <2>1, ClientKeepsCalm
<1>7. CASE PassBarrier \/ LoopJoined \/ Joined \/ UNCHANGED vars
  BY <1>2, <1>4, <1>5, <1>7, PhaseCalm DEF PhaseStep
<1>8. CASE \E d \in Dev : CommandStep(d)
  BY <1>2, <1>5, <1>8, CommandCalm
<1>9. CASE \E d \in Dev : \/ Forward(d) \/ ThreadsShutDown(d) \/ Close(d) \/ Transfer(d)
                          \/ PusherGet(d) \/ InternalPush(d) \/ PushRaises(d) \/ RunProgram(d)
  BY <1>2, <1>4, <1>5, <1>9, WorkCalm
<1> QED
  BY <1>4, <1>6, <1>7, <1>8, <1>9 DEF CalmSteps

-----------------------------------------------------------------------------
(* What the invariant says of the two properties.                          *)

\* Nothing counted is nothing there.
LEMMA TallyNone ==
  ASSUME NEW T, NEW s \in Seq(T), NEW X
  PROVE  Tally(s, X) = 0 <=> \A i \in DOMAIN s : s[i] \notin X
<1> DEFINE S == {i \in DOMAIN s : s[i] \in X}
<1>1. IsFiniteSet(S)
  BY TallyType
<1>2. Cardinality(S) = 0 <=> S = {}
  BY <1>1, FS_EmptySet
<1>3. S = {} <=> \A i \in DOMAIN s : s[i] \notin X
  OBVIOUS
<1> QED
  BY <1>2, <1>3 DEF Tally

\* What has gone through a place has gone through those before it.
LEMMA Falls ==
  ASSUME NEW f, NEW h, NEW n, NEW m, Sums(f, h, n, m)
  PROVE  /\ \A p \in 0 .. N + 1 : f[p] \in Nat /\ f[p] <= n
         /\ m <= f[N]
         /\ \A p \in Places : h[p] \in Nat /\ f[p - 1] = f[p] + h[p] /\ p - 1 \in 0 .. N + 1 /\ p \in 0 .. N + 1
<1>1. N \in Nat /\ N >= 1 /\ N + 1 \in Nat /\ Places = 1 .. N + 1
  BY Devices DEF Places
<1>2. /\ f \in [0 .. N + 1 -> Nat] /\ h \in [Places -> Nat] /\ f[0] = n /\ f[N + 1] = m
      /\ \A p \in Places : f[p - 1] = f[p] + h[p]
  BY DEF Sums
<1>3. \A p \in Places : h[p] \in Nat /\ f[p - 1] = f[p] + h[p] /\ p - 1 \in 0 .. N + 1 /\ p \in 0 .. N + 1
  BY <1>1, <1>2
<1>4. \A p \in 0 .. N + 1 : f[p] \in Nat
  BY <1>2
<1> DEFINE S == {p \in 0 .. N + 1 : f[p] <= n}
<1>5. 0 \in S
  BY <1>1, <1>2, <1>4
<1>6. ASSUME NEW p \in 1 .. N + 1, p - 1 \in S PROVE p \in S
  <2>1. f[p - 1] = f[p] + h[p] /\ h[p] \in Nat /\ f[p] \in Nat /\ f[p - 1] \in Nat /\ p \in 0 .. N + 1
    BY <1>1, <1>3, <1>4
  <2>2. f[p - 1] <= n /\ n \in Nat
    BY <1>1, <1>2, <1>4, <1>6
  <2>3. f[p] <= n
    BY <2>1, <2>2
  <2> QED
    BY <2>1, <2>3
<1> HIDE DEF S
<1>7. \A p \in 0 .. N + 1 : p \in S
  BY <1>1, <1>5, <1>6, Induct
<1>8. \A p \in 0 .. N + 1 : f[p] <= n
  BY <1>7 DEF S
<1>9. m <= f[N]
  <2>1. N + 1 \in Places /\ N + 1 - 1 = N /\ N \in 0 .. N + 1
    BY <1>1
  <2>2. f[N] = m + h[N + 1] /\ h[N + 1] \in Nat /\ f[N] \in Nat /\ m \in Nat
    BY <1>2, <1>3, <1>4, <2>1
  <2> QED
    BY <2>2
<1> QED
  BY <1>3, <1>4, <1>8, <1>9

\* When all the inputs have gone through the last device nothing is before it.
LEMMA Drained ==
  ASSUME TypeInv, NEW f, Flow(f), f[N] = Inputs, NEW p \in Dev
  PROVE  Holds(p) = 0
<1>1. N \in Nat /\ N >= 1 /\ Dev = 1 .. N /\ Places = 1 .. N + 1
  BY Devices DEF Places
<1>2. Inputs \in Nat /\ Len(buf) \in Nat /\ Len(buf) <= Inputs
  <2>1. Inputs \in Nat
    BY Devices DEF Inputs
  <2> QED
    BY <2>1 DEF Flow, TypeInv, TypeOK
<1>3. PICK h, n, m : h = Contents /\ n = Inputs - Len(buf) /\ m = Len(out)
  OBVIOUS
<1>4. Sums(f, h, n, m) /\ n <= Inputs /\ n \in Int
  BY <1>2, <1>3 DEF Flow
<1>5. /\ \A q \in 0 .. N + 1 : f[q] \in Nat /\ f[q] <= n
      /\ \A q \in Places : h[q] \in Nat /\ f[q - 1] = f[q] + h[q] /\ q - 1 \in 0 .. N + 1 /\ q \in 0 .. N + 1
  BY <1>4, Falls
<1> DEFINE S == {k \in 0 .. N : f[N - k] = Inputs}
<1>6. 0 \in S
  BY <1>1
<1>7. ASSUME NEW k \in 1 .. N, k - 1 \in S PROVE k \in S
  <2>1. f[N - (k - 1)] = Inputs /\ N - (k - 1) \in Places /\ N - (k - 1) - 1 = N - k /\ N - k \in 0 .. N + 1
    BY <1>1, <1>7
  <2>2. f[N - k] = Inputs + h[N - (k - 1)] /\ h[N - (k - 1)] \in Nat
    BY <1>5, <2>1
  <2>3. f[N - k] <= Inputs
    <3>1. f[N - k] <= n /\ f[N - k] \in Nat
      BY <1>5, <2>1
    <3> QED
      BY <1>2, <1>4, <3>1
  <2>4. f[N - k] = Inputs
    BY <1>2, <2>2, <2>3
  <2> QED
    BY <1>1, <2>4
<1> HIDE DEF S
<1>8. \A k \in 0 .. N : k \in S
  BY <1>1, <1>6, <1>7, Induct
<1>9. \A q \in 0 .. N : f[q] = Inputs
  <2> TAKE q \in 0 .. N
  <2>1. N - q \in 0 .. N /\ N - (N - q) = q
    BY <1>1
  <2>2. N - q \in S
    BY <1>8, <2>1
  <2> QED
    BY <2>1, <2>2 DEF S
<1>10. p \in Places /\ p \in 0 .. N /\ p - 1 \in 0 .. N
  BY <1>1
<1>11. f[p - 1] = f[p] + h[p] /\ h[p] \in Nat /\ f[p] = Inputs /\ f[p - 1] = Inputs
  BY <1>5, <1>9, <1>10
<1>12. h[p] = 0
  BY <1>2, <1>11
<1> QED
  BY <1>3, <1>10, <1>12 DEF Contents

\* No command that runs or moves anything is left for the last device.
LEMMA NothingLeft ==
  ASSUME TypeInv, A >= SyncAt, \A i \in DOMAIN cmdq[N] : ~IsRun(cmdq[N][i])
  PROVE  /\ Rest(LastRuns) + Tally(cmdq[N], RunCommands) = 0
         /\ Rest(LastMoves) + Tally(cmdq[N], MoveCommands) = 0
<1>1. Rest(LastRuns) = 0 /\ Rest(LastMoves) = 0
  BY AtFacts, RestIs
<1>2. cmdq[N] \in Seq(Commands)
  BY Devices DEF TypeInv, TypeOK
<1>3. \A i \in DOMAIN cmdq[N] : cmdq[N][i] \notin RunCommands /\ cmdq[N][i] \notin MoveCommands
  BY DEF IsRun, RunCommands, MoveCommands
<1>4. Tally(cmdq[N], RunCommands) = 0 /\ Tally(cmdq[N], MoveCommands) = 0
  BY <1>2, <1>3, TallyNone
<1> QED
  BY <1>1, <1>4

\* A channel that leads to an empty place is empty.
LEMMA EmptyChannel ==
  ASSUME TypeInv, Calm, NEW d \in Pushers, Holds(Target(d)) = 0
  PROVE  ~Busy(d) /\ OnlyQuits(d)
<1>1. /\ d \in Dev /\ Target(d) \in tt /\ Target(d) \in Places /\ Via(Target(d)) = d
  BY OneChannel
<1>2. Len(data[Target(d)]) \in Nat /\ Channel(d) \in Nat /\ pq[d] \in Seq(Int)
  BY <1>1, PlaceIs, ChannelIs
<1>3. Holds(Target(d)) = Len(data[Target(d)]) + Channel(d)
  BY <1>1 DEF Holds
<1>4. Channel(d) = 0
  BY <1>2, <1>3
<1>5. Tally(pq[d], Real) \in Nat
  BY <1>2, TallyType
<1>6. ~Busy(d) /\ Tally(pq[d], Real) = 0
  BY <1>4, <1>5 DEF Channel
<1>7. \A i \in DOMAIN pq[d] : pq[d][i] \notin Real
  BY <1>2, <1>6, TallyNone
<1> QED
  BY <1>1, <1>6, <1>7 DEF OnlyQuits, Calm, Tensors

\* Once sync() has returned every input is through the last device, and so no
\* pusher before it has one left.
LEMMA IdleAtSync ==
  ASSUME AnswerInv, QuietInv
  PROVE  SyncMeansIdle
<1>1. SUFFICES ASSUME synced, ~event, ~training PROVE Idle
  BY DEF SyncMeansIdle
<1>2. TypeInv /\ Kinds /\ Calm
  BY <1>1 DEF AnswerInv, QuietInv
<1>3. A >= QuitAt
  BY <1>1, <1>2 DEF Calm, Ranges
<1>4. \A d \in Dev : IdleNow(d)
  BY <1>1, <1>2 DEF Calm, SyncedIdle, Past
<1>5. \A d \in Dev : ppc[d] # "push" /\ OnlyQuits(d)
  <2>1. PICK f : Flow(f)
    BY <1>2 DEF Calm
  <2>2. CASE NothingRan
    BY <2>2 DEF NothingRan, Quiet
  <2>3. CASE AllRun(f[N])
    <3>1. N \in Dev /\ A >= SyncAt
      BY <1>2, <1>3, AtFacts
    <3>2. \A i \in DOMAIN cmdq[N] : ~IsRun(cmdq[N][i])
      BY <1>4, <3>1 DEF IdleNow, IsRun
    <3>3. Running(N) = 0
      BY <1>4, <3>1 DEF Running, IdleNow
    <3>4. f[N] = Inputs
      <4>1. Rest(LastRuns) + Tally(cmdq[N], RunCommands) + Running(N) + f[N] = Inputs
        BY <2>3 DEF AllRun, RunsIn
      <4>2. f[N] \in Nat
        BY <2>1, <3>1, Devices DEF Flow, Sums
      <4> QED
        BY <1>2, <3>1, <3>2, <3>3, <4>1, <4>2, NothingLeft
    <3>5. \A d \in Pushers : ~Busy(d) /\ OnlyQuits(d)
      BY <1>2, <2>1, <3>4, Drained, OneChannel, EmptyChannel
    <3>6. \A d \in Dev : d \notin Pushers => pq[d] = <<>> /\ ppc[d] = "ended"
      BY <1>2 DEF Kinds
    <3>7. \A d \in Dev : d \notin Pushers => OnlyQuits(d) /\ ppc[d] # "push"
      <4>1. ASSUME NEW d \in Dev, d \notin Pushers PROVE OnlyQuits(d) /\ ppc[d] # "push"
        <5>1. PICK q : q = pq[d]
          OBVIOUS
        <5>2. q = <<>> /\ ppc[d] = "ended"
          BY <3>6, <4>1, <5>1
        <5>3. DOMAIN q = {}
          BY <5>2
        <5> QED
          BY <5>1, <5>2, <5>3 DEF OnlyQuits
      <4> QED
        BY <4>1
    <3> QED
      BY <3>5, <3>7 DEF Busy
  <2> QED
    BY <2>1, <2>2, <2>3 DEF Flow
<1> QED
  BY <1>4, <1>5 DEF Idle, IdleNow, OnlyQuits

\* Devices close only when all of them are at the barrier, and those get there
\* when every input is through the last one: no pusher has a tensor left then.
LEMMA OpenAtPush ==
  ASSUME AnswerInv, QuietInv
  PROVE  PushesHitOpenDevice
<1>1. SUFFICES ASSUME NEW d \in Dev, ppc[d] = "push", ~event
               PROVE  Ready(d) /\ dpc[Target(d)] # "closed"
  BY DEF PushesHitOpenDevice
<1>2. TypeInv /\ Kinds /\ Calm
  BY <1>1 DEF AnswerInv, QuietInv
<1>3. d \in Pushers /\ ~Quiet(d) /\ Busy(d)
  BY <1>1, <1>2 DEF Kinds, Quiet, Busy
<1>4. Ready(d)
  BY <1>2, <1>3 DEF Calm, PushersSet, Tensors, Ready, Real
<1>5. ASSUME dpc[Target(d)] = "closed" PROVE FALSE
  <2>1. Target(d) \in Dev
    BY <1>2, <1>3, OneChannel
  <2>2. \A e \in Dev : AtBarrier(e)
    BY <1>2, <1>5, <2>1 DEF Calm, Barrier, TypeInv, TypeOK
  <2>3. \A e \in Dev : /\ moves[e] = 0 /\ Ended(e)
                       /\ A >= QuitAt + e /\ \A j \in DOMAIN cmdq[e] : cmdq[e][j].cmd = "checkpoint"
    BY <1>2, <2>2 DEF Calm, Barrier, QuitDone, AtBarrier, Ended
  <2>4. /\ N \in Dev /\ N \in Nat /\ N >= 1 /\ A >= SyncAt
        /\ \A i \in DOMAIN cmdq[N] : ~IsRun(cmdq[N][i])
    BY <1>2, <2>3, AtFacts DEF IsRun
  <2>5. PICK f : Flow(f)
    BY <1>2 DEF Calm
  <2>6. AllRun(f[N])
    BY <1>3, <2>5 DEF Flow, NothingRan
  <2>7. Inputs \in Nat /\ Len(buf) \in Nat /\ Len(out) \in Nat /\ Len(buf) <= Inputs
    <3>1. Inputs \in Nat
      BY Devices DEF Inputs
    <3> QED
      BY <1>2, <2>5, <3>1 DEF Flow, TypeInv, TypeOK
  <2>8. /\ f[N] \in Nat /\ f[N] <= Inputs - Len(buf) /\ Len(out) <= f[N]
    <3>1. PICK h, n, m : h = Contents /\ n = Inputs - Len(buf) /\ m = Len(out)
      OBVIOUS
    <3>2. Sums(f, h, n, m)
      BY <2>5, <3>1 DEF Flow
    <3>3. N \in 0 .. N + 1
      BY <2>4
    <3> QED
      BY <3>1, <3>2, <3>3, Falls
  <2>9. f[N] = Inputs
    <3>1. CASE N \in tt
      <4>1. Rest(LastMoves) + Tally(cmdq[N], MoveCommands) + moves[N] + Len(out)
              = Inputs + (IF N = 1 THEN Len(buf) ELSE 0)
        BY <2>6, <3>1 DEF AllRun, MovesIn
      <4>2. Len(out) = Inputs + (IF N = 1 THEN Len(buf) ELSE 0)
        BY <1>2, <2>3, <2>4, <2>7, <4>1, NothingLeft
      <4> QED
        BY <2>7, <2>8, <4>2
    <3>2. CASE N \notin tt
      <4>1. Running(N) = 0
        BY <2>2, <2>4, <3>2 DEF Running, AtBarrier
      <4>2. Rest(LastRuns) + Tally(cmdq[N], RunCommands) + Running(N) + f[N] = Inputs
        BY <2>6 DEF AllRun, RunsIn
      <4> QED
        BY <1>2, <2>4, <2>8, <4>1, <4>2, NothingLeft
    <3> QED
      BY <3>1, <3>2
  <2>10. Holds(Target(d)) = 0
    BY <1>2, <2>1, <2>5, <2>9, Drained
  <2> QED
    BY <1>2, <1>3, <2>10, EmptyChannel
<1> QED
  BY <1>4, <1>5

-----------------------------------------------------------------------------
(* Every state of a run.                                                   *)

\* The inputs are all before the first device, and nothing has gone through it.
LEMMA FlowFirst ==
  ASSUME Init
  PROVE  \E f : Flow(f)
<1> DEFINE f == [k \in 0 .. N + 1 |-> IF k = 0 /\ 1 \notin tt THEN Inputs ELSE 0]
<1>1. TypeInv
  BY InitType
<1>2. /\ N \in Nat /\ N >= 1 /\ Dev = 1 .. N /\ tt \subseteq Dev /\ A = 1
      /\ Places = 1 .. N + 1 /\ InputCount \in Nat
  BY <1>1, AtFacts, Devices DEF Init, A, Threads, Places
<1>3. /\ Inputs \in Nat
      /\ Len(buf) = IF 1 \in tt THEN Inputs ELSE 0
      /\ \A p \in Places : Len(data[p]) = IF p = 1 /\ 1 \notin tt THEN Inputs ELSE 0
      /\ Len(out) = 0
  <2>1. CASE training
    BY <1>2, <2>1 DEF Init, If, Inputs, Places
  <2>2. CASE ~training
    <3> DEFINE s == [i \in 1 .. InputCount |-> i]
    <3>1. s \in Seq(Int) /\ Len(s) = InputCount /\ Len(<<>>) = 0
      BY <1>2
    <3>2. /\ buf = IF 1 \in tt THEN s ELSE <<>>
          /\ data = [p \in 1 .. N + 1 |-> IF p = 1 /\ 1 \notin tt THEN s ELSE <<>>]
          /\ out = <<>> /\ Inputs = InputCount
      BY <2>2 DEF Init, If, Inputs
    <3> HIDE DEF s
    <3> QED
      BY <1>2, <3>1, <3>2
  <2> QED
    BY <2>1, <2>2
<1>4. \A d \in Dev : pq[d] = <<>> /\ cmdq[d] = <<>> /\ progs[d] = 0 /\ moves[d] = 0 /\ dpc[d] = "next" /\ ~Busy(d)
  BY DEF Init, Busy
<1>5. Tally(<<>>, Real) = 0 /\ Tally(<<>>, RunCommands) = 0 /\ Tally(<<>>, MoveCommands) = 0
  BY TallyNone, <<>> \in Seq(Int), DOMAIN <<>> = {}
<1>6. \A p \in Places : Holds(p) = Len(data[p])
  <2>1. SUFFICES ASSUME NEW p \in Places, p \in tt PROVE Channel(Via(p)) = 0
    BY <1>3 DEF Holds
  <2>2. Via(p) \in Dev
    BY <1>2, <2>1 DEF Via
  <2> QED
    BY <1>4, <1>5, <2>2 DEF Channel
<1>7. Sums(f, Contents, Inputs - Len(buf), Len(out))
  <2>1. f \in [0 .. N + 1 -> Nat]
    BY <1>3
  <2>2. Contents \in [Places -> Nat]
    BY <1>3, <1>6 DEF Contents
  <2>3. f[0] = Inputs - Len(buf) /\ f[N + 1] = Len(out)
    BY <1>2, <1>3
  <2>4. \A p \in Places : f[p - 1] = f[p] + Contents[p]
    BY <1>2, <1>3, <1>6 DEF Contents
  <2> HIDE DEF f
  <2> QED
    BY <2>1, <2>2, <2>3, <2>4 DEF Sums
<1>8. f[N] = 0
  BY <1>2
<1>9. AllRun(0)
  <2>1. /\ Rest(LastRuns) = Inputs
        /\ Rest(LastMoves) = IF N = 1 THEN 2 * Inputs ELSE Inputs
    BY <1>2, RestAtFirst
  <2>2. Running(N) = 0 /\ N \in Dev /\ cmdq[N] = <<>> /\ moves[N] = 0
    BY <1>2, <1>4 DEF Running
  <2>3. RunsIn(0)
    BY <1>3, <1>5, <2>1, <2>2 DEF RunsIn
  <2>4. MovesIn
    BY <1>2, <1>3, <1>5, <2>1, <2>2 DEF MovesIn
  <2> QED
    BY <2>3, <2>4 DEF AllRun
<1>10. Len(buf) <= Inputs
  BY <1>3
<1> HIDE DEF f
<1> QED
  BY <1>7, <1>8, <1>9, <1>10 DEF Flow

\* The invariant holds before the first step.
LEMMA InitQuiet ==
  ASSUME Init
  PROVE  QuietInv
<1>1. TypeInv
  BY InitType
<1>2. /\ N \in Nat /\ N >= 1 /\ Dev = 1 .. N /\ tt \subseteq Dev /\ A = 1
      /\ L \in Nat /\ SyncAt \in Nat /\ QuitAt = SyncAt + N /\ L < SyncAt /\ Pushers \subseteq Dev
  BY <1>1, AtFacts DEF Init, A, Threads
<1>3. \A d \in Dev : /\ cmdq[d] = <<>> /\ pq[d] = <<>> /\ progs[d] = 0 /\ moves[d] = 0
                     /\ dpc[d] = "next" /\ ppc[d] \in {"poll", "ended"}
  BY DEF Init
<1>4. phase = "running" /\ synced = FALSE
  BY DEF Init
<1>5. DOMAIN <<>> = {}
  OBVIOUS
<1>6. \A d \in Dev : Quiet(d)
  BY <1>3, <1>5 DEF Quiet, OnlyQuits
<1>7. SetsSent
  BY <1>2 DEF SetsSent, L
<1>8. PushersSet
  BY <1>2, <1>3, <1>5, <1>6 DEF PushersSet, SetFirst
<1>9. Ranges
  BY <1>3, <1>4, <1>5, <1>6 DEF Ranges, NothingRan
<1>10. QuitQueued /\ QuitDone /\ Barrier
  BY <1>3, <1>4, <1>5 DEF QuitQueued, QuitDone, Barrier, Ended, AtBarrier
<1>11. SyncedIdle
  BY <1>3, <1>5 DEF SyncedIdle, IdleNow
<1>12. Tensors
  <2>1. \A i \in 1 .. InputCount : i \in Real
    BY Devices DEF Real, NoTensors, Quit
  <2>2. /\ \A i \in DOMAIN buf : buf[i] \in Real
        /\ \A p \in Places : \A i \in DOMAIN data[p] : data[p][i] \in Real
    BY <1>5, <2>1 DEF Init, If, Places
  <2> QED
    BY <1>3, <1>5, <2>2 DEF Tensors, Busy
<1> QED
  BY <1>7, <1>8, <1>9, <1>10, <1>11, <1>12, FlowFirst DEF QuietInv, Calm

\* In every state of every run without an error, a tensor a pusher has in hand
\* goes to a device that is still open, and the pusher has that device's
\* descriptors, though shutdown() never joins the pusher (pusher_thread_main,
\* _internal_push).
THEOREM OpenAlways == Spec => []PushesHitOpenDevice
<1>1. AnswerInv /\ QuietInv => PushesHitOpenDevice
  BY OpenAtPush
<1> QED
  BY <1>1, InitAnswer, InitQuiet, AnswerStep, QuietStep, PTL DEF Spec

\* In every state of every run without an error of an inference, when sync() has
\* returned every device is through with its commands and its programs, and no
\* pusher has a tensor left to push, whatever sync() asks (_sync,
\* Device.run_next_command).
THEOREM IdleAlways == Spec => []SyncMeansIdle
<1>1. AnswerInv /\ QuietInv => SyncMeansIdle
  BY IdleAtSync
<1> QED
  BY <1>1, InitAnswer, InitQuiet, AnswerStep, QuietStep, PTL DEF Spec
==============================================================================
