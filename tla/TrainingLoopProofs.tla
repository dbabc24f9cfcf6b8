-------------------------- MODULE TrainingLoopProofs --------------------------
(* Training in concurrent mode, for any devices and any run: however far the *)
(* loop thread is ahead, the commands queued for a device are those of its   *)
(* next batches in order, so that batches stay apart and a checkpoint is of  *)
(* one moment.  All of it until something fails.                             *)
EXTENDS TrainingLoop, TLAPS

(* How far a device is in the training: its forward passes, its backward     *)
(* passes and its optimizer steps so far.                                    *)
Positions == Nat \X Nat \X Nat

(* The commands of a training run.                                           *)
Commands ==
  [op : Compute \cup {"checkpoint"}, count : Nat \ {0}, zero_grad : BOOLEAN]

(* Command c is the one to run at position x, and leads to y, where an       *)
(* optimizer step takes P microbatches: forward passes use the weights of    *)
(* their own batch, a backward command takes every forward pass not yet      *)
(* taken and clears the gradient if it begins the batch, and the optimizer   *)
(* steps when its batch is complete.                                         *)
Leads(P, x, c, y) ==
  \/ /\ c.op = "forward" /\ x[3] * P <= x[1] /\ x[1] < x[3] * P + P
     /\ y = <<x[1] + 1, x[2], x[3]>>
  \/ /\ c.op = "backward" /\ x[1] = x[2] + c.count
     /\ x[3] * P <= x[2] /\ x[1] <= x[3] * P + P
     /\ c.zero_grad <=> x[2] = x[3] * P
     /\ y = <<x[1], x[1], x[3]>>
  \/ /\ c.op = "optimizer" /\ x[1] = x[3] * P + P /\ x[2] = x[1]
     /\ y = <<x[1], x[2], x[3] + 1>>
  \/ c.op = "checkpoint" /\ y = x

(* The commands of q lead from a to z.                                       *)
Chain(P, a, q, z) ==
  \E p \in [1 .. Len(q) + 1 -> Positions] :
    /\ p[1] = a /\ p[Len(q) + 1] = z
    /\ \A i \in 1 .. Len(q) : Leads(P, p[i], q[i], p[i + 1])

(* No commands lead nowhere.                                                 *)
LEMMA ChainOfNone ==
  ASSUME NEW P, NEW a \in Positions, NEW z
  PROVE  Chain(P, a, <<>>, z) <=> a = z
<1>1. ASSUME a = z PROVE Chain(P, a, <<>>, z)
  <2> DEFINE p == [i \in 1 .. 1 |-> a]
  <2>1. p \in [1 .. Len(<<>>) + 1 -> Positions] /\ p[1] = a /\ p[Len(<<>>) + 1] = z
    BY <1>1
  <2>2. \A i \in 1 .. Len(<<>>) : FALSE
    OBVIOUS
  <2> HIDE DEF p
  <2> QED
    BY <2>1, <2>2 DEF Chain
<1>2. ASSUME Chain(P, a, <<>>, z) PROVE a = z
  BY <1>2 DEF Chain
<1> QED
  BY <1>1, <1>2

(* The ends of a chain are positions.                                        *)
LEMMA ChainEnds ==
  ASSUME NEW P, NEW a, NEW z, NEW S, NEW q \in Seq(S), Chain(P, a, q, z)
  PROVE  a \in Positions /\ z \in Positions
<1>1. Len(q) \in Nat
  OBVIOUS
<1> QED
  BY <1>1 DEF Chain

(* One command more at the end.                                              *)
LEMMA ChainAppend ==
  ASSUME NEW P, NEW a, NEW z, NEW w \in Positions, NEW S, NEW q \in Seq(S), NEW c \in S,
         Chain(P, a, q, z), Leads(P, z, c, w)
  PROVE  Chain(P, a, Append(q, c), w)
<1> DEFINE n == Len(q)
           r == Append(q, c)
<1>1. /\ n \in Nat /\ r \in Seq(S) /\ Len(r) = n + 1 /\ r[n + 1] = c
      /\ \A i \in 1 .. n : r[i] = q[i]
  OBVIOUS
<1>2. PICK p \in [1 .. n + 1 -> Positions] :
        /\ p[1] = a /\ p[n + 1] = z
        /\ \A i \in 1 .. n : Leads(P, p[i], q[i], p[i + 1])
  BY DEF Chain
<1> HIDE DEF n, r
<1> DEFINE s == [i \in 1 .. n + 1 + 1 |-> IF i = n + 1 + 1 THEN w ELSE p[i]]
<1>3. s \in [1 .. Len(r) + 1 -> Positions]
  BY <1>1, <1>2
<1>4. /\ s[1] = a /\ s[Len(r) + 1] = w /\ s[n + 1] = z
      /\ \A i \in 1 .. n : s[i] = p[i] /\ s[i + 1] = p[i + 1]
  BY <1>1, <1>2
<1> HIDE DEF s
<1>5. \A i \in 1 .. Len(r) : Leads(P, s[i], r[i], s[i + 1])
  <2> SUFFICES ASSUME NEW i \in 1 .. Len(r) PROVE Leads(P, s[i], r[i], s[i + 1])
    OBVIOUS
  <2>1. CASE i \in 1 .. n
    BY <2>1, <1>1, <1>2, <1>4
  <2>2. CASE i = n + 1
    BY <2>2, <1>1, <1>4
  <2> QED
    BY <2>1, <2>2, <1>1
<1>6. Chain(P, a, r, w)
  BY <1>3, <1>4, <1>5 DEF Chain
<1> QED
  BY <1>6 DEF r

(* One command less at the front.                                            *)
LEMMA ChainTail ==
  ASSUME NEW P, NEW a, NEW z, NEW S, NEW q \in Seq(S), q # <<>>, Chain(P, a, q, z)
  PROVE  \E b \in Positions : Leads(P, a, Head(q), b) /\ Chain(P, b, Tail(q), z)
<1> DEFINE n == Len(q)
           r == Tail(q)
<1>1. /\ n \in Nat \ {0} /\ r \in Seq(S) /\ Len(r) = n - 1 /\ Head(q) = q[1]
      /\ \A i \in 1 .. n - 1 : r[i] = q[i + 1]
  OBVIOUS
<1>2. PICK p \in [1 .. n + 1 -> Positions] :
        /\ p[1] = a /\ p[n + 1] = z
        /\ \A i \in 1 .. n : Leads(P, p[i], q[i], p[i + 1])
  BY DEF Chain
<1> HIDE DEF n, r
<1> DEFINE s == [i \in 1 .. n |-> p[i + 1]]
<1>3. s \in [1 .. Len(r) + 1 -> Positions]
  BY <1>1, <1>2
<1>4. /\ s[1] = p[2] /\ s[Len(r) + 1] = z
      /\ \A i \in 1 .. n - 1 : s[i] = p[i + 1] /\ s[i + 1] = p[i + 1 + 1]
  BY <1>1, <1>2
<1> HIDE DEF s
<1>5. \A i \in 1 .. Len(r) : Leads(P, s[i], r[i], s[i + 1])
  <2> SUFFICES ASSUME NEW i \in 1 .. n - 1 PROVE Leads(P, s[i], r[i], s[i + 1])
    BY <1>1
  <2>1. i + 1 \in 1 .. n
    BY <1>1
  <2> QED
    BY <2>1, <1>1, <1>2, <1>4
<1>6. p[2] \in Positions /\ Leads(P, a, q[1], p[2])
  BY <1>1, <1>2
<1>7. Chain(P, p[2], r, z)
  BY <1>3, <1>4, <1>5 DEF Chain
<1> QED
  BY <1>1, <1>6, <1>7 DEF r

(* One command more at the front.                                            *)
LEMMA ChainPush ==
  ASSUME NEW P, NEW a \in Positions, NEW b, NEW z, NEW S, NEW q \in Seq(S), NEW c \in S,
         Leads(P, a, c, b), Chain(P, b, q, z)
  PROVE  Chain(P, a, <<c>> \o q, z)
<1> DEFINE n == Len(q)
           r == <<c>> \o q
<1>1. /\ n \in Nat /\ r \in Seq(S) /\ Len(r) = n + 1 /\ r[1] = c
      /\ \A i \in 1 .. n : r[i + 1] = q[i]
  OBVIOUS
<1>2. PICK p \in [1 .. n + 1 -> Positions] :
        /\ p[1] = b /\ p[n + 1] = z
        /\ \A i \in 1 .. n : Leads(P, p[i], q[i], p[i + 1])
  BY DEF Chain
<1> HIDE DEF n, r
<1> DEFINE s == [i \in 1 .. n + 1 + 1 |-> IF i = 1 THEN a ELSE p[i - 1]]
<1>3. s \in [1 .. Len(r) + 1 -> Positions]
  BY <1>1, <1>2
<1>4. /\ s[1] = a /\ s[2] = b /\ s[Len(r) + 1] = z
      /\ \A i \in 1 .. n : s[i + 1] = p[i] /\ s[i + 1 + 1] = p[i + 1]
  BY <1>1, <1>2
<1> HIDE DEF s
<1>5. \A i \in 1 .. Len(r) : Leads(P, s[i], r[i], s[i + 1])
  <2> SUFFICES ASSUME NEW i \in 1 .. n + 1 PROVE Leads(P, s[i], r[i], s[i + 1])
    BY <1>1
  <2>1. CASE i = 1
    BY <2>1, <1>1, <1>4
  <2>2. CASE i # 1
    <3> DEFINE j == i - 1
    <3>1. j \in 1 .. n /\ i = j + 1
      BY <2>2, <1>1
    <3> HIDE DEF j
    <3> QED
      BY <3>1, <1>1, <1>2, <1>4
  <2> QED
    BY <2>1, <2>2
<1>6. Chain(P, a, r, z)
  BY <1>3, <1>4, <1>5 DEF Chain
<1> QED
  BY <1>6 DEF r

(* The consecutive microbatches after a, up to b.                            *)
Stretch(q, a, b) ==
  /\ Len(q) = b - a
  /\ \A i \in 1 .. Len(q) : q[i] = a + i

(* Adding the next microbatch to a stretch.                                  *)
LEMMA StretchAppend ==
  ASSUME NEW q \in Seq(Nat), NEW a \in Nat, NEW b \in Nat, Stretch(q, a, b)
  PROVE  Append(q, b + 1) \in Seq(Nat) /\ Stretch(Append(q, b + 1), a, b + 1)
<1>1. /\ Len(q) \in Nat /\ Append(q, b + 1) \in Seq(Nat)
      /\ Len(Append(q, b + 1)) = Len(q) + 1
      /\ Append(q, b + 1)[Len(q) + 1] = b + 1
      /\ \A i \in 1 .. Len(q) : Append(q, b + 1)[i] = q[i]
  OBVIOUS
<1> QED
  BY <1>1 DEF Stretch

(* Taking the first microbatch of a stretch.                                 *)
LEMMA StretchTail ==
  ASSUME NEW q \in Seq(Nat), NEW a \in Nat, NEW b \in Nat, Stretch(q, a, b), q # <<>>
  PROVE  /\ Head(q) = a + 1 /\ Tail(q) \in Seq(Nat) /\ Stretch(Tail(q), a + 1, b)
         /\ a < b
<1>1. /\ Len(q) \in Nat \ {0} /\ Tail(q) \in Seq(Nat) /\ Len(Tail(q)) = Len(q) - 1
      /\ Head(q) = q[1]
      /\ \A i \in 1 .. Len(q) - 1 : Tail(q)[i] = q[i + 1]
  OBVIOUS
<1> QED
  BY <1>1 DEF Stretch

(* The quotient of a number within a batch.                                  *)
LEMMA BatchOf ==
  ASSUME NEW P \in Nat \ {0}, NEW V \in Nat, NEW F \in Nat,
         V * P <= F, F < V * P + P
  PROVE  F \div P = V
<1> DEFINE D == F \div P
<1>1. D \in Int /\ P * D <= F /\ F < P * D + P
  OBVIOUS
<1> HIDE DEF D
<1>2. CASE D <= V - 1
  <2>1. P * D <= P * (V - 1)
    BY <1>1, <1>2
  <2> QED
    BY <2>1, <1>1
<1>3. CASE D >= V + 1
  <2>1. P * D >= P * (V + 1)
    BY <1>1, <1>3
  <2> QED
    BY <2>1, <1>1
<1> QED
  BY <1>1, <1>2, <1>3 DEF D

(* The backward passes of device d so far.                                   *)
Done(d) == fwd[d] - Len(saved[d])

(* The position of device d.                                                 *)
Reached(d) == <<fwd[d], Done(d), version[d]>>

(* The position that the commands sent so far lead device d to.              *)
Sent(d) ==
  LET batch == steps * PerStep
      mini  == batch + at.mini * run.microbatches
      next  == batch + (at.mini + 1) * run.microbatches
  IN  CASE lpc = "forward" ->
             <<mini + (IF d < at.dev THEN at.micro ELSE at.micro - 1), mini, steps>>
        [] lpc = "backward" -> <<next, IF d > at.dev THEN next ELSE mini, steps>>
        [] lpc = "optimizer" ->
             <<batch + PerStep, batch + PerStep, IF d < at.dev THEN steps + 1 ELSE steps>>
        [] OTHER -> <<batch, batch, steps>>

(* The run, and the types of the queues and the data.                        *)
TypeInv ==
  /\ run \in [epochs : Nat \ {0}, steps : Nat \ {0}, accumulation : Nat \ {0},
              microbatches : Nat \ {0}, interval : Nat, scheduler : BOOLEAN]
  /\ jobs \in [Dev -> Seq(Commands)] /\ cmdq \in [Dev -> Seq(Commands)]
  /\ DOMAIN resp = Dev /\ DOMAIN grad = Dev
  /\ acts \in [Dev -> Seq(Nat)] /\ saved \in [Dev -> Seq(Nat)]
  /\ grads \in [Dev -> Seq(Nat)]
  /\ fwd \in [Dev -> Nat] /\ version \in [Dev -> Nat]

(* The loop thread.                                                          *)
LoopInv ==
  /\ lpc \in {"forward", "backward", "optimizer", "checkpoint", "epoch", "final", "done"}
  /\ at \in [epoch : Nat, batch : Nat, mini : Nat, micro : Nat \ {0}, dev : Dev]
  /\ at.mini < run.accumulation /\ at.micro <= run.microbatches
  /\ lpc # "forward" => at.micro = 1
  /\ lpc \notin {"forward", "backward"} => at.mini = 0
  /\ lpc = "epoch" => at.dev = 1
  /\ steps \in Nat
  /\ asked \in BOOLEAN /\ (asked => lpc \in {"checkpoint", "final"})

(* What is queued for a device takes it from where it is to where the loop   *)
(* thread wants it.                                                          *)
QueueInv ==
  \A d \in Dev :
    /\ d \notin TTDevices => jobs[d] = <<>>
    /\ \E mid \in Positions : /\ Chain(PerStep, Reached(d), jobs[d], mid)
                              /\ Chain(PerStep, mid, cmdq[d], Sent(d))

(* Device d has a gradient of the batch it is in.                            *)
Summed(d) == version[d] * PerStep < Done(d)

(* The activations, forward passes and gradients between the devices are     *)
(* those of consecutive microbatches, and a gradient is that of the          *)
(* microbatches of the batch so far.                                         *)
DataInv ==
  \A d \in Dev :
    /\ Done(d) \in Nat
    /\ Stretch(saved[d], Done(d), fwd[d])
    /\ IF d = 1 THEN acts[d] = <<>> ELSE Stretch(acts[d], fwd[d], fwd[d - 1])
    /\ IF d = N THEN grads[d] = <<>> ELSE Stretch(grads[d], Done(d), Done(d + 1))
    /\ Summed(d) => grad[d] = [i \in 1 .. Done(d) - version[d] * PerStep |->
                                 <<version[d] * PerStep + i, version[d] * PerStep + i>>]

(* A request for a checkpoint is the last command of its device, and the     *)
(* answers so far are of this step.                                          *)
CheckpointInv ==
  /\ \A d \in Dev :
       /\ \A i \in 1 .. Len(jobs[d]) : jobs[d][i].op # "checkpoint"
       /\ \A i \in 1 .. Len(cmdq[d]) : cmdq[d][i].op = "checkpoint" =>
            asked /\ d = at.dev /\ i = Len(cmdq[d]) /\ resp[d] = <<>>
       /\ resp[d] # <<>> => asked /\ d = at.dev /\ resp[d] = <<steps>>
  /\ parts = IF lpc \in {"checkpoint", "final"}
             THEN [i \in 1 .. at.dev - 1 |-> steps] ELSE <<>>

(* Everything that holds until something fails.                              *)
Inner == TypeInv /\ LoopInv /\ QueueInv /\ DataInv /\ CheckpointInv

(* The inductive invariant: it holds until something fails.                  *)
IInv == ~event => Inner

------------------------------------------------------------------------------
(* The microbatches of a mini-batch and of an optimizer step.                *)
LEMMA StepSizes ==
  ASSUME TypeInv, LoopInv
  PROVE  /\ PerStep \in Nat \ {0} /\ run.microbatches \in Nat \ {0}
         /\ steps \in Nat /\ steps * PerStep \in Nat
         /\ at.mini \in Nat /\ at.mini * run.microbatches \in Nat
         /\ (at.mini + 1) * run.microbatches = at.mini * run.microbatches + run.microbatches
         /\ at.mini * run.microbatches + run.microbatches <= PerStep
         /\ at.mini + 1 = run.accumulation
              => at.mini * run.microbatches + run.microbatches = PerStep
         /\ at.mini = 0 <=> at.mini * run.microbatches = 0
         /\ (steps + 1) * PerStep = steps * PerStep + PerStep
         /\ at.micro \in Nat \ {0} /\ at.micro <= run.microbatches
         /\ at.dev \in Dev /\ N \in Nat \ {0}
<1> DEFINE A == run.accumulation
           M == run.microbatches
           j == at.mini
<1>1. A \in Nat \ {0} /\ M \in Nat \ {0} /\ j \in Nat /\ j + 1 <= A /\ steps \in Nat
  BY DEF TypeInv, LoopInv
<1>2. PerStep = A * M
  BY DEF PerStep
<1>3. at.micro \in Nat \ {0} /\ at.micro <= run.microbatches /\ at.dev \in Dev
  BY DEF LoopInv
<1> HIDE DEF A, M, j
<1>4. A * M \in Nat \ {0} /\ j * M \in Nat /\ (j + 1) * M = j * M + M
  BY <1>1
<1>5. (j + 1) * M <= A * M
  BY <1>1
<1>6. j = 0 <=> j * M = 0
  BY <1>1
<1>7. steps * (A * M) \in Nat /\ (steps + 1) * (A * M) = steps * (A * M) + A * M
  BY <1>1, <1>4
<1>8. j + 1 = A => (j + 1) * M = A * M
  OBVIOUS
<1>9. PerStep \in Nat \ {0} /\ steps * PerStep \in Nat
      /\ (steps + 1) * PerStep = steps * PerStep + PerStep
  BY <1>2, <1>4, <1>7
<1>10. j * M + M <= PerStep /\ (j + 1 = A => j * M + M = PerStep)
  BY <1>2, <1>4, <1>5, <1>8
<1> QED
  BY <1>1, <1>3, <1>4, <1>6, <1>9, <1>10, TrainingAssumption DEF A, M, j

(* What is meant for a device, phase by phase.                               *)
LEMMA SentIn ==
  ASSUME TypeInv, LoopInv, NEW d \in Dev
  PROVE  /\ lpc = "forward" =>
              Sent(d) = <<steps * PerStep + at.mini * run.microbatches
                            + (IF d < at.dev THEN at.micro ELSE at.micro - 1),
                          steps * PerStep + at.mini * run.microbatches, steps>>
         /\ lpc = "backward" =>
              Sent(d) = <<steps * PerStep + at.mini * run.microbatches + run.microbatches,
                          IF d > at.dev
                          THEN steps * PerStep + at.mini * run.microbatches + run.microbatches
                          ELSE steps * PerStep + at.mini * run.microbatches, steps>>
         /\ lpc = "optimizer" =>
              Sent(d) = <<steps * PerStep + PerStep, steps * PerStep + PerStep,
                          IF d < at.dev THEN steps + 1 ELSE steps>>
         /\ lpc \notin {"forward", "backward", "optimizer"} =>
              Sent(d) = <<steps * PerStep, steps * PerStep, steps>>
         /\ Sent(d) \in Positions
<1>1. (at.mini + 1) * run.microbatches = at.mini * run.microbatches + run.microbatches
      /\ steps * PerStep \in Nat /\ at.mini * run.microbatches \in Nat
      /\ run.microbatches \in Nat /\ steps \in Nat /\ PerStep \in Nat
      /\ at.micro \in Nat \ {0} /\ at.dev \in Dev
  BY StepSizes
<1>2. steps * PerStep + (at.mini * run.microbatches + run.microbatches)
        = steps * PerStep + at.mini * run.microbatches + run.microbatches
  BY <1>1
<1>3. CASE lpc = "forward"
  <2>1. Sent(d) = <<steps * PerStep + at.mini * run.microbatches
                      + (IF d < at.dev THEN at.micro ELSE at.micro - 1),
                    steps * PerStep + at.mini * run.microbatches, steps>>
    BY <1>3 DEF Sent
  <2>2. (IF d < at.dev THEN at.micro ELSE at.micro - 1) \in Nat
    BY <1>1
  <2>3. Sent(d) \in Positions
    BY <2>1, <2>2, <1>1 DEF Positions
  <2> QED
    BY <1>3, <2>1, <2>3
<1>4. CASE lpc = "backward"
  BY <1>4, <1>1, <1>2 DEF Sent, Positions
<1>5. CASE lpc = "optimizer"
  BY <1>5, <1>1 DEF Sent, Positions
<1>6. CASE lpc \notin {"forward", "backward", "optimizer"}
  BY <1>6, <1>1 DEF Sent, Positions
<1> QED
  BY <1>3, <1>4, <1>5, <1>6

------------------------------------------------------------------------------
(* A checkpoint in the queue is one that is asked for.                       *)
LEMMA NoneAsked ==
  ASSUME CheckpointInv, ~asked, NEW d \in Dev
  PROVE  /\ \A i \in 1 .. Len(cmdq[d]) : cmdq[d][i].op # "checkpoint"
         /\ resp[d] = <<>>
BY DEF CheckpointInv

(* What the devices have done stays done.                                    *)
LEMMA DataStays ==
  ASSUME UNCHANGED <<run, data>>
  PROVE  /\ PerStep' = PerStep
         /\ \A d : Done(d)' = Done(d) /\ Reached(d)' = Reached(d)
         /\ DataInv => DataInv'
<1>1. PerStep' = PerStep
  BY DEF PerStep
<1>2. \A d : Done(d)' = Done(d)
  BY DEF Done, data
<1>3. \A d : Reached(d)' = Reached(d)
  BY <1>2 DEF Reached, data
<1>4. \A d : Summed(d)' <=> Summed(d)
  BY <1>1, <1>2 DEF Summed, data
<1>5. DataInv => DataInv'
  BY <1>1, <1>2, <1>4 DEF DataInv, data
<1> QED
  BY <1>1, <1>2, <1>3, <1>5

(* The loop thread sends command c to device e: it is the one the device     *)
(* must run after those sent before.                                         *)
PushStep(e, c) ==
  /\ cmdq' = [cmdq EXCEPT ![e] = Append(@, c)]
  /\ UNCHANGED <<run, resp, jobs, data>>
  /\ Leads(PerStep, Sent(e), c, Sent(e)') /\ Sent(e)' \in Positions
  /\ \A d \in Dev \ {e} : Sent(d)' = Sent(d)

(* A command that is sent prolongs the chain of its device.                  *)
LEMMA PushQueues ==
  ASSUME Inner, NEW e \in Dev, NEW c \in Commands, PushStep(e, c)
  PROVE  TypeInv' /\ QueueInv' /\ DataInv'
<1>1. /\ cmdq' = [cmdq EXCEPT ![e] = Append(@, c)]
      /\ UNCHANGED <<run, resp, jobs, data>>
      /\ Leads(PerStep, Sent(e), c, Sent(e)') /\ Sent(e)' \in Positions
      /\ \A d \in Dev \ {e} : Sent(d)' = Sent(d)
  BY DEF PushStep
<1>2. cmdq \in [Dev -> Seq(Commands)] /\ jobs \in [Dev -> Seq(Commands)]
  BY DEF Inner, TypeInv
<1>3. /\ PerStep' = PerStep /\ DataInv'
      /\ \A d : Reached(d)' = Reached(d)
  BY <1>1, DataStays DEF Inner
<1>4. /\ cmdq'[e] = Append(cmdq[e], c) /\ cmdq[e] \in Seq(Commands)
      /\ \A d \in Dev \ {e} : cmdq'[d] = cmdq[d]
      /\ cmdq' \in [Dev -> Seq(Commands)]
  BY <1>1, <1>2
<1>5. TypeInv'
  BY <1>1, <1>4 DEF Inner, TypeInv, data
<1>6. ASSUME NEW d \in Dev
      PROVE  \E mid \in Positions : /\ Chain(PerStep, Reached(d), jobs[d], mid)
                                    /\ Chain(PerStep, mid, cmdq'[d], Sent(d)')
  <2>1. PICK mid \in Positions : /\ Chain(PerStep, Reached(d), jobs[d], mid)
                                 /\ Chain(PerStep, mid, cmdq[d], Sent(d))
    BY DEF Inner, QueueInv
  <2>2. CASE d = e
    <3>1. Chain(PerStep, mid, Append(cmdq[e], c), Sent(e)')
      BY <2>1, <2>2, <1>1, <1>4, ChainAppend
    <3> QED
      BY <3>1, <2>1, <2>2, <1>4
  <2>3. CASE d # e
    BY <2>1, <2>3, <1>1, <1>4
  <2> QED
    BY <2>2, <2>3
<1>7. QueueInv'
  BY <1>1, <1>3, <1>6 DEF Inner, QueueInv
<1> QED
  BY <1>3, <1>5, <1>7

(* A command of a pass or a step is no request for a checkpoint.             *)
LEMMA PushAsksNothing ==
  ASSUME Inner, NEW e \in Dev, NEW c \in Commands, PushStep(e, c),
         c.op # "checkpoint", ~asked, ~asked', parts' = parts, parts = <<>>,
         lpc' \in {"checkpoint", "final"} => at'.dev = 1
  PROVE  CheckpointInv'
<1>1. /\ cmdq' = [cmdq EXCEPT ![e] = Append(@, c)]
      /\ UNCHANGED <<resp, jobs>>
  BY DEF PushStep
<1>2. cmdq \in [Dev -> Seq(Commands)] /\ CheckpointInv
  BY DEF Inner, TypeInv
<1>3. \A d \in Dev : \A i \in 1 .. Len(cmdq'[d]) : cmdq'[d][i].op # "checkpoint"
  <2> SUFFICES ASSUME NEW d \in Dev, NEW i \in 1 .. Len(cmdq'[d])
               PROVE  cmdq'[d][i].op # "checkpoint"
    OBVIOUS
  <2>1. CASE d # e
    <3>1. cmdq'[d] = cmdq[d]
      BY <2>1, <1>1, <1>2
    <3> QED
      BY <3>1, <1>2, NoneAsked
  <2>2. CASE d = e
    <3>1. cmdq'[d] = Append(cmdq[d], c) /\ cmdq[d] \in Seq(Commands)
      BY <2>2, <1>1, <1>2
    <3>2. /\ Len(cmdq[d]) \in Nat /\ Len(cmdq'[d]) = Len(cmdq[d]) + 1
          /\ \A k \in 1 .. Len(cmdq[d]) : cmdq'[d][k] = cmdq[d][k]
          /\ cmdq'[d][Len(cmdq[d]) + 1] = c
      BY <3>1
    <3>3. CASE i = Len(cmdq[d]) + 1
      BY <3>2, <3>3
    <3>4. CASE i # Len(cmdq[d]) + 1
      <4>1. i \in 1 .. Len(cmdq[d])
        BY <3>2, <3>4
      <4> QED
        BY <4>1, <3>2, <1>2, NoneAsked
    <3> QED
      BY <3>3, <3>4
  <2> QED
    BY <2>1, <2>2
<1>4. \A d \in Dev : resp[d] = <<>>
  BY <1>2, NoneAsked
<1>5. [i \in 1 .. 0 |-> steps'] = <<>>
  OBVIOUS
<1>6. parts' = IF lpc' \in {"checkpoint", "final"}
               THEN [i \in 1 .. at'.dev - 1 |-> steps'] ELSE <<>>
  BY <1>5
<1> QED
  BY <1>1, <1>2, <1>3, <1>4, <1>6 DEF CheckpointInv

(* Phases in which nothing is collected.                                     *)
LEMMA NoParts ==
  ASSUME Inner, lpc \notin {"checkpoint", "final"}
  PROVE  ~asked /\ parts = <<>>
BY DEF Inner, LoopInv, CheckpointInv

(* A forward pass is sent.                                                   *)
LEMMA PushForwardKeeps == ASSUME Inner, PushForward PROVE Inner'
<1>1. /\ lpc = "forward"
      /\ Send(at.dev, Command("forward"))
      /\ \/ /\ at.dev < N
            /\ Goto("forward", [at EXCEPT !.dev = @ + 1])
         \/ /\ at.dev = N /\ at.micro < run.microbatches
            /\ Goto("forward", [at EXCEPT !.dev = 1, !.micro = @ + 1])
         \/ /\ at.dev = N /\ at.micro = run.microbatches
            /\ Goto("backward", [at EXCEPT !.micro = 1])
      /\ UNCHANGED <<run, steps, checkpointed, asked, parts, checkpoints, resp,
                     jobs, data, alive, dead, event>>
  BY DEF PushForward
<1>2. TypeInv /\ LoopInv
  BY DEF Inner
<1>3. at \in [epoch : Nat, batch : Nat, mini : Nat, micro : Nat \ {0}, dev : Dev]
      /\ at.mini < run.accumulation
  BY <1>2 DEF LoopInv
<1> DEFINE P == PerStep
           M == run.microbatches
           s == steps * PerStep
           j == at.mini * run.microbatches
<1>4. /\ P \in Nat \ {0} /\ M \in Nat \ {0} /\ s \in Nat /\ j \in Nat
      /\ steps \in Nat
      /\ at.micro \in Nat \ {0} /\ at.micro <= M /\ j + M <= P
      /\ at.dev \in Dev /\ N \in Nat \ {0}
  BY <1>2, StepSizes
<1>5. run' = run /\ steps' = steps /\ PerStep' = PerStep
  BY <1>1 DEF PerStep
<1>6. /\ at' \in [epoch : Nat, batch : Nat, mini : Nat, micro : Nat \ {0}, dev : Dev]
      /\ at'.mini = at.mini /\ lpc' \in {"forward", "backward"}
      /\ at'.micro <= run.microbatches /\ (lpc' # "forward" => at'.micro = 1)
  <2>1. 1 \in Dev
    BY <1>4 DEF Dev
  <2>2. at.dev < N => at.dev + 1 \in Dev
    BY <1>4 DEF Dev
  <2>3. 1 <= run.microbatches
    BY <1>4
  <2>4. CASE at.dev < N /\ Goto("forward", [at EXCEPT !.dev = @ + 1])
    <3>1. at' = [at EXCEPT !.dev = @ + 1] /\ lpc' = "forward"
      BY <2>4 DEF Goto
    <3>2. at.dev + 1 \in Dev
      BY <2>2, <2>4
    <3> QED
      BY <3>1, <3>2, <1>3, <1>4
  <2>5. CASE /\ at.dev = N /\ at.micro < run.microbatches
             /\ Goto("forward", [at EXCEPT !.dev = 1, !.micro = @ + 1])
    <3>1. at' = [at EXCEPT !.dev = 1, !.micro = @ + 1] /\ lpc' = "forward"
      BY <2>5 DEF Goto
    <3>2. at.micro + 1 \in Nat \ {0} /\ at.micro + 1 <= run.microbatches
      BY <2>5, <1>4
    <3> QED
      BY <2>1, <3>1, <3>2, <1>3
  <2>6. CASE /\ at.dev = N /\ at.micro = run.microbatches
             /\ Goto("backward", [at EXCEPT !.micro = 1])
    BY <2>3, <2>6, <1>3, <1>4 DEF Goto
  <2> QED
    BY <2>4, <2>5, <2>6, <1>1
<1>7. LoopInv'
  BY <1>1, <1>2, <1>3, <1>5, <1>6 DEF LoopInv
<1>8. PICK e \in Dev : e = at.dev
  BY <1>4
<1>9. \A d \in Dev :
        Sent(d) = <<s + j + (IF d < at.dev THEN at.micro ELSE at.micro - 1), s + j, steps>>
  BY <1>1, <1>2, SentIn
<1>10. \A d \in Dev :
        /\ lpc' = "forward" =>
             Sent(d)' = <<s + j + (IF d < at'.dev THEN at'.micro ELSE at'.micro - 1),
                          s + j, steps>>
        /\ lpc' = "backward" =>
             Sent(d)' = <<s + (at.mini + 1) * M,
                          IF d > at'.dev THEN s + (at.mini + 1) * M ELSE s + j, steps>>
  BY <1>5, <1>6 DEF Sent
<1>11. (at.mini + 1) * M = j + M
  BY <1>2, StepSizes
<1> HIDE DEF P, M, s, j
<1>12. \A d \in Dev : d \in Int /\ 1 <= d /\ d <= N
  BY <1>4 DEF Dev
<1>13. Sent(e) = <<s + j + (at.micro - 1), s + j, steps>>
  BY <1>8, <1>9, <1>12
<1>14. Sent(e)' = <<s + j + at.micro, s + j, steps>>
       /\ \A d \in Dev \ {e} : Sent(d)' = Sent(d)
  <2>1. CASE at.dev < N /\ Goto("forward", [at EXCEPT !.dev = @ + 1])
    <3>1. lpc' = "forward" /\ at'.dev = at.dev + 1 /\ at'.micro = at.micro
      BY <2>1, <1>3 DEF Goto
    <3>2. \A d \in Dev : Sent(d)' = <<s + j + (IF d < at.dev + 1 THEN at.micro ELSE at.micro - 1),
                                      s + j, steps>>
      BY <3>1, <1>10
    <3>3. e < at.dev + 1 /\ \A d \in Dev \ {e} : d < at.dev + 1 <=> d < at.dev
      BY <1>8, <1>12
    <3> QED
      BY <3>2, <3>3, <1>9
  <2>2. CASE /\ at.dev = N /\ at.micro < run.microbatches
             /\ Goto("forward", [at EXCEPT !.dev = 1, !.micro = @ + 1])
    <3>1. lpc' = "forward" /\ at'.dev = 1 /\ at'.micro = at.micro + 1
      BY <2>2, <1>3 DEF Goto
    <3>2. \A d \in Dev : Sent(d)' = <<s + j + at.micro, s + j, steps>>
      BY <3>1, <1>4, <1>10, <1>12
    <3>3. \A d \in Dev \ {e} : d < at.dev
      BY <2>2, <1>8, <1>12
    <3> QED
      BY <3>2, <3>3, <1>9
  <2>3. CASE /\ at.dev = N /\ at.micro = run.microbatches
             /\ Goto("backward", [at EXCEPT !.micro = 1])
    <3>1. lpc' = "backward" /\ at'.dev = N /\ at.micro = M
      BY <2>3, <1>3 DEF Goto, M
    <3>5. \A d \in Dev : ~(d > at'.dev)
      BY <3>1, <1>4, <1>12
    <3>2. \A d \in Dev : Sent(d)' = <<s + (j + M), s + j, steps>>
      BY <3>1, <3>5, <1>10, <1>11
    <3>3. s + (j + M) = s + j + at.micro
      BY <3>1, <1>4
    <3>4. \A d \in Dev \ {e} : d < at.dev
      BY <2>3, <1>8, <1>12
    <3> QED
      BY <3>2, <3>3, <3>4, <1>9
  <2> QED
    BY <2>1, <2>2, <2>3, <1>1
<1>15. Leads(P, Sent(e), Command("forward"), Sent(e)')
  <2>1. /\ s + j + (at.micro - 1) >= s /\ s + j + (at.micro - 1) < s + P
        /\ s + j + (at.micro - 1) + 1 = s + j + at.micro
    BY <1>4
  <2> QED
    BY <2>1, <1>13, <1>14 DEF Leads, Command, s, P
<1>16. Sent(e)' \in Positions
  BY <1>4, <1>14 DEF Positions
<1>17. PushStep(e, Command("forward"))
  BY <1>1, <1>8, <1>14, <1>15, <1>16 DEF PushStep, Send, P
<1>18. Command("forward") \in Commands /\ Command("forward").op # "checkpoint"
  BY DEF Command, Commands, Compute
<1>19. CheckpointInv'
  BY <1>1, <1>6, <1>17, <1>18, NoParts, PushAsksNothing
<1> QED
  BY <1>7, <1>17, <1>18, <1>19, PushQueues DEF Inner

(* A backward pass of a mini-batch is sent.                                  *)
LEMMA PushBackwardKeeps == ASSUME Inner, PushBackward PROVE Inner'
<1> DEFINE c == Backward(run.microbatches, zero_grad)
           P == PerStep
           M == run.microbatches
           s == steps * PerStep
           j == at.mini * run.microbatches
<1>1. /\ lpc = "backward"
      /\ Send(at.dev, c)
      /\ \/ /\ at.dev > 1
            /\ Goto("backward", [at EXCEPT !.dev = @ - 1])
         \/ /\ at.dev = 1 /\ MiniBatchesLeft
            /\ Goto("forward", [at EXCEPT !.mini = @ + 1])
         \/ /\ at.dev = 1 /\ ~MiniBatchesLeft
            /\ Goto("optimizer", [at EXCEPT !.mini = 0])
      /\ UNCHANGED <<run, steps, checkpointed, asked, parts, checkpoints, resp,
                     jobs, data, alive, dead, event>>
  BY DEF PushBackward
<1>2. TypeInv /\ LoopInv
  BY DEF Inner
<1>3. at \in [epoch : Nat, batch : Nat, mini : Nat, micro : Nat \ {0}, dev : Dev]
      /\ at.mini < run.accumulation /\ at.micro = 1 /\ run.accumulation \in Nat \ {0}
  BY <1>1, <1>2 DEF LoopInv, TypeInv
<1>4. /\ P \in Nat \ {0} /\ M \in Nat \ {0} /\ s \in Nat /\ j \in Nat
      /\ steps \in Nat /\ at.mini \in Nat
      /\ j + M <= P /\ (at.mini = 0 <=> j = 0)
      /\ (at.mini + 1 = run.accumulation => j + M = P)
      /\ (steps + 1) * P = s + P
      /\ at.dev \in Dev /\ N \in Nat \ {0}
  BY <1>2, StepSizes
<1>5. run' = run /\ steps' = steps /\ PerStep' = PerStep
  BY <1>1 DEF PerStep
<1>6. /\ at' \in [epoch : Nat, batch : Nat, mini : Nat, micro : Nat \ {0}, dev : Dev]
      /\ lpc' \in {"forward", "backward", "optimizer"}
      /\ at'.mini < run.accumulation /\ at'.micro = 1
      /\ (lpc' = "optimizer" => at'.mini = 0)
  <2>1. CASE at.dev > 1 /\ Goto("backward", [at EXCEPT !.dev = @ - 1])
    <3>1. at' = [at EXCEPT !.dev = @ - 1] /\ lpc' = "backward"
      BY <2>1 DEF Goto
    <3>2. at.dev - 1 \in Dev
      BY <2>1, <1>4 DEF Dev
    <3> QED
      BY <3>1, <3>2, <1>3
  <2>2. CASE at.dev = 1 /\ MiniBatchesLeft /\ Goto("forward", [at EXCEPT !.mini = @ + 1])
    <3>1. at' = [at EXCEPT !.mini = @ + 1] /\ lpc' = "forward"
      BY <2>2 DEF Goto
    <3>2. at.mini + 1 \in Nat /\ at.mini + 1 < run.accumulation
      BY <2>2, <1>3 DEF MiniBatchesLeft
    <3> QED
      BY <3>1, <3>2, <1>3
  <2>3. CASE at.dev = 1 /\ ~MiniBatchesLeft /\ Goto("optimizer", [at EXCEPT !.mini = 0])
    <3>1. at' = [at EXCEPT !.mini = 0] /\ lpc' = "optimizer"
      BY <2>3 DEF Goto
    <3> QED
      BY <3>1, <1>3
  <2> QED
    BY <2>1, <2>2, <2>3, <1>1
<1>7. LoopInv'
  BY <1>1, <1>2, <1>4, <1>5, <1>6 DEF LoopInv
<1>8. PICK e \in Dev : e = at.dev
  BY <1>4
<1>9. \A d \in Dev :
        Sent(d) = <<s + j + M, IF d > at.dev THEN s + j + M ELSE s + j, steps>>
  BY <1>1, <1>2, SentIn
<1>10. \A d \in Dev :
        /\ lpc' = "forward" =>
             Sent(d)' = <<s + at'.mini * M + (IF d < at'.dev THEN 1 ELSE 1 - 1),
                          s + at'.mini * M, steps>>
        /\ lpc' = "backward" =>
             Sent(d)' = <<s + (at'.mini + 1) * M,
                          IF d > at'.dev THEN s + (at'.mini + 1) * M
                          ELSE s + at'.mini * M, steps>>
        /\ lpc' = "optimizer" =>
             Sent(d)' = <<s + P, s + P, IF d < at'.dev THEN steps + 1 ELSE steps>>
  BY <1>5, <1>6 DEF Sent
<1>11. (at.mini + 1) * M = j + M /\ at.mini * M = j
  BY <1>2, StepSizes
<1>12. \A d \in Dev : d \in Int /\ 1 <= d /\ d <= N
  BY <1>4 DEF Dev
<1>13. c.op = "backward" /\ c.count = M /\ (c.zero_grad <=> at.mini = 0) /\ c \in Commands
  BY <1>4 DEF Backward, zero_grad, Commands, Compute
<1> HIDE DEF P, M, s, j, c
<1>14. Sent(e) = <<s + j + M, s + j, steps>>
  BY <1>8, <1>9, <1>12
<1>15. Sent(e)' = <<s + j + M, s + j + M, steps>>
       /\ \A d \in Dev \ {e} : Sent(d)' = Sent(d)
  <2>1. CASE at.dev > 1 /\ Goto("backward", [at EXCEPT !.dev = @ - 1])
    <3>1. lpc' = "backward" /\ at'.dev = at.dev - 1 /\ at'.mini = at.mini
      BY <2>1, <1>3 DEF Goto
    <3>2. \A d \in Dev : Sent(d)' = <<s + (j + M), IF d > at.dev - 1 THEN s + (j + M) ELSE s + j,
                                      steps>>
      BY <3>1, <1>10, <1>11
    <3>3. e > at.dev - 1 /\ \A d \in Dev \ {e} : d > at.dev - 1 <=> d > at.dev
      BY <1>8, <1>12
    <3>4. s + (j + M) = s + j + M
      BY <1>4
    <3> QED
      BY <3>2, <3>3, <3>4, <1>9
  <2>2. CASE at.dev = 1 /\ MiniBatchesLeft /\ Goto("forward", [at EXCEPT !.mini = @ + 1])
    <3>1. lpc' = "forward" /\ at'.dev = 1 /\ at'.mini = at.mini + 1
      BY <2>2, <1>3 DEF Goto
    <3>2. \A d \in Dev : ~(d < at'.dev)
      BY <3>1, <1>12
    <3>3. \A d \in Dev : Sent(d)' = <<s + (j + M) + (1 - 1), s + (j + M), steps>>
      BY <3>1, <3>2, <1>10, <1>11
    <3>4. s + (j + M) = s + j + M /\ s + (j + M) + (1 - 1) = s + j + M
      BY <1>4
    <3>5. \A d \in Dev \ {e} : d > at.dev
      BY <2>2, <1>8, <1>12
    <3> QED
      BY <3>3, <3>4, <3>5, <1>9
  <2>3. CASE at.dev = 1 /\ ~MiniBatchesLeft /\ Goto("optimizer", [at EXCEPT !.mini = 0])
    <3>1. lpc' = "optimizer" /\ at'.dev = 1
      BY <2>3, <1>3 DEF Goto
    <3>2. at.mini + 1 = run.accumulation
      BY <2>3, <1>3 DEF MiniBatchesLeft
    <3>3. s + P = s + j + M
      BY <3>2, <1>4
    <3>4. \A d \in Dev : ~(d < at'.dev)
      BY <3>1, <1>12
    <3>5. \A d \in Dev \ {e} : d > at.dev
      BY <2>3, <1>8, <1>12
    <3> QED
      BY <3>1, <3>3, <3>4, <3>5, <1>9, <1>10
  <2> QED
    BY <2>1, <2>2, <2>3, <1>1
<1>16. Leads(P, Sent(e), c, Sent(e)')
  <2>1. /\ s + j + M = s + j + c.count /\ s <= s + j /\ s + j + M <= s + P
        /\ (s + j = s <=> j = 0)
    BY <1>4, <1>13
  <2>2. s = steps * P
    BY DEF s, P
  <2> QED
    BY <2>1, <2>2, <1>4, <1>13, <1>14, <1>15 DEF Leads
<1>17. Sent(e)' \in Positions
  BY <1>4, <1>15 DEF Positions
<1>18. PushStep(e, c)
  BY <1>1, <1>8, <1>15, <1>16, <1>17 DEF PushStep, Send, P
<1>19. CheckpointInv'
  BY <1>1, <1>6, <1>13, <1>18, NoParts, PushAsksNothing
<1> QED
  BY <1>7, <1>13, <1>18, <1>19, PushQueues DEF Inner

(* Where the commands of the steps so far are sent, and no others.           *)
Between ==
  \/ lpc \notin {"forward", "backward", "optimizer"}
  \/ lpc = "forward" /\ at.mini = 0 /\ at.micro = 1 /\ at.dev = 1

(* Between two batches every device is meant to have finished all of them.   *)
SentWhenBetween ==
  /\ Between /\ N \in Nat
  /\ steps \in Nat /\ PerStep \in Nat /\ run.microbatches \in Nat
  => \A d \in Dev : Sent(d) = <<steps * PerStep, steps * PerStep, steps>>

(* It is so in every state,                                                  *)
LEMMA SentBetween == SentWhenBetween
<1> SUFFICES ASSUME Between, N \in Nat,
                    steps \in Nat, PerStep \in Nat, run.microbatches \in Nat,
                    NEW d \in Dev
             PROVE  Sent(d) = <<steps * PerStep, steps * PerStep, steps>>
  BY DEF SentWhenBetween
<1>1. CASE lpc \notin {"forward", "backward", "optimizer"}
  BY <1>1 DEF Sent
<1>2. CASE lpc = "forward" /\ at.mini = 0 /\ at.micro = 1 /\ at.dev = 1
  <2>1. ~(d < 1)
    BY DEF Dev
  <2>2. 0 * run.microbatches = 0 /\ steps * PerStep \in Nat
    OBVIOUS
  <2>3. Sent(d) = <<steps * PerStep + 0 + (1 - 1), steps * PerStep + 0, steps>>
    BY <1>2, <2>1, <2>2 DEF Sent
  <2> QED
    BY <2>2, <2>3
<1> QED
  BY <1>1, <1>2 DEF Between

(* and in every next one.                                                    *)
LEMMA SentBetweenNext == SentWhenBetween'
BY SentBetween, PTL

(* After an optimizer step, a checkpoint or an epoch: the next batch, or the *)
(* end of the epoch.                                                         *)
LEMMA NextBatchGoes ==
  ASSUME LoopInv, at.micro = 1, at.mini = 0, NextBatch, N \in Nat \ {0}
  PROVE  /\ lpc' \in {"forward", "epoch"}
         /\ at' \in [epoch : Nat, batch : Nat, mini : Nat, micro : Nat \ {0}, dev : Dev]
         /\ at'.mini = 0 /\ at'.micro = 1 /\ at'.dev = 1
<1>1. at \in [epoch : Nat, batch : Nat, mini : Nat, micro : Nat \ {0}, dev : Dev]
  BY DEF LoopInv
<1>2. 1 \in Dev
  BY DEF Dev
<1>3. \/ lpc' = "forward" /\ at' = [at EXCEPT !.dev = 1, !.batch = @ + 1]
      \/ lpc' = "epoch" /\ at' = [at EXCEPT !.dev = 1, !.batch = 0]
  BY DEF NextBatch, Goto
<1>4. CASE lpc' = "forward" /\ at' = [at EXCEPT !.dev = 1, !.batch = @ + 1]
  <2>1. at.batch + 1 \in Nat
    BY <1>1
  <2> QED
    BY <2>1, <1>1, <1>2, <1>4
<1>5. CASE lpc' = "epoch" /\ at' = [at EXCEPT !.dev = 1, !.batch = 0]
  BY <1>1, <1>2, <1>5
<1> QED
  BY <1>3, <1>4, <1>5

(* An optimizer step is sent.                                                *)
LEMMA PushOptimizerKeeps == ASSUME Inner, PushOptimizer PROVE Inner'
<1> DEFINE c == Command("optimizer")
           P == PerStep
           s == steps * PerStep
<1>1. /\ lpc = "optimizer"
      /\ Send(at.dev, c)
      /\ IF at.dev < N
         THEN Goto("optimizer", [at EXCEPT !.dev = @ + 1]) /\ UNCHANGED steps
         ELSE /\ steps' = steps + 1
              /\ IF run.interval > 0 /\ steps' % run.interval = 0
                 THEN Goto("checkpoint", [at EXCEPT !.dev = 1])
                 ELSE NextBatch
      /\ UNCHANGED <<run, checkpointed, asked, parts, checkpoints, resp, jobs,
                     data, alive, dead, event>>
  BY DEF PushOptimizer
<1>2. TypeInv /\ LoopInv
  BY DEF Inner
<1>3. at \in [epoch : Nat, batch : Nat, mini : Nat, micro : Nat \ {0}, dev : Dev]
      /\ at.mini = 0 /\ at.micro = 1 /\ run.accumulation \in Nat \ {0}
      /\ run.microbatches \in Nat \ {0}
  BY <1>1, <1>2 DEF LoopInv, TypeInv
<1>4. /\ P \in Nat \ {0} /\ s \in Nat /\ steps \in Nat
      /\ (steps + 1) * P = s + P
      /\ at.dev \in Dev /\ N \in Nat \ {0}
  BY <1>2, StepSizes
<1>5. run' = run /\ PerStep' = PerStep
  BY <1>1 DEF PerStep
<1>6. 1 \in Dev /\ \A d \in Dev : d \in Int /\ 1 <= d /\ d <= N
  BY <1>4 DEF Dev
<1>7. PICK e \in Dev : e = at.dev
  BY <1>4
<1>8. \A d \in Dev : Sent(d) = <<s + P, s + P, IF d < at.dev THEN steps + 1 ELSE steps>>
  BY <1>1, <1>2, SentIn
<1>9. /\ Sent(e)' = <<s + P, s + P, steps + 1>>
      /\ \A d \in Dev \ {e} : Sent(d)' = Sent(d)
      /\ LoopInv'
      /\ lpc' \in {"checkpoint", "final"} => at'.dev = 1
  <2>1. CASE at.dev < N
    <3>1. at' = [at EXCEPT !.dev = @ + 1] /\ lpc' = "optimizer" /\ steps' = steps
      BY <2>1, <1>1 DEF Goto
    <3>2. at.dev + 1 \in Dev
      BY <2>1, <1>4 DEF Dev
    <3>3. /\ at' \in [epoch : Nat, batch : Nat, mini : Nat, micro : Nat \ {0}, dev : Dev]
          /\ at'.mini = 0 /\ at'.micro = 1 /\ at'.dev = at.dev + 1
      BY <3>1, <3>2, <1>3
    <3>4. LoopInv'
      BY <3>1, <3>3, <1>1, <1>2, <1>3, <1>4 DEF LoopInv
    <3>5. \A d \in Dev : Sent(d)' = <<s + P, s + P,
                                      IF d < at.dev + 1 THEN steps + 1 ELSE steps>>
      BY <3>1, <3>3, <1>5 DEF Sent
    <3>6. e < at.dev + 1 /\ \A d \in Dev \ {e} : d < at.dev + 1 <=> d < at.dev
      BY <1>6, <1>7
    <3> QED
      BY <3>1, <3>4, <3>5, <3>6, <1>8
  <2>2. CASE ~(at.dev < N)
    <3>1. steps' = steps + 1
      BY <2>2, <1>1
    <3>2. /\ at' \in [epoch : Nat, batch : Nat, mini : Nat, micro : Nat \ {0}, dev : Dev]
          /\ at'.mini = 0 /\ at'.micro = 1 /\ at'.dev = 1
          /\ lpc' \in {"checkpoint", "forward", "epoch"}
      <4>1. CASE run.interval > 0 /\ steps' % run.interval = 0
        <5>1. lpc' = "checkpoint" /\ at' = [at EXCEPT !.dev = 1]
          BY <4>1, <2>2, <1>1 DEF Goto
        <5> QED
          BY <5>1, <1>3, <1>6
      <4>2. CASE ~(run.interval > 0 /\ steps' % run.interval = 0)
        BY <4>2, <2>2, <1>1, <1>2, <1>3, <1>4, NextBatchGoes
      <4> QED
        BY <4>1, <4>2
    <3>3. LoopInv'
      BY <3>1, <3>2, <1>1, <1>2, <1>3, <1>4 DEF LoopInv
    <3>4. Between'
      BY <3>2 DEF Between
    <3>5. \A d \in Dev : Sent(d)' = <<(steps + 1) * P, (steps + 1) * P, steps + 1>>
      BY <3>1, <3>4, <1>3, <1>4, <1>5, SentBetweenNext DEF SentWhenBetween
    <3>6. \A d \in Dev \ {e} : d < at.dev
      BY <2>2, <1>4, <1>6, <1>7
    <3> QED
      BY <3>2, <3>3, <3>5, <3>6, <1>4, <1>8
  <2> QED
    BY <2>1, <2>2
<1>10. Sent(e) = <<s + P, s + P, steps>>
  BY <1>6, <1>7, <1>8
<1>11. c.op = "optimizer" /\ c \in Commands
  BY DEF Command, Commands, Compute
<1> HIDE DEF c
<1>12. Leads(PerStep, Sent(e), c, Sent(e)')
  BY <1>9, <1>10, <1>11 DEF Leads
<1>13. Sent(e)' \in Positions
  BY <1>4, <1>9 DEF Positions
<1>14. PushStep(e, c)
  BY <1>1, <1>7, <1>9, <1>12, <1>13 DEF PushStep, Send
<1>15. ~asked /\ parts = <<>>
  BY <1>1, NoParts
<1>16. CheckpointInv'
  BY <1>1, <1>9, <1>11, <1>14, <1>15, PushAsksNothing
<1> QED
  BY <1>9, <1>11, <1>14, <1>16, PushQueues DEF Inner

(* Nothing is sent and no device does anything.                              *)
LEMMA QuietKeeps ==
  ASSUME Inner, UNCHANGED <<run, cmdq, jobs, data>>, DOMAIN resp' = Dev,
         \A d \in Dev : Sent(d)' = Sent(d)
  PROVE  TypeInv' /\ QueueInv' /\ DataInv'
<1>1. /\ PerStep' = PerStep /\ DataInv'
      /\ \A d : Reached(d)' = Reached(d)
  BY DataStays DEF Inner
<1>2. TypeInv'
  BY DEF Inner, TypeInv, data
<1>3. QueueInv'
  BY <1>1 DEF Inner, QueueInv
<1> QED
  BY <1>1, <1>2, <1>3

(* The loop thread looks for an error and finds none.                        *)
LEMMA LookKeeps == ASSUME Inner, Look, ~event PROVE Inner'
<1>1. UNCHANGED <<run, lpc, at, steps, asked, parts, cmdq, resp, jobs, data>>
  BY DEF Look
<1>2. \A d \in Dev : Sent(d)' = Sent(d)
  BY <1>1 DEF Sent, PerStep
<1>3. LoopInv' /\ CheckpointInv'
  BY <1>1 DEF Inner, LoopInv, CheckpointInv
<1>4. DOMAIN resp' = Dev
  BY <1>1 DEF Inner, TypeInv
<1> QED
  BY <1>1, <1>2, <1>3, <1>4, QuietKeeps DEF Inner

(* The loop thread goes on to the next epoch, or to the final checkpoint.    *)
LEMMA EndEpochKeeps == ASSUME Inner, EndEpoch PROVE Inner'
<1>1. /\ lpc = "epoch"
      /\ \/ Goto("forward", [at EXCEPT !.epoch = @ + 1])
         \/ Goto(IF checkpointed THEN "done" ELSE "final", at)
      /\ UNCHANGED <<run, steps, asked, parts, cmdq, resp, jobs, data>>
  BY DEF EndEpoch
<1>2. TypeInv /\ LoopInv /\ CheckpointInv
  BY DEF Inner
<1>3. at \in [epoch : Nat, batch : Nat, mini : Nat, micro : Nat \ {0}, dev : Dev]
      /\ at.mini = 0 /\ at.micro = 1 /\ at.dev = 1 /\ ~asked /\ steps \in Nat
      /\ run.accumulation \in Nat \ {0} /\ run.microbatches \in Nat \ {0}
  BY <1>1, <1>2 DEF LoopInv, TypeInv
<1>4. /\ at' \in [epoch : Nat, batch : Nat, mini : Nat, micro : Nat \ {0}, dev : Dev]
      /\ at'.mini = 0 /\ at'.micro = 1 /\ at'.dev = 1
      /\ lpc' \in {"forward", "done", "final"}
  BY <1>1, <1>3 DEF Goto
<1>5. LoopInv'
  <2>1. 0 < run.accumulation /\ 1 <= run.microbatches
    BY <1>3
  <2> QED
    BY <2>1, <1>1, <1>2, <1>3, <1>4 DEF LoopInv
<1>6. Between /\ Between'
  BY <1>1, <1>4 DEF Between
<1>7. PerStep \in Nat /\ N \in Nat /\ PerStep' = PerStep
  BY <1>1, <1>2, StepSizes DEF PerStep
<1>8. \A d \in Dev : Sent(d)' = Sent(d)
  BY <1>1, <1>3, <1>6, <1>7, SentBetween, SentBetweenNext DEF SentWhenBetween
<1>9. CheckpointInv'
  <2>1. parts = <<>>
    BY <1>1, <1>2 DEF CheckpointInv
  <2>2. [i \in 1 .. 0 |-> steps'] = <<>>
    OBVIOUS
  <2>3. parts' = IF lpc' \in {"checkpoint", "final"}
                 THEN [i \in 1 .. at'.dev - 1 |-> steps'] ELSE <<>>
    BY <2>1, <2>2, <1>1, <1>4
  <2> QED
    BY <2>3, <1>1, <1>2, <1>3, NoneAsked DEF CheckpointInv
<1>10. DOMAIN resp' = Dev
  BY <1>1, <1>2 DEF TypeInv
<1> QED
  BY <1>1, <1>5, <1>8, <1>9, <1>10, QuietKeeps DEF Inner

(* A checkpoint is asked for.                                                *)
LEMMA RequestCheckpointKeeps == ASSUME Inner, RequestCheckpoint PROVE Inner'
<1> DEFINE c == Command("checkpoint")
<1>1. /\ lpc \in {"checkpoint", "final"} /\ ~asked
      /\ cmdq' = [cmdq EXCEPT ![at.dev] = Append(@, c)]
      /\ asked' = TRUE
      /\ UNCHANGED <<run, lpc, at, steps, parts, resp, jobs, data>>
  BY DEF RequestCheckpoint, Send
<1>2. TypeInv /\ LoopInv /\ CheckpointInv
  BY DEF Inner
<1>3. LoopInv'
  BY <1>1, <1>2 DEF LoopInv
<1>4. \A d : Sent(d)' = Sent(d)
  BY <1>1 DEF Sent, PerStep
<1>5. PICK e \in Dev : e = at.dev
  BY <1>2 DEF LoopInv
<1>6. c.op = "checkpoint" /\ c \in Commands
  BY DEF Command, Commands
<1> HIDE DEF c
<1>7. Sent(e) \in Positions
  BY <1>2, SentIn
<1>8. PushStep(e, c)
  BY <1>1, <1>4, <1>5, <1>6, <1>7 DEF PushStep, Leads
<1>9. /\ cmdq'[e] = Append(cmdq[e], c) /\ cmdq[e] \in Seq(Commands)
      /\ \A d \in Dev \ {e} : cmdq'[d] = cmdq[d]
  BY <1>1, <1>2, <1>5 DEF TypeInv
<1>10. ASSUME NEW d \in Dev, NEW i \in 1 .. Len(cmdq'[d]), cmdq'[d][i].op = "checkpoint"
       PROVE  d = at.dev /\ i = Len(cmdq'[d]) /\ resp[d] = <<>>
  <2>1. CASE d # e
    <3>1. i \in 1 .. Len(cmdq[d]) /\ cmdq[d][i].op = "checkpoint"
      BY <2>1, <1>9, <1>10
    <3> QED
      BY <3>1, <1>1, <1>2, NoneAsked
  <2>2. CASE d = e
    <3>1. /\ Len(cmdq[d]) \in Nat /\ Len(cmdq'[d]) = Len(cmdq[d]) + 1
          /\ \A k \in 1 .. Len(cmdq[d]) : cmdq'[d][k] = cmdq[d][k]
      BY <2>2, <1>9
    <3>2. CASE i \in 1 .. Len(cmdq[d])
      <4>1. cmdq[d][i].op = "checkpoint"
        BY <3>1, <3>2, <1>10
      <4> QED
        BY <3>2, <4>1, <1>1, <1>2, NoneAsked
    <3>3. CASE i = Len(cmdq[d]) + 1
      BY <3>1, <3>3, <2>2, <1>1, <1>2, <1>5, NoneAsked
    <3> QED
      BY <3>1, <3>2, <3>3
  <2> QED
    BY <2>1, <2>2
<1>11. \A d \in Dev : resp[d] = <<>>
  BY <1>1, <1>2, NoneAsked
<1>12. CheckpointInv'
  BY <1>1, <1>2, <1>10, <1>11 DEF CheckpointInv
<1> QED
  BY <1>3, <1>6, <1>8, <1>12, PushQueues DEF Inner

(* A part that arrives is of this step.                                      *)
LEMMA PartIsOfStep ==
  ASSUME Inner, asked, resp[at.dev] # <<>>
  PROVE  resp[at.dev] = <<steps>> /\ Head(resp[at.dev]) = steps /\ Tail(resp[at.dev]) = <<>>
<1>1. at.dev \in Dev
  BY DEF Inner, LoopInv
<1>2. resp[at.dev] = <<steps>>
  BY <1>1 DEF Inner, CheckpointInv
<1> QED
  BY <1>2

(* The parts so far, one more, and all of them.                              *)
LEMMA PartsGrow ==
  ASSUME NEW n \in Nat, NEW x \in Nat
  PROVE  Append([i \in 1 .. n |-> x], x) = [i \in 1 .. n + 1 |-> x]
<1> DEFINE p == [i \in 1 .. n |-> x]
           r == [i \in 1 .. n + 1 |-> x]
<1>1. p \in Seq(Nat) /\ Len(p) = n /\ r \in Seq(Nat) /\ Len(r) = n + 1
  OBVIOUS
<1>2. /\ Append(p, x) \in Seq(Nat) /\ Len(Append(p, x)) = n + 1
      /\ \A i \in 1 .. n + 1 : Append(p, x)[i] = r[i]
  BY <1>1
<1> QED
  BY <1>1, <1>2

(* A part of the checkpoint arrives.                                         *)
LEMMA GetCheckpointKeeps == ASSUME Inner, GetCheckpoint PROVE Inner'
<1>1. /\ asked /\ resp[at.dev] # <<>>
      /\ Collect(Head(resp[at.dev]))
      /\ resp' = [resp EXCEPT ![at.dev] = Tail(@)]
      /\ UNCHANGED <<run, steps, cmdq, jobs, data, alive, dead, event>>
  BY DEF GetCheckpoint
<1>2. TypeInv /\ LoopInv /\ CheckpointInv
  BY DEF Inner
<1>3. lpc \in {"checkpoint", "final"}
  BY <1>1, <1>2 DEF LoopInv
<1>4. at \in [epoch : Nat, batch : Nat, mini : Nat, micro : Nat \ {0}, dev : Dev]
      /\ at.mini = 0 /\ at.micro = 1 /\ steps \in Nat
      /\ run.accumulation \in Nat \ {0} /\ run.microbatches \in Nat \ {0}
      /\ N \in Nat \ {0} /\ PerStep \in Nat \ {0}
  BY <1>2, <1>3, StepSizes DEF LoopInv, TypeInv
<1>5. Head(resp[at.dev]) = steps /\ Tail(resp[at.dev]) = <<>>
  BY <1>1, PartIsOfStep
<1>6. \A d \in Dev : resp'[d] = <<>>
  BY <1>1, <1>2, <1>5 DEF TypeInv, CheckpointInv
<1>7. parts = [i \in 1 .. at.dev - 1 |-> steps]
  BY <1>2, <1>3 DEF CheckpointInv
<1>8. /\ asked' = FALSE
      /\ at' \in [epoch : Nat, batch : Nat, mini : Nat, micro : Nat \ {0}, dev : Dev]
      /\ at'.mini = 0 /\ at'.micro = 1
      /\ lpc' \in {"checkpoint", "final", "forward", "epoch", "done"}
      /\ lpc' \in {"forward", "epoch"} => at'.dev = 1
      /\ parts' = IF lpc' \in {"checkpoint", "final"}
                  THEN [i \in 1 .. at'.dev - 1 |-> steps] ELSE <<>>
  <2>1. CASE at.dev < N
    <3>1. /\ asked' = FALSE /\ parts' = Append(parts, steps)
          /\ lpc' = lpc /\ at' = [at EXCEPT !.dev = @ + 1]
      BY <2>1, <1>1, <1>5 DEF Collect, Goto
    <3>2. at.dev + 1 \in Dev /\ at.dev - 1 \in Nat /\ at.dev - 1 + 1 = at.dev
      BY <2>1, <1>4 DEF Dev
    <3>3. /\ at' \in [epoch : Nat, batch : Nat, mini : Nat, micro : Nat \ {0}, dev : Dev]
          /\ at'.mini = 0 /\ at'.micro = 1 /\ at'.dev = at.dev + 1
      BY <3>1, <3>2, <1>4
    <3> DEFINE All(n) == [i \in 1 .. n |-> steps]
    <3>4. parts' = All(at.dev)
      BY <3>1, <3>2, <1>4, <1>7, PartsGrow
    <3> HIDE DEF All
    <3>10. at'.dev = at.dev + 1
      BY <3>3
    <3>9. at.dev = at'.dev - 1
      BY <3>2, <3>10, <1>4 DEF Dev
    <3>5. parts' = All(at'.dev - 1)
      BY <3>4, <3>9
    <3>6. lpc' \in {"checkpoint", "final"} /\ ~(lpc' \in {"forward", "epoch"})
          /\ lpc' \in {"checkpoint", "final", "forward", "epoch", "done"}
      BY <3>1, <1>3
    <3> DEFINE r == [epoch : Nat, batch : Nat, mini : Nat, micro : Nat \ {0}, dev : Dev]
               f == All(at'.dev - 1)
               g == parts'
    <3>7. at' \in r /\ g = f
      BY <3>3, <3>5
    <3> HIDE DEF r, f, g
    <3>8. g = IF lpc' \in {"checkpoint", "final"} THEN f ELSE <<>>
      BY <3>6, <3>7
    <3> QED
      BY <3>1, <3>3, <3>6, <3>7, <3>8 DEF r, f, g, All
  <2>2. CASE ~(at.dev < N)
    <3>1. /\ asked' = FALSE /\ parts' = <<>>
          /\ IF lpc = "checkpoint" THEN NextBatch ELSE Goto("done", at)
      BY <2>2, <1>1 DEF Collect
    <3>2. CASE lpc = "checkpoint"
      BY <3>1, <3>2, <1>2, <1>4, NextBatchGoes
    <3>3. CASE lpc # "checkpoint"
      BY <3>1, <3>3, <1>4 DEF Goto
    <3> QED
      BY <3>1, <3>2, <3>3
  <2> QED
    BY <2>1, <2>2
<1>9. LoopInv'
  <2>1. 0 < run.accumulation /\ 1 <= run.microbatches
    BY <1>4
  <2> QED
    BY <2>1, <1>1, <1>4, <1>8 DEF LoopInv
<1>10. CheckpointInv'
  <2>1. \A d \in Dev : \A i \in 1 .. Len(cmdq[d]) : cmdq[d][i].op # "checkpoint"
    BY <1>1, <1>2 DEF CheckpointInv
  <2> QED
    BY <2>1, <1>1, <1>2, <1>6, <1>8 DEF CheckpointInv
<1>11. \A d \in Dev : Sent(d)' = Sent(d)
  <2>1. Between /\ Between'
    BY <1>3, <1>8 DEF Between
  <2>2. PerStep' = PerStep
    BY <1>1 DEF PerStep
  <2> QED
    BY <2>1, <2>2, <1>1, <1>4, SentBetween, SentBetweenNext DEF SentWhenBetween
<1>12. DOMAIN resp' = Dev
  BY <1>1, <1>2 DEF TypeInv
<1> QED
  BY <1>1, <1>9, <1>10, <1>11, <1>12, QuietKeeps DEF Inner

------------------------------------------------------------------------------
(* From b the commands q, and those not yet with the feeder, take device d   *)
(* where the loop thread wants it.                                           *)
RestLeads(d, b, q) ==
  \E mid \in Positions :
    /\ Chain(PerStep, b, q, mid)
    /\ IF d \in TTDevices THEN Chain(PerStep, mid, cmdq[d], Sent(d)) ELSE mid = Sent(d)

(* The command a device runs next is the right one.                          *)
LEMMA FrontCommand ==
  ASSUME Inner, NEW d \in Dev, Work(d) # <<>>
  PROVE  /\ Head(Work(d)) \in Commands /\ Tail(Work(d)) \in Seq(Commands)
         /\ Work(d) \in Seq(Commands) /\ Work(d)[1] = Head(Work(d))
         /\ Len(Work(d)) \in Nat \ {0} /\ Len(Tail(Work(d))) = Len(Work(d)) - 1
         /\ \A i \in 1 .. Len(Work(d)) - 1 : Tail(Work(d))[i] = Work(d)[i + 1]
         /\ \E b \in Positions : /\ Leads(PerStep, Reached(d), Head(Work(d)), b)
                                 /\ RestLeads(d, b, Tail(Work(d)))
<1>1. TypeInv /\ QueueInv
  BY DEF Inner
<1>2. PICK mid \in Positions : /\ Chain(PerStep, Reached(d), jobs[d], mid)
                               /\ Chain(PerStep, mid, cmdq[d], Sent(d))
  BY <1>1 DEF QueueInv
<1>3. Work(d) \in Seq(Commands) /\ cmdq[d] \in Seq(Commands) /\ jobs[d] \in Seq(Commands)
  BY <1>1 DEF TypeInv, Work
<1>4. /\ Head(Work(d)) \in Commands /\ Tail(Work(d)) \in Seq(Commands)
      /\ Work(d)[1] = Head(Work(d))
      /\ Len(Work(d)) \in Nat \ {0} /\ Len(Tail(Work(d))) = Len(Work(d)) - 1
      /\ \A i \in 1 .. Len(Work(d)) - 1 : Tail(Work(d))[i] = Work(d)[i + 1]
  BY <1>3
<1>5. CASE d \in TTDevices
  <2>1. Work(d) = jobs[d]
    BY <1>5 DEF Work
  <2>2. PICK b \in Positions : Leads(PerStep, Reached(d), Head(Work(d)), b)
                               /\ Chain(PerStep, b, Tail(Work(d)), mid)
    BY <2>1, <1>2, <1>3, ChainTail
  <2> QED
    BY <2>2, <1>2, <1>3, <1>4, <1>5 DEF RestLeads
<1>6. CASE d \notin TTDevices
  <2>1. Work(d) = cmdq[d] /\ jobs[d] = <<>>
    BY <1>1, <1>6 DEF Work, QueueInv
  <2>2. Reached(d) \in Positions /\ Sent(d) \in Positions
    BY <1>2, <1>3, ChainEnds
  <2>3. Reached(d) = mid
    BY <2>1, <2>2, <1>2, ChainOfNone
  <2>4. PICK b \in Positions : Leads(PerStep, Reached(d), Head(Work(d)), b)
                               /\ Chain(PerStep, b, Tail(Work(d)), Sent(d))
    BY <2>1, <2>3, <1>2, <1>3, ChainTail
  <2> QED
    BY <2>2, <2>4, <1>3, <1>4, <1>6 DEF RestLeads
<1> QED
  BY <1>5, <1>6

(* Device d has come to b, and q is left of its work.                        *)
WorkStep(d, b, q) ==
  /\ WorkLeft(d, q) /\ RestLeads(d, b, q) /\ Reached(d)' = b
  /\ UNCHANGED loop /\ resp' = resp
  /\ \A e \in Dev \ {d} : Reached(e)' = Reached(e)
  /\ \A i \in 1 .. Len(q) : q[i].op = "checkpoint" =>
       LET k == i + (Len(Work(d)) - Len(q))
       IN  k \in 1 .. Len(Work(d)) /\ Work(d)[k].op = "checkpoint"

(* A step of a device takes the first command off its chain.                 *)
LEMMA WorkQueues ==
  ASSUME Inner, NEW d \in Dev, NEW b \in Positions, NEW q \in Seq(Commands), WorkStep(d, b, q)
  PROVE  /\ QueueInv' /\ CheckpointInv' /\ LoopInv' /\ DOMAIN resp' = Dev
         /\ jobs' \in [Dev -> Seq(Commands)] /\ cmdq' \in [Dev -> Seq(Commands)]
         /\ run' = run /\ PerStep' = PerStep
<1>1. /\ WorkLeft(d, q) /\ RestLeads(d, b, q) /\ Reached(d)' = b
      /\ UNCHANGED loop /\ resp' = resp
      /\ \A e \in Dev \ {d} : Reached(e)' = Reached(e)
      /\ \A i \in 1 .. Len(q) : q[i].op = "checkpoint" =>
           /\ i + (Len(Work(d)) - Len(q)) \in 1 .. Len(Work(d))
           /\ Work(d)[i + (Len(Work(d)) - Len(q))].op = "checkpoint"
  BY DEF WorkStep
<1>2. /\ TypeInv /\ QueueInv /\ LoopInv /\ CheckpointInv
      /\ jobs \in [Dev -> Seq(Commands)] /\ cmdq \in [Dev -> Seq(Commands)]
  BY DEF Inner, TypeInv
<1>3. UNCHANGED <<run, lpc, at, steps, asked, parts>>
  BY <1>1 DEF loop
<1>4. PerStep' = PerStep /\ LoopInv' /\ \A e : Sent(e)' = Sent(e)
  BY <1>2, <1>3 DEF PerStep, LoopInv, Sent
<1>5. /\ jobs' \in [Dev -> Seq(Commands)] /\ cmdq' \in [Dev -> Seq(Commands)]
      /\ \A e \in Dev \ {d} : jobs'[e] = jobs[e] /\ cmdq'[e] = cmdq[e]
      /\ d \in TTDevices => jobs'[d] = q /\ cmdq'[d] = cmdq[d]
      /\ d \notin TTDevices => cmdq'[d] = q /\ jobs'[d] = jobs[d]
  BY <1>1, <1>2 DEF WorkLeft
<1>6. ASSUME NEW e \in Dev
      PROVE  /\ e \notin TTDevices => jobs'[e] = <<>>
             /\ \E mid \in Positions : /\ Chain(PerStep, Reached(e)', jobs'[e], mid)
                                       /\ Chain(PerStep, mid, cmdq'[e], Sent(e))
  <2>1. CASE e # d
    BY <2>1, <1>1, <1>2, <1>5 DEF QueueInv
  <2>2. CASE e = d /\ d \in TTDevices
    BY <2>2, <1>1, <1>5 DEF RestLeads
  <2>3. CASE e = d /\ d \notin TTDevices
    <3>1. jobs'[d] = <<>> /\ cmdq'[d] = q
      BY <2>3, <1>2, <1>5 DEF QueueInv
    <3>2. Chain(PerStep, b, q, Sent(d))
      BY <2>3, <1>1 DEF RestLeads
    <3>3. Chain(PerStep, b, <<>>, b)
      BY ChainOfNone
    <3> QED
      BY <3>1, <3>2, <3>3, <2>3, <1>1
  <2> QED
    BY <2>1, <2>2, <2>3
<1>7. QueueInv'
  BY <1>4, <1>6 DEF QueueInv
<1>8. Len(q) \in Nat /\ Len(jobs[d]) \in Nat /\ Len(cmdq[d]) \in Nat
  BY <1>2
<1>9. ASSUME NEW e \in Dev, NEW i \in 1 .. Len(jobs'[e])
      PROVE  jobs'[e][i].op # "checkpoint"
  <2>1. CASE e # d \/ d \notin TTDevices
    BY <2>1, <1>2, <1>5 DEF CheckpointInv
  <2>2. CASE e = d /\ d \in TTDevices
    <3>1. jobs'[e] = q /\ Work(d) = jobs[d]
      BY <2>2, <1>5 DEF Work
    <3>2. \A k \in 1 .. Len(jobs[d]) : jobs[d][k].op # "checkpoint"
      BY <1>2 DEF CheckpointInv
    <3>3. i \in 1 .. Len(q) /\ q[i] = jobs'[e][i]
      BY <3>1
    <3> QED
      BY <3>1, <3>2, <3>3, <1>1
  <2> QED
    BY <2>1, <2>2
<1>10. ASSUME NEW e \in Dev, NEW i \in 1 .. Len(cmdq'[e]), cmdq'[e][i].op = "checkpoint"
       PROVE  asked /\ e = at.dev /\ i = Len(cmdq'[e]) /\ resp[e] = <<>>
  <2>1. CASE e # d \/ d \in TTDevices
    <3>1. cmdq'[e] = cmdq[e]
      BY <2>1, <1>5
    <3> QED
      BY <3>1, <1>2, <1>10 DEF CheckpointInv
  <2>2. CASE e = d /\ d \notin TTDevices
    <3>1. cmdq'[e] = q /\ Work(d) = cmdq[d]
      BY <2>2, <1>5 DEF Work
    <3>2. /\ i + (Len(cmdq[d]) - Len(q)) \in 1 .. Len(cmdq[d])
          /\ cmdq[d][i + (Len(cmdq[d]) - Len(q))].op = "checkpoint"
      BY <3>1, <1>1, <1>10
    <3>3. /\ asked /\ d = at.dev /\ resp[d] = <<>>
          /\ i + (Len(cmdq[d]) - Len(q)) = Len(cmdq[d])
      BY <3>2, <1>2 DEF CheckpointInv
    <3>4. i \in Nat
      BY <3>1, <1>8
    <3> QED
      BY <3>1, <3>3, <3>4, <2>2, <1>8
  <2> QED
    BY <2>1, <2>2
<1>11. CheckpointInv'
  BY <1>1, <1>2, <1>3, <1>9, <1>10 DEF CheckpointInv
<1> QED
  BY <1>1, <1>2, <1>3, <1>4, <1>5, <1>7, <1>11 DEF TypeInv

(* The feeder takes a command over.                                          *)
LEMMA ToFeederKeeps ==
  ASSUME Inner, NEW d \in Dev, ToFeeder(d)
  PROVE  Inner'
<1> DEFINE c == Head(cmdq[d])
           q == Tail(cmdq[d])
<1>1. /\ d \in TTDevices /\ cmdq[d] # <<>> /\ c.op \in Compute
      /\ jobs' = [jobs EXCEPT ![d] = Append(@, c)]
      /\ cmdq' = [cmdq EXCEPT ![d] = q]
      /\ UNCHANGED <<loop, resp, data>>
  BY DEF ToFeeder
<1>2. /\ TypeInv /\ QueueInv /\ LoopInv /\ CheckpointInv
      /\ jobs \in [Dev -> Seq(Commands)] /\ cmdq \in [Dev -> Seq(Commands)]
  BY DEF Inner, TypeInv
<1>3. UNCHANGED <<run, lpc, at, steps, asked, parts>>
  BY <1>1 DEF loop
<1>4. PerStep' = PerStep /\ LoopInv' /\ \A e : Sent(e)' = Sent(e)
  BY <1>2, <1>3 DEF PerStep, LoopInv, Sent
<1>5. DataInv' /\ \A e : Reached(e)' = Reached(e)
  BY <1>1, <1>3, DataStays DEF Inner
<1>6. /\ c \in Commands /\ q \in Seq(Commands) /\ jobs[d] \in Seq(Commands)
      /\ Len(q) = Len(cmdq[d]) - 1 /\ Len(cmdq[d]) \in Nat \ {0}
      /\ \A i \in 1 .. Len(cmdq[d]) - 1 : q[i] = cmdq[d][i + 1]
  BY <1>1, <1>2
<1>7. /\ jobs'[d] = Append(jobs[d], c) /\ cmdq'[d] = q
      /\ \A e \in Dev \ {d} : jobs'[e] = jobs[e] /\ cmdq'[e] = cmdq[e]
  BY <1>1, <1>2
<1>8. jobs' \in [Dev -> Seq(Commands)] /\ cmdq' \in [Dev -> Seq(Commands)]
  <2>1. Append(jobs[d], c) \in Seq(Commands)
    BY <1>6
  <2> HIDE DEF c, q
  <2> QED
    BY <2>1, <1>1, <1>2, <1>6
<1>9. TypeInv'
  BY <1>1, <1>2, <1>3, <1>8 DEF TypeInv, data
<1>10. PICK mid \in Positions : /\ Chain(PerStep, Reached(d), jobs[d], mid)
                                /\ Chain(PerStep, mid, cmdq[d], Sent(d))
  BY <1>2 DEF QueueInv
<1>11. PICK b \in Positions : Leads(PerStep, mid, c, b) /\ Chain(PerStep, b, q, Sent(d))
  BY <1>1, <1>2, <1>10, ChainTail
<1> HIDE DEF c, q
<1>12. Chain(PerStep, Reached(d), Append(jobs[d], c), b)
  BY <1>6, <1>10, <1>11, ChainAppend
<1>13. QueueInv'
  <2>1. ASSUME NEW e \in Dev
        PROVE  /\ e \notin TTDevices => jobs'[e] = <<>>
               /\ \E m \in Positions : /\ Chain(PerStep, Reached(e), jobs'[e], m)
                                       /\ Chain(PerStep, m, cmdq'[e], Sent(e))
    <3>1. CASE e = d
      BY <3>1, <1>1, <1>7, <1>11, <1>12
    <3>2. CASE e # d
      BY <3>2, <1>2, <1>7 DEF QueueInv
    <3> QED
      BY <3>1, <3>2
  <2> QED
    BY <2>1, <1>4, <1>5 DEF QueueInv
<1>14. CheckpointInv'
  <2>1. ASSUME NEW e \in Dev, NEW i \in 1 .. Len(jobs'[e])
        PROVE  jobs'[e][i].op # "checkpoint"
    <3>1. CASE e # d
      BY <3>1, <1>2, <1>7 DEF CheckpointInv
    <3>2. CASE e = d
      <4>1. /\ Len(jobs[d]) \in Nat /\ Len(jobs'[d]) = Len(jobs[d]) + 1
            /\ jobs'[d][Len(jobs[d]) + 1] = c
            /\ \A k \in 1 .. Len(jobs[d]) : jobs'[d][k] = jobs[d][k]
        BY <1>6, <1>7
      <4>2. c.op # "checkpoint"
        BY <1>1 DEF Compute
      <4>3. CASE i = Len(jobs[d]) + 1
        BY <4>1, <4>2, <4>3, <3>2
      <4>4. CASE i # Len(jobs[d]) + 1
        <5>1. i \in 1 .. Len(jobs[d])
          BY <4>1, <4>4, <3>2
        <5> QED
          BY <5>1, <4>1, <3>2, <1>2 DEF CheckpointInv
      <4> QED
        BY <4>3, <4>4
    <3> QED
      BY <3>1, <3>2
  <2>2. ASSUME NEW e \in Dev, NEW i \in 1 .. Len(cmdq'[e]), cmdq'[e][i].op = "checkpoint"
        PROVE  asked /\ e = at.dev /\ i = Len(cmdq'[e]) /\ resp[e] = <<>>
    <3>1. CASE e # d
      BY <3>1, <2>2, <1>2, <1>7 DEF CheckpointInv
    <3>2. CASE e = d
      <4>1. i + 1 \in 1 .. Len(cmdq[d]) /\ cmdq[d][i + 1].op = "checkpoint"
        BY <3>2, <2>2, <1>6, <1>7
      <4>2. asked /\ d = at.dev /\ resp[d] = <<>> /\ i + 1 = Len(cmdq[d])
        BY <4>1, <1>2 DEF CheckpointInv
      <4> QED
        BY <4>1, <4>2, <3>2, <1>6, <1>7
    <3> QED
      BY <3>1, <3>2
  <2> QED
    BY <2>1, <2>2, <1>1, <1>2, <1>3 DEF CheckpointInv
<1> QED
  BY <1>4, <1>5, <1>9, <1>13, <1>14 DEF Inner

(* A device that answers has run everything sent before the request.         *)
LEMMA AnswerIsCurrent ==
  ASSUME Inner, NEW d \in Dev, AnswerCheckpoint(d)
  PROVE  /\ version[d] = steps /\ Reached(d) = Sent(d)
         /\ asked /\ d = at.dev /\ resp[d] = <<>>
         /\ jobs[d] = <<>> /\ Tail(cmdq[d]) = <<>>
<1> DEFINE c == Head(cmdq[d])
           q == Tail(cmdq[d])
<1>1. jobs[d] = <<>> /\ cmdq[d] # <<>> /\ c.op = "checkpoint"
  BY DEF AnswerCheckpoint, Synced
<1>2. /\ TypeInv /\ QueueInv /\ LoopInv /\ CheckpointInv
      /\ jobs[d] \in Seq(Commands) /\ cmdq[d] \in Seq(Commands)
  BY DEF Inner, TypeInv
<1>3. Len(cmdq[d]) \in Nat \ {0} /\ cmdq[d][1] = c /\ q \in Seq(Commands)
  BY <1>1, <1>2
<1>4. asked /\ d = at.dev /\ resp[d] = <<>> /\ Len(cmdq[d]) = 1
  <2>1. 1 \in 1 .. Len(cmdq[d])
    BY <1>3
  <2> QED
    BY <2>1, <1>1, <1>2, <1>3 DEF CheckpointInv
<1>5. q = <<>>
  <2>1. Len(q) = 0 /\ q \in Seq(Commands)
    BY <1>2, <1>3, <1>4
  <2> HIDE DEF q
  <2> QED
    BY <2>1
<1>6. PICK mid \in Positions : /\ Chain(PerStep, Reached(d), jobs[d], mid)
                               /\ Chain(PerStep, mid, cmdq[d], Sent(d))
  BY <1>2 DEF QueueInv
<1>7. PICK b \in Positions : Leads(PerStep, mid, c, b) /\ Chain(PerStep, b, q, Sent(d))
  BY <1>1, <1>2, <1>6, ChainTail
<1>8. Reached(d) \in Positions
  BY <1>2, <1>6, ChainEnds
<1> HIDE DEF c, q
<1>9. Reached(d) = mid
  BY <1>1, <1>6, <1>8, ChainOfNone
<1>10. b = mid
  BY <1>1, <1>7 DEF Leads
<1>11. b = Sent(d)
  BY <1>5, <1>7, ChainOfNone
<1>12. Sent(d) = <<steps * PerStep, steps * PerStep, steps>>
  <2>1. lpc \in {"checkpoint", "final"}
    BY <1>2, <1>4 DEF LoopInv
  <2> QED
    BY <2>1, <1>2, SentIn
<1>13. Reached(d)[3] = version[d]
  BY DEF Reached
<1>14. version[d] = steps
  BY <1>9, <1>10, <1>11, <1>12, <1>13
<1> QED
  BY <1>1, <1>4, <1>5, <1>9, <1>10, <1>11, <1>14 DEF q

(* A device answers with its weights.                                        *)
LEMMA AnswerCheckpointKeeps ==
  ASSUME Inner, NEW d \in Dev, AnswerCheckpoint(d)
  PROVE  Inner'
<1>1. /\ resp' = [resp EXCEPT ![d] = Append(@, version[d])]
      /\ cmdq' = [cmdq EXCEPT ![d] = Tail(@)]
      /\ UNCHANGED <<loop, jobs, data>>
  BY DEF AnswerCheckpoint
<1>2. /\ version[d] = steps /\ Reached(d) = Sent(d)
      /\ asked /\ d = at.dev /\ resp[d] = <<>>
      /\ jobs[d] = <<>> /\ Tail(cmdq[d]) = <<>>
  BY AnswerIsCurrent
<1>3. /\ TypeInv /\ QueueInv /\ LoopInv /\ CheckpointInv
      /\ cmdq \in [Dev -> Seq(Commands)] /\ DOMAIN resp = Dev
  BY DEF Inner, TypeInv
<1>4. UNCHANGED <<run, lpc, at, steps, asked, parts>>
  BY <1>1 DEF loop
<1>5. PerStep' = PerStep /\ LoopInv' /\ \A e : Sent(e)' = Sent(e)
  BY <1>3, <1>4 DEF PerStep, LoopInv, Sent
<1>6. DataInv' /\ \A e : Reached(e)' = Reached(e)
  BY <1>1, <1>4, DataStays DEF Inner
<1>7. /\ cmdq'[d] = <<>> /\ resp'[d] = <<steps>> /\ DOMAIN resp' = Dev
      /\ \A e \in Dev \ {d} : cmdq'[e] = cmdq[e] /\ resp'[e] = resp[e]
      /\ cmdq' \in [Dev -> Seq(Commands)]
  <2>1. resp' = [resp EXCEPT ![d] = Append(<<>>, steps)]
    BY <1>1, <1>2
  <2>2. Append(<<>>, steps) = <<steps>>
    OBVIOUS
  <2>3. cmdq' = [cmdq EXCEPT ![d] = <<>>]
    BY <1>1, <1>2, Zenon
  <2>4. <<>> \in Seq(Commands)
    OBVIOUS
  <2> QED
    BY <2>1, <2>2, <2>3, <2>4, <1>3
<1>8. TypeInv'
  BY <1>1, <1>3, <1>4, <1>7 DEF TypeInv, data
<1>9. QueueInv'
  <2>1. ASSUME NEW e \in Dev
        PROVE  \E mid \in Positions : /\ Chain(PerStep, Reached(e), jobs[e], mid)
                                      /\ Chain(PerStep, mid, cmdq'[e], Sent(e))
    <3>1. CASE e = d
      <4>1. Sent(d) \in Positions
        BY <1>3, SentIn
      <4>2. Chain(PerStep, Sent(d), <<>>, Sent(d))
        BY <4>1, ChainOfNone
      <4> QED
        BY <4>1, <4>2, <3>1, <1>2, <1>7
    <3>2. CASE e # d
      BY <3>2, <1>3, <1>7 DEF QueueInv
    <3> QED
      BY <3>1, <3>2
  <2> QED
    BY <2>1, <1>1, <1>3, <1>5, <1>6 DEF QueueInv
<1>10. CheckpointInv'
  <2>1. \A e \in Dev : \A i \in 1 .. Len(jobs'[e]) : jobs'[e][i].op # "checkpoint"
    BY <1>1, <1>3 DEF CheckpointInv
  <2>2. ASSUME NEW e \in Dev, NEW i \in 1 .. Len(cmdq'[e]), cmdq'[e][i].op = "checkpoint"
        PROVE  FALSE
    <3>1. CASE e = d
      BY <3>1, <1>7
    <3>2. CASE e # d
      BY <3>2, <2>2, <1>2, <1>3, <1>7 DEF CheckpointInv
    <3> QED
      BY <3>1, <3>2
  <2>3. \A e \in Dev : resp'[e] # <<>> => asked /\ e = at.dev /\ resp'[e] = <<steps>>
    BY <1>2, <1>3, <1>7 DEF CheckpointInv
  <2> QED
    BY <2>1, <2>2, <2>3, <1>3, <1>4 DEF CheckpointInv
<1> QED
  BY <1>5, <1>6, <1>8, <1>9, <1>10 DEF Inner

(* What is left of a device's work when its first command is done.           *)
LEMMA TailOfWork ==
  ASSUME Inner, NEW d \in Dev, Work(d) # <<>>, NEW b \in Positions,
         RestLeads(d, b, Tail(Work(d))), WorkLeft(d, Tail(Work(d))),
         Reached(d)' = b, UNCHANGED loop, resp' = resp,
         \A e \in Dev \ {d} : Reached(e)' = Reached(e)
  PROVE  WorkStep(d, b, Tail(Work(d)))
<1> DEFINE q == Tail(Work(d))
<1>1. /\ Len(Work(d)) \in Nat \ {0} /\ Len(q) = Len(Work(d)) - 1
      /\ \A i \in 1 .. Len(Work(d)) - 1 : q[i] = Work(d)[i + 1]
  BY FrontCommand
<1>2. ASSUME NEW i \in 1 .. Len(q), q[i].op = "checkpoint"
      PROVE  /\ i + (Len(Work(d)) - Len(q)) \in 1 .. Len(Work(d))
             /\ Work(d)[i + (Len(Work(d)) - Len(q))].op = "checkpoint"
  <2> HIDE DEF q
  <2>1. i + (Len(Work(d)) - Len(q)) = i + 1
    BY <1>1
  <2>2. i \in 1 .. Len(Work(d)) - 1 /\ i + 1 \in 1 .. Len(Work(d))
    BY <1>1
  <2> QED
    BY <2>1, <2>2, <1>1, <1>2
<1> QED
  BY <1>2 DEF WorkStep

(* A forward pass uses the weights of its own batch.                         *)
LEMMA ForwardInBatch ==
  ASSUME Inner, NEW d \in Dev, Forward(d)
  PROVE  /\ Work(d) # <<>>
         /\ version[d] * PerStep <= fwd[d] /\ fwd[d] < version[d] * PerStep + PerStep
         /\ <<fwd[d] + 1, Done(d), version[d]>> \in Positions
         /\ RestLeads(d, <<fwd[d] + 1, Done(d), version[d]>>, Tail(Work(d)))
<1>1. Work(d) # <<>> /\ Head(Work(d)).op = "forward"
  BY DEF Forward, Doing
<1>2. PICK b \in Positions : /\ Leads(PerStep, Reached(d), Head(Work(d)), b)
                             /\ RestLeads(d, b, Tail(Work(d)))
  BY <1>1, FrontCommand
<1>3. /\ Reached(d)[3] * PerStep <= Reached(d)[1]
      /\ Reached(d)[1] < Reached(d)[3] * PerStep + PerStep
      /\ b = <<Reached(d)[1] + 1, Reached(d)[2], Reached(d)[3]>>
  BY <1>1, <1>2 DEF Leads
<1>4. Reached(d)[1] = fwd[d] /\ Reached(d)[2] = Done(d) /\ Reached(d)[3] = version[d]
  BY DEF Reached
<1> QED
  BY <1>1, <1>2, <1>3, <1>4

(* A device runs a forward pass.                                             *)
LEMMA ForwardKeeps ==
  ASSUME Inner, NEW d \in Dev, Forward(d)
  PROVE  Inner'
<1> DEFINE w == Tail(Work(d))
           m == fwd[d] + 1
           b == <<fwd[d] + 1, Done(d), version[d]>>
<1>1. /\ TypeInv /\ DataInv
      /\ fwd \in [Dev -> Nat] /\ saved \in [Dev -> Seq(Nat)] /\ acts \in [Dev -> Seq(Nat)]
      /\ version \in [Dev -> Nat] /\ N \in Nat \ {0}
  BY TrainingAssumption DEF Inner, TypeInv
<1>2. /\ d = 1 \/ acts[d] # <<>>
      /\ fwd' = [fwd EXCEPT ![d] = @ + 1]
      /\ WorkLeft(d, w)
      /\ UNCHANGED <<loop, resp, grads, grad, version>>
  BY DEF Forward
<1>3. d # 1 => /\ d - 1 \in Dev /\ Head(acts[d]) = m /\ Tail(acts[d]) \in Seq(Nat)
               /\ Stretch(Tail(acts[d]), fwd[d] + 1, fwd[d - 1])
  <2> SUFFICES ASSUME d # 1
               PROVE  /\ d - 1 \in Dev /\ Head(acts[d]) = m /\ Tail(acts[d]) \in Seq(Nat)
                      /\ Stretch(Tail(acts[d]), fwd[d] + 1, fwd[d - 1])
    OBVIOUS
  <2>1. d - 1 \in Dev
    BY <1>1 DEF Dev
  <2>2. Stretch(acts[d], fwd[d], fwd[d - 1]) /\ acts[d] # <<>> /\ acts[d] \in Seq(Nat)
        /\ fwd[d] \in Nat /\ fwd[d - 1] \in Nat
    BY <2>1, <1>1, <1>2 DEF DataInv
  <2> QED
    BY <2>1, <2>2, StretchTail
<1>4. /\ acts' = [e \in Dev |-> CASE e = d /\ d > 1 -> Tail(acts[e])
                                  [] e = d + 1 -> Append(acts[e], m)
                                  [] OTHER -> acts[e]]
      /\ saved' = [saved EXCEPT ![d] = Append(@, m)]
  <2> DEFINE x == IF d = 1 THEN fwd[d] + 1 ELSE Head(acts[d])
  <2>1. x = m
    BY <1>3
  <2>2. /\ acts' = [e \in Dev |-> CASE e = d /\ d > 1 -> Tail(acts[e])
                                    [] e = d + 1 -> Append(acts[e], x)
                                    [] OTHER -> acts[e]]
        /\ saved' = [saved EXCEPT ![d] = Append(@, x)]
    BY DEF Forward
  <2> HIDE DEF x, m
  <2> QED
    BY <2>1, <2>2
<1>5. /\ saved[d] \in Seq(Nat) /\ fwd[d] \in Nat /\ Done(d) \in Nat
      /\ Stretch(saved[d], Done(d), fwd[d])
  BY <1>1 DEF DataInv
<1>6. /\ Append(saved[d], m) \in Seq(Nat) /\ Stretch(Append(saved[d], m), Done(d), m)
      /\ Len(Append(saved[d], m)) = Len(saved[d]) + 1 /\ Len(saved[d]) \in Nat
  BY <1>5, StretchAppend
<1> HIDE DEF m
<1>7. /\ saved'[d] = Append(saved[d], m) /\ fwd'[d] = m /\ m = fwd[d] + 1
      /\ \A e \in Dev \ {d} : saved'[e] = saved[e] /\ fwd'[e] = fwd[e]
      /\ saved' \in [Dev -> Seq(Nat)] /\ fwd' \in [Dev -> Nat]
  BY <1>1, <1>2, <1>4, <1>5, <1>6 DEF m
<1>8. \A e \in Dev : Done(e)' = Done(e)
  <2>1. Done(d)' = Done(d)
    <3>1. /\ fwd'[d] = fwd[d] + 1 /\ Len(saved'[d]) = Len(saved[d]) + 1
          /\ fwd[d] \in Nat /\ Len(saved[d]) \in Nat
      BY <1>5, <1>6, <1>7
    <3> QED
      BY <3>1 DEF Done
  <2>2. \A e \in Dev \ {d} : Done(e)' = Done(e)
    BY <1>7 DEF Done
  <2> QED
    BY <2>1, <2>2
<1>9. ASSUME NEW e \in Dev
      PROVE  /\ acts'[e] \in Seq(Nat)
             /\ IF e = 1 THEN acts'[e] = <<>> ELSE Stretch(acts'[e], fwd'[e], fwd'[e - 1])
  <2>0. d \in Int /\ e \in Int /\ 1 <= d /\ 1 <= e /\ d <= N /\ e <= N
    BY <1>1 DEF Dev
  <2>1. CASE e = d
    <3>1. CASE d = 1
      <4>1. acts'[e] = acts[e]
        BY <2>1, <3>1, <1>4
      <4> QED
        BY <4>1, <2>1, <3>1, <1>1 DEF DataInv
    <3>2. CASE d # 1
      <4>1. acts'[e] = Tail(acts[d])
        BY <2>0, <2>1, <3>2, <1>4
      <4>2. fwd'[e - 1] = fwd[d - 1]
        BY <2>0, <2>1, <3>2, <1>3, <1>7
      <4> QED
        BY <4>1, <4>2, <2>1, <3>2, <1>3, <1>7
    <3> QED
      BY <3>1, <3>2
  <2>2. CASE e = d + 1
    <3>1. acts'[e] = Append(acts[e], m) /\ e # 1 /\ e # d /\ e - 1 = d
      BY <2>0, <2>2, <1>4
    <3>2. Stretch(acts[e], fwd[e], fwd[d]) /\ acts[e] \in Seq(Nat) /\ fwd[e] \in Nat
      BY <3>1, <1>1 DEF DataInv
    <3>3. Append(acts[e], fwd[d] + 1) \in Seq(Nat)
          /\ Stretch(Append(acts[e], fwd[d] + 1), fwd[e], fwd[d] + 1)
      BY <3>2, <1>5, StretchAppend
    <3> QED
      BY <3>1, <3>3, <1>7
  <2>3. CASE e # d /\ e # d + 1
    <3>1. acts'[e] = acts[e] /\ fwd'[e] = fwd[e] /\ acts[e] \in Seq(Nat)
      BY <2>3, <1>1, <1>4, <1>7
    <3>2. e # 1 => e - 1 \in Dev /\ fwd'[e - 1] = fwd[e - 1]
      <4>1. e # 1 => e - 1 \in Dev /\ e - 1 # d
        BY <2>0, <2>3, <1>1 DEF Dev
      <4> QED
        BY <4>1, <1>7
    <3>3. IF e = 1 THEN acts[e] = <<>> ELSE Stretch(acts[e], fwd[e], fwd[e - 1])
      BY <1>1 DEF DataInv
    <3> QED
      BY <3>1, <3>2, <3>3
  <2> QED
    BY <2>1, <2>2, <2>3
<1>10. acts' \in [Dev -> Seq(Nat)]
  BY <1>4, <1>9
<1>11. /\ Work(d) # <<>> /\ b \in Positions /\ RestLeads(d, b, w)
  BY ForwardInBatch
<1>12. Reached(d)' = b /\ \A e \in Dev \ {d} : Reached(e)' = Reached(e)
  BY <1>2, <1>7, <1>8 DEF Reached
<1>13. w \in Seq(Commands)
  BY <1>11, FrontCommand
<1> HIDE DEF w, b
<1>14. WorkStep(d, b, w)
  BY <1>2, <1>11, <1>12, TailOfWork DEF w, b
<1>15. /\ QueueInv' /\ CheckpointInv' /\ LoopInv' /\ DOMAIN resp' = Dev
       /\ jobs' \in [Dev -> Seq(Commands)] /\ cmdq' \in [Dev -> Seq(Commands)]
       /\ run' = run /\ PerStep' = PerStep
  BY <1>11, <1>13, <1>14, WorkQueues
<1>16. TypeInv'
  BY <1>1, <1>2, <1>7, <1>10, <1>15 DEF TypeInv
<1>17. DataInv'
  <2>1. \A e \in Dev : Summed(e)' <=> Summed(e)
    BY <1>2, <1>8, <1>15 DEF Summed
  <2>2. ASSUME NEW e \in Dev PROVE Stretch(saved'[e], Done(e), fwd'[e])
    <3>1. CASE e = d
      BY <3>1, <1>6, <1>7
    <3>2. CASE e # d
      BY <3>2, <1>1, <1>7 DEF DataInv
    <3> QED
      BY <3>1, <3>2
  <2>3. \A e \in Dev : e # N => e + 1 \in Dev
    BY <1>1 DEF Dev
  <2>4. \A e \in Dev : IF e = N THEN grads'[e] = <<>>
                       ELSE Stretch(grads'[e], Done(e)', Done(e + 1)')
    BY <2>3, <1>1, <1>2, <1>8 DEF DataInv
  <2>5. \A e \in Dev : /\ Done(e)' \in Nat
                       /\ Summed(e)' =>
                            grad'[e] = [i \in 1 .. Done(e)' - version'[e] * PerStep' |->
                                          <<version'[e] * PerStep' + i,
                                            version'[e] * PerStep' + i>>]
    BY <2>1, <1>1, <1>2, <1>8, <1>15 DEF DataInv
  <2> QED
    BY <2>2, <2>4, <2>5, <1>8, <1>9 DEF DataInv
<1> QED
  BY <1>15, <1>16, <1>17 DEF Inner

(* The gradient of n microbatches after a, each with its own forward pass.   *)
Sum(a, n) == [i \in 1 .. n |-> <<a + i, a + i>>]

(* One microbatch more,                                                      *)
LEMMA SumGrows ==
  ASSUME NEW a \in Nat, NEW n \in Nat
  PROVE  Append(Sum(a, n), <<a + n + 1, a + n + 1>>) = Sum(a, n + 1)
<1> DEFINE p == Sum(a, n)
           x == <<a + n + 1, a + n + 1>>
           r == Sum(a, n + 1)
<1>1. /\ p \in Seq(Nat \X Nat) /\ Len(p) = n /\ r \in Seq(Nat \X Nat) /\ Len(r) = n + 1
      /\ x \in Nat \X Nat
  BY DEF Sum
<1>2. \A i \in 1 .. n : p[i] = r[i]
  BY DEF Sum
<1>3. r[n + 1] = x
  BY DEF Sum
<1> HIDE DEF p, x, r
<1>4. /\ Append(p, x) \in Seq(Nat \X Nat) /\ Len(Append(p, x)) = n + 1
      /\ \A i \in 1 .. n : Append(p, x)[i] = p[i]
      /\ Append(p, x)[n + 1] = x
  BY <1>1
<1>5. \A i \in 1 .. n + 1 : Append(p, x)[i] = r[i]
  BY <1>1, <1>2, <1>3, <1>4
<1>6. Append(p, x) = r
  BY <1>1, <1>4, <1>5
<1> QED
  BY <1>6 DEF p, x, r

(* and the first.                                                            *)
LEMMA SumBegins ==
  ASSUME NEW a \in Nat
  PROVE  Append(<<>>, <<a + 1, a + 1>>) = Sum(a, 1)
<1>1. Append(<<>>, <<a + 1, a + 1>>) = << <<a + 1, a + 1>> >>
  OBVIOUS
<1>2. Sum(a, 1) = << <<a + 1, a + 1>> >>
  BY DEF Sum
<1> QED
  BY <1>1, <1>2

(* What is left of a backward command of which one microbatch is done.       *)
LeftOf(c) == [c EXCEPT !.count = @ - 1, !.zero_grad = FALSE]

(* A backward pass clears the gradient if it is the first of its batch, and  *)
(* what is left of its command is the right thing to do next.                *)
LEMMA BackwardInBatch ==
  ASSUME Inner, NEW d \in Dev, Doing(d, "backward")
  PROVE  /\ Work(d) # <<>> /\ Head(Work(d)) \in Commands
         /\ Done(d) < fwd[d] /\ version[d] * PerStep <= Done(d)
         /\ Head(Work(d)).zero_grad <=> Done(d) = version[d] * PerStep
         /\ <<fwd[d], Done(d) + 1, version[d]>> \in Positions
         /\ Head(Work(d)).count = 1 =>
              RestLeads(d, <<fwd[d], Done(d) + 1, version[d]>>, Tail(Work(d)))
         /\ Head(Work(d)).count # 1 =>
              /\ LeftOf(Head(Work(d))) \in Commands
              /\ RestLeads(d, <<fwd[d], Done(d) + 1, version[d]>>,
                           <<LeftOf(Head(Work(d)))>> \o Tail(Work(d)))
<1> DEFINE c == Head(Work(d))
           w == Tail(Work(d))
           a == <<fwd[d], Done(d) + 1, version[d]>>
           l == LeftOf(c)
<1>1. Work(d) # <<>> /\ c.op = "backward"
  BY DEF Doing
<1>2. PICK b \in Positions : Leads(PerStep, Reached(d), c, b) /\ RestLeads(d, b, w)
  BY <1>1, FrontCommand
<1>3. c \in Commands /\ w \in Seq(Commands)
  BY <1>1, FrontCommand
<1>4. /\ fwd[d] \in Nat /\ Done(d) \in Nat /\ version[d] \in Nat /\ PerStep \in Nat \ {0}
      /\ version[d] * PerStep \in Nat
  <2>1. fwd[d] \in Nat /\ Done(d) \in Nat /\ version[d] \in Nat /\ PerStep \in Nat \ {0}
    BY StepSizes DEF Inner, TypeInv, DataInv
  <2> QED
    BY <2>1
<1> HIDE DEF c, w
<1>5. Reached(d)[1] = fwd[d] /\ Reached(d)[2] = Done(d) /\ Reached(d)[3] = version[d]
  BY DEF Reached
<1>6. /\ fwd[d] = Done(d) + c.count
      /\ version[d] * PerStep <= Done(d) /\ fwd[d] <= version[d] * PerStep + PerStep
      /\ c.zero_grad <=> Done(d) = version[d] * PerStep
      /\ b = <<fwd[d], fwd[d], version[d]>>
  BY <1>1, <1>2, <1>5 DEF Leads
<1>7. c.count \in Nat \ {0}
  BY <1>3 DEF Commands
<1>8. Done(d) < fwd[d] /\ a \in Positions
  BY <1>4, <1>6, <1>7 DEF Positions
<1>9. ASSUME c.count = 1 PROVE RestLeads(d, a, w)
  <2>1. b = a
    BY <1>4, <1>6, <1>9
  <2> QED
    BY <2>1, <1>2
<1>10. ASSUME c.count # 1 PROVE l \in Commands /\ RestLeads(d, a, <<l>> \o w)
  <2>1. c.count - 1 \in Nat \ {0}
    BY <1>7, <1>10
  <2>2. /\ l \in Commands /\ l.op = "backward" /\ l.count = c.count - 1
        /\ l.zero_grad = FALSE
    BY <2>1, <1>1, <1>3 DEF LeftOf, Commands
  <2>3. /\ fwd[d] = Done(d) + 1 + (c.count - 1)
        /\ version[d] * PerStep <= Done(d) + 1
        /\ ~(Done(d) + 1 = version[d] * PerStep)
    BY <1>4, <1>6, <1>7
  <2>4. a[1] = fwd[d] /\ a[2] = Done(d) + 1 /\ a[3] = version[d]
    OBVIOUS
  <2> HIDE DEF l, a
  <2>5. Leads(PerStep, a, l, b)
    BY <2>2, <2>3, <2>4, <1>6 DEF Leads
  <2>6. PICK mid \in Positions :
          /\ Chain(PerStep, b, w, mid)
          /\ IF d \in TTDevices THEN Chain(PerStep, mid, cmdq[d], Sent(d)) ELSE mid = Sent(d)
    BY <1>2 DEF RestLeads
  <2>7. Chain(PerStep, a, <<l>> \o w, mid)
    BY <2>2, <2>5, <2>6, <1>3, <1>8, ChainPush
  <2> QED
    BY <2>2, <2>6, <2>7 DEF RestLeads
<1> QED
  BY <1>1, <1>3, <1>6, <1>8, <1>9, <1>10 DEF c, w

(* What RunBackward leaves of the work: less of its command, or the next.    *)
LeftOfWork(d) ==
  (IF Head(Work(d)).count = 1 THEN <<>> ELSE <<LeftOf(Head(Work(d)))>>) \o Tail(Work(d))

(* What is left is the rest of the chain, and has no new checkpoint in it.   *)
LEMMA LeftOfWorkStep ==
  ASSUME Inner, NEW d \in Dev, Doing(d, "backward"),
         NEW b \in Positions, b = <<fwd[d], Done(d) + 1, version[d]>>,
         WorkLeft(d, LeftOfWork(d)),
         Reached(d)' = b, UNCHANGED loop, resp' = resp,
         \A e \in Dev \ {d} : Reached(e)' = Reached(e)
  PROVE  WorkStep(d, b, LeftOfWork(d)) /\ LeftOfWork(d) \in Seq(Commands)
<1> DEFINE c == Head(Work(d))
           w == Tail(Work(d))
           l == LeftOf(c)
<1>1. Work(d) # <<>> /\ c.op = "backward"
  BY DEF Doing
<1>2. /\ c \in Commands /\ w \in Seq(Commands)
      /\ Len(Work(d)) \in Nat \ {0} /\ Len(w) = Len(Work(d)) - 1
      /\ \A i \in 1 .. Len(Work(d)) - 1 : w[i] = Work(d)[i + 1]
  BY <1>1, FrontCommand
<1>3. CASE c.count = 1
  <2>1. LeftOfWork(d) = w
    BY <1>2, <1>3 DEF LeftOfWork
  <2>2. RestLeads(d, b, w)
    BY <1>3, BackwardInBatch
  <2> QED
    BY <2>1, <2>2, <1>1, <1>2, TailOfWork
<1>4. CASE c.count # 1
  <2> DEFINE q == <<l>> \o w
  <2>1. LeftOfWork(d) = q
    BY <1>4 DEF LeftOfWork
  <2>2. l \in Commands /\ RestLeads(d, b, q)
    BY <1>4, BackwardInBatch
  <2>3. l.op # "checkpoint"
    BY <1>1, <1>2 DEF LeftOf, Commands
  <2> HIDE DEF c, w, l
  <2>4. /\ q \in Seq(Commands) /\ Len(q) = Len(w) + 1 /\ q[1] = l
        /\ \A i \in 1 .. Len(w) : q[i + 1] = w[i]
    BY <2>2, <1>2
  <2> HIDE DEF q
  <2>5. ASSUME NEW i \in 1 .. Len(q), q[i].op = "checkpoint"
        PROVE  /\ i + (Len(Work(d)) - Len(q)) \in 1 .. Len(Work(d))
               /\ Work(d)[i + (Len(Work(d)) - Len(q))].op = "checkpoint"
    <3>1. i # 1 /\ i + (Len(Work(d)) - Len(q)) = i /\ i \in 1 .. Len(Work(d))
      BY <2>3, <2>4, <2>5, <1>2
    <3> DEFINE k == i - 1
    <3>2. k \in 1 .. Len(w) /\ k + 1 = i
      BY <3>1, <2>4
    <3> HIDE DEF k
    <3>3. q[i] = Work(d)[i]
      BY <3>2, <2>4, <1>2
    <3> QED
      BY <3>1, <3>3, <2>5
  <2>6. WorkStep(d, b, q)
    BY <2>1, <2>2, <2>5 DEF WorkStep
  <2> QED
    BY <2>1, <2>4, <2>6
<1> QED
  BY <1>3, <1>4

(* A device runs the backward pass of a microbatch.                          *)
LEMMA RunBackwardKeeps ==
  ASSUME Inner, NEW d \in Dev, RunBackward(d)
  PROVE  Inner'
<1> DEFINE c == Head(Work(d))
           m == Done(d) + 1
           b == <<fwd[d], Done(d) + 1, version[d]>>
           a == version[d] * PerStep
<1>1. /\ TypeInv /\ DataInv
      /\ fwd \in [Dev -> Nat] /\ saved \in [Dev -> Seq(Nat)] /\ grads \in [Dev -> Seq(Nat)]
      /\ version \in [Dev -> Nat] /\ DOMAIN grad = Dev /\ N \in Nat \ {0}
      /\ PerStep \in Nat
  BY TrainingAssumption, StepSizes DEF Inner, TypeInv
<1>2. /\ Doing(d, "backward") /\ saved[d] # <<>> /\ (d = N \/ grads[d] # <<>>)
      /\ saved' = [saved EXCEPT ![d] = Tail(@)]
      /\ UNCHANGED <<loop, resp, acts, fwd, version>>
  BY DEF RunBackward, HasGradient
<1>3. /\ Head(saved[d]) = m /\ Tail(saved[d]) \in Seq(Nat)
      /\ Stretch(Tail(saved[d]), m, fwd[d])
      /\ saved[d] \in Seq(Nat) /\ fwd[d] \in Nat /\ Done(d) \in Nat
  <2>1. Stretch(saved[d], Done(d), fwd[d]) /\ saved[d] \in Seq(Nat)
        /\ fwd[d] \in Nat /\ Done(d) \in Nat
    BY <1>1 DEF DataInv
  <2> QED
    BY <2>1, <1>2, StretchTail
<1>4. d # N => /\ d + 1 \in Dev /\ Head(grads[d]) = m /\ Tail(grads[d]) \in Seq(Nat)
               /\ Stretch(Tail(grads[d]), m, Done(d + 1))
  <2> SUFFICES ASSUME d # N
               PROVE  /\ d + 1 \in Dev /\ Head(grads[d]) = m /\ Tail(grads[d]) \in Seq(Nat)
                      /\ Stretch(Tail(grads[d]), m, Done(d + 1))
    OBVIOUS
  <2>1. d + 1 \in Dev
    BY <1>1 DEF Dev
  <2>2. Stretch(grads[d], Done(d), Done(d + 1)) /\ grads[d] # <<>> /\ grads[d] \in Seq(Nat)
        /\ Done(d) \in Nat /\ Done(d + 1) \in Nat
    BY <2>1, <1>1, <1>2 DEF DataInv
  <2> QED
    BY <2>1, <2>2, StretchTail
<1>5. /\ grad' = [grad EXCEPT ![d] = Append(IF c.zero_grad THEN <<>> ELSE @, <<m, m>>)]
      /\ grads' = [e \in Dev |-> CASE e = d /\ d < N -> Tail(grads[e])
                                   [] e = d - 1 -> Append(grads[e], m)
                                   [] OTHER -> grads[e]]
      /\ WorkLeft(d, LeftOfWork(d))
  <2> DEFINE x == Head(saved[d])
             g == IF d = N THEN x ELSE Head(grads[d])
  <2>1. x = m /\ g = m
    BY <1>3, <1>4
  <2>2. /\ grad' = [grad EXCEPT ![d] = Append(IF c.zero_grad THEN <<>> ELSE @, <<x, g>>)]
        /\ grads' = [e \in Dev |-> CASE e = d /\ d < N -> Tail(grads[e])
                                     [] e = d - 1 -> Append(grads[e], g)
                                     [] OTHER -> grads[e]]
        /\ WorkLeft(d, LeftOfWork(d))
    BY DEF RunBackward, LeftOfWork, LeftOf
  <2> HIDE DEF x, g, m, c
  <2> QED
    BY <2>1, <2>2
<1>6. /\ Len(Tail(saved[d])) = Len(saved[d]) - 1 /\ Len(saved[d]) \in Nat
      /\ saved'[d] = Tail(saved[d])
      /\ \A e \in Dev \ {d} : saved'[e] = saved[e]
      /\ saved' \in [Dev -> Seq(Nat)]
  BY <1>1, <1>2, <1>3
<1>7. Done(d)' = m /\ \A e \in Dev \ {d} : Done(e)' = Done(e)
  <2>1. Done(d)' = m
    <3>1. /\ fwd'[d] = fwd[d] /\ Len(saved'[d]) = Len(saved[d]) - 1
          /\ fwd[d] \in Nat /\ Len(saved[d]) \in Nat
      BY <1>2, <1>3, <1>6
    <3> QED
      BY <3>1 DEF Done
  <2>2. \A e \in Dev \ {d} : Done(e)' = Done(e)
    BY <1>2, <1>6 DEF Done
  <2> QED
    BY <2>1, <2>2
<1>8. /\ b \in Positions /\ a <= Done(d) /\ (c.zero_grad <=> Done(d) = a)
      /\ c \in Commands
  BY <1>2, BackwardInBatch
<1>9. Reached(d)' = b /\ \A e \in Dev \ {d} : Reached(e)' = Reached(e)
  BY <1>2, <1>7 DEF Reached
<1>10. WorkStep(d, b, LeftOfWork(d)) /\ LeftOfWork(d) \in Seq(Commands)
  BY <1>2, <1>5, <1>8, <1>9, LeftOfWorkStep
<1> HIDE DEF b, m, c
<1>11. /\ QueueInv' /\ CheckpointInv' /\ LoopInv' /\ DOMAIN resp' = Dev
       /\ jobs' \in [Dev -> Seq(Commands)] /\ cmdq' \in [Dev -> Seq(Commands)]
       /\ run' = run /\ PerStep' = PerStep
  BY <1>8, <1>10, WorkQueues
<1>12. ASSUME NEW e \in Dev
       PROVE  /\ grads'[e] \in Seq(Nat)
              /\ IF e = N THEN grads'[e] = <<>>
                 ELSE Stretch(grads'[e], Done(e)', Done(e + 1)')
  <2>0. d \in Int /\ e \in Int /\ 1 <= d /\ 1 <= e /\ d <= N /\ e <= N
    BY <1>1 DEF Dev
  <2>1. CASE e = d
    <3>1. CASE d = N
      <4>1. grads'[e] = grads[e]
        BY <2>0, <2>1, <3>1, <1>1, <1>5
      <4> QED
        BY <4>1, <2>1, <3>1, <1>1 DEF DataInv
    <3>2. CASE d # N
      <4>1. grads'[e] = Tail(grads[d])
        BY <2>0, <2>1, <3>2, <1>1, <1>5
      <4>2. Done(e + 1)' = Done(d + 1)
        <5>1. d + 1 \in Dev /\ d + 1 # d
          BY <2>0, <3>2, <1>4
        <5> QED
          BY <5>1, <2>1, <1>7
      <4> QED
        BY <4>1, <4>2, <2>1, <3>2, <1>4, <1>7
    <3> QED
      BY <3>1, <3>2
  <2>2. CASE e = d - 1
    <3>0. e # N /\ e # d /\ e + 1 = d
      BY <2>0, <2>2, <1>1
    <3>1. grads'[e] = Append(grads[e], m) /\ e # N /\ e # d /\ e + 1 = d
      BY <3>0, <2>2, <1>5, Zenon
    <3>2. Stretch(grads[e], Done(e), Done(d)) /\ grads[e] \in Seq(Nat) /\ Done(e) \in Nat
      BY <3>1, <1>1 DEF DataInv
    <3>3. Append(grads[e], Done(d) + 1) \in Seq(Nat)
          /\ Stretch(Append(grads[e], Done(d) + 1), Done(e), Done(d) + 1)
      BY <3>2, <1>3, StretchAppend
    <3>4. Done(e)' = Done(e) /\ Done(e + 1)' = Done(d) + 1
      BY <3>1, <1>7 DEF m
    <3> QED
      BY <3>1, <3>3, <3>4 DEF m
  <2>3. CASE e # d /\ e # d - 1
    <3>1. grads'[e] = grads[e] /\ Done(e)' = Done(e) /\ grads[e] \in Seq(Nat)
      BY <2>3, <1>1, <1>5, <1>7
    <3>2. e # N => Done(e + 1)' = Done(e + 1)
      <4>1. e # N => e + 1 \in Dev /\ e + 1 # d
        BY <2>0, <2>3, <1>1 DEF Dev
      <4> QED
        BY <4>1, <1>7
    <3>3. IF e = N THEN grads[e] = <<>> ELSE Stretch(grads[e], Done(e), Done(e + 1))
      BY <1>1 DEF DataInv
    <3> QED
      BY <3>1, <3>2, <3>3
  <2> QED
    BY <2>1, <2>2, <2>3
<1>13. grads' \in [Dev -> Seq(Nat)]
  BY <1>5, <1>12
<1>14. TypeInv'
  <2>1. DOMAIN grad' = Dev
    BY <1>1, <1>5
  <2> QED
    BY <2>1, <1>1, <1>2, <1>6, <1>11, <1>13 DEF TypeInv
<1>15. grad'[d] = Sum(a, m - a) /\ m - a \in Nat
  <2>1. a \in Nat /\ Done(d) - a \in Nat /\ m = Done(d) + 1
    BY <1>1, <1>3, <1>8 DEF m
  <2>2. CASE Done(d) = a
    <3>1. grad'[d] = Append(<<>>, <<m, m>>)
      BY <2>2, <1>1, <1>5, <1>8
    <3>2. m = a + 1 /\ m - a = 1
      BY <2>1, <2>2
    <3>3. Append(<<>>, <<a + 1, a + 1>>) = Sum(a, 1)
      BY <2>1, SumBegins
    <3> HIDE DEF a
    <3> QED
      BY <3>1, <3>2, <3>3
  <2>3. CASE Done(d) # a
    <3>1. grad'[d] = Append(grad[d], <<m, m>>)
      BY <2>3, <1>1, <1>5, <1>8
    <3>2. Summed(d)
      <4>1. a < Done(d)
        <5> HIDE DEF a
        <5> QED
          BY <2>1, <2>3, <1>3, <1>8
      <4> QED
        BY <4>1 DEF Summed
    <3>3. grad[d] = Sum(a, Done(d) - a)
      BY <3>2, <1>1 DEF DataInv, Sum
    <3> DEFINE n == Done(d) - a
    <3> HIDE DEF a
    <3>4. n \in Nat /\ m = a + n + 1 /\ m - a = n + 1
      BY <2>1, <1>3
    <3> HIDE DEF n
    <3>5. Append(Sum(a, n), <<a + n + 1, a + n + 1>>) = Sum(a, n + 1)
      BY <2>1, <3>4, SumGrows
    <3> QED
      BY <3>1, <3>3, <3>4, <3>5 DEF n
  <2> QED
    BY <2>2, <2>3, <2>1
<1>16. DataInv'
  <2>1. ASSUME NEW e \in Dev PROVE Stretch(saved'[e], Done(e)', fwd[e])
    <3>1. CASE e = d
      BY <3>1, <1>3, <1>6, <1>7
    <3>2. CASE e # d
      BY <3>2, <1>1, <1>6, <1>7 DEF DataInv
    <3> QED
      BY <3>1, <3>2
  <2>2. ASSUME NEW e \in Dev
        PROVE  /\ Done(e)' \in Nat
               /\ Summed(e)' =>
                    grad'[e] = [i \in 1 .. Done(e)' - version'[e] * PerStep' |->
                                  <<version'[e] * PerStep' + i,
                                    version'[e] * PerStep' + i>>]
    <3>1. CASE e = d
      BY <3>1, <1>2, <1>3, <1>7, <1>11, <1>15 DEF m, Sum
    <3>2. CASE e # d
      <4>1. Summed(e)' <=> Summed(e)
        BY <3>2, <1>2, <1>7, <1>11 DEF Summed
      <4>2. grad'[e] = grad[e] /\ Done(e)' = Done(e)
        BY <3>2, <1>1, <1>5, <1>7
      <4> QED
        BY <4>1, <4>2, <1>1, <1>2, <1>11 DEF DataInv
    <3> QED
      BY <3>1, <3>2
  <2>3. \A e \in Dev : IF e = 1 THEN acts'[e] = <<>> ELSE Stretch(acts'[e], fwd'[e], fwd'[e - 1])
    BY <1>1, <1>2 DEF DataInv
  <2> QED
    BY <2>1, <2>2, <2>3, <1>2, <1>12 DEF DataInv
<1> QED
  BY <1>11, <1>14, <1>16 DEF Inner

(* An optimizer step applies the whole gradient of its own batch.            *)
LEMMA OptimizerInBatch ==
  ASSUME Inner, NEW d \in Dev, Optimizer(d)
  PROVE  /\ Work(d) # <<>>
         /\ Done(d) = (version[d] + 1) * PerStep
         /\ grad[d] = BatchGradient(version[d])
         /\ <<fwd[d], Done(d), version[d] + 1>> \in Positions
         /\ RestLeads(d, <<fwd[d], Done(d), version[d] + 1>>, Tail(Work(d)))
<1> DEFINE P == PerStep
           V == version[d]
<1>1. Work(d) # <<>> /\ Head(Work(d)).op = "optimizer"
  BY DEF Optimizer, Doing
<1>2. PICK b \in Positions : /\ Leads(PerStep, Reached(d), Head(Work(d)), b)
                             /\ RestLeads(d, b, Tail(Work(d)))
  BY <1>1, FrontCommand
<1>3. /\ Reached(d)[1] = Reached(d)[3] * PerStep + PerStep
      /\ Reached(d)[2] = Reached(d)[1]
      /\ b = <<Reached(d)[1], Reached(d)[2], Reached(d)[3] + 1>>
  BY <1>1, <1>2 DEF Leads
<1>4. Reached(d)[1] = fwd[d] /\ Reached(d)[2] = Done(d) /\ Reached(d)[3] = version[d]
  BY DEF Reached
<1>5. Done(d) = V * P + P /\ b = <<fwd[d], Done(d), version[d] + 1>>
  BY <1>3, <1>4
<1>6. V \in Nat /\ P \in Nat \ {0} /\ Done(d) \in Nat /\ V * P \in Nat
  <2>1. V \in Nat /\ P \in Nat \ {0} /\ Done(d) \in Nat
    BY StepSizes DEF Inner, TypeInv, DataInv
  <2> HIDE DEF P, V
  <2> QED
    BY <2>1
<1>7. Summed(d) => grad[d] = [i \in 1 .. Done(d) - V * P |-> <<V * P + i, V * P + i>>]
  BY DEF Inner, DataInv
<1>8. Done(d) = (V + 1) * P /\ V * P < Done(d) /\ Done(d) - V * P = P
  <2> HIDE DEF P, V
  <2>1. (V + 1) * P = V * P + P
    BY <1>6
  <2> DEFINE X == V * P
  <2>2. X \in Nat /\ Done(d) = X + P
    BY <1>5, <1>6
  <2>3. (V + 1) * P = X + P
    BY <2>1
  <2> HIDE DEF X
  <2>4. Done(d) = (V + 1) * P /\ X < Done(d) /\ Done(d) - X = P
    BY <2>2, <2>3, <1>6
  <2> QED
    BY <2>4 DEF X
<1>9. Summed(d)
  BY <1>8 DEF Summed
<1>10. grad[d] = BatchGradient(version[d])
  BY <1>7, <1>8, <1>9 DEF BatchGradient
<1> QED
  BY <1>1, <1>2, <1>5, <1>8, <1>10

(* A device takes an optimizer step.                                         *)
LEMMA OptimizerKeeps ==
  ASSUME Inner, NEW d \in Dev, Optimizer(d)
  PROVE  Inner'
<1> DEFINE w == Tail(Work(d))
           b == <<fwd[d], Done(d), version[d] + 1>>
<1>1. TypeInv /\ DataInv /\ version \in [Dev -> Nat] /\ PerStep \in Nat
      /\ fwd \in [Dev -> Nat]
  BY StepSizes DEF Inner, TypeInv
<1>2. /\ version' = [version EXCEPT ![d] = @ + 1] /\ WorkLeft(d, w)
      /\ UNCHANGED <<loop, resp, acts, grads, saved, fwd, grad>>
  BY DEF Optimizer
<1>3. /\ Work(d) # <<>> /\ Done(d) = (version[d] + 1) * PerStep
      /\ b \in Positions /\ RestLeads(d, b, w)
  BY OptimizerInBatch
<1>4. /\ version' \in [Dev -> Nat] /\ version'[d] = version[d] + 1
      /\ \A e \in Dev \ {d} : version'[e] = version[e]
  BY <1>1, <1>2
<1>5. \A e \in Dev : Done(e)' = Done(e)
  BY <1>2 DEF Done
<1>6. Reached(d)' = b /\ \A e \in Dev \ {d} : Reached(e)' = Reached(e)
  BY <1>2, <1>4, <1>5 DEF Reached
<1>7. w \in Seq(Commands)
  BY <1>3, FrontCommand
<1> HIDE DEF w, b
<1>8. WorkStep(d, b, w)
  BY <1>2, <1>3, <1>6, TailOfWork DEF w, b
<1>9. /\ QueueInv' /\ CheckpointInv' /\ LoopInv' /\ DOMAIN resp' = Dev
      /\ jobs' \in [Dev -> Seq(Commands)] /\ cmdq' \in [Dev -> Seq(Commands)]
      /\ run' = run /\ PerStep' = PerStep
  BY <1>3, <1>7, <1>8, WorkQueues
<1>10. TypeInv'
  BY <1>1, <1>2, <1>4, <1>9 DEF TypeInv
<1>11. DataInv'
  <2>1. ~Summed(d)'
    <3> DEFINE X == (version[d] + 1) * PerStep
    <3>1. Done(d)' = X /\ version'[d] * PerStep' = X /\ X \in Nat
      <4>1. X \in Nat
        BY <1>1
      <4> QED
        BY <4>1, <1>3, <1>4, <1>5, <1>9
    <3> HIDE DEF X
    <3> QED
      BY <3>1 DEF Summed
  <2>2. \A e \in Dev \ {d} : Summed(e)' <=> Summed(e)
    BY <1>4, <1>5, <1>9 DEF Summed
  <2>3. ASSUME NEW e \in Dev
        PROVE  Summed(e)' => grad'[e] = [i \in 1 .. Done(e)' - version'[e] * PerStep' |->
                                           <<version'[e] * PerStep' + i,
                                             version'[e] * PerStep' + i>>]
    <3>1. CASE e = d
      BY <3>1, <2>1
    <3>2. CASE e # d
      BY <3>2, <2>2, <1>1, <1>2, <1>4, <1>5, <1>9 DEF DataInv
    <3> QED
      BY <3>1, <3>2
  <2>4. \A e \in Dev : e # N => e + 1 \in Dev
    BY TrainingAssumption DEF Dev
  <2>5. \A e \in Dev : IF e = N THEN grads'[e] = <<>>
                       ELSE Stretch(grads'[e], Done(e)', Done(e + 1)')
    BY <2>4, <1>1, <1>2, <1>5 DEF DataInv
  <2>6. \A e \in Dev : /\ Done(e)' \in Nat /\ Stretch(saved'[e], Done(e)', fwd'[e])
                       /\ IF e = 1 THEN acts'[e] = <<>>
                          ELSE Stretch(acts'[e], fwd'[e], fwd'[e - 1])
    BY <1>1, <1>2, <1>5 DEF DataInv
  <2> QED
    BY <2>3, <2>5, <2>6 DEF DataInv
<1> QED
  BY <1>9, <1>10, <1>11 DEF Inner

------------------------------------------------------------------------------
(* The training begins.                                                      *)
LEMMA InitInner == ASSUME Init PROVE Inner
<1>1. /\ run \in [epochs : EpochCounts, steps : StepCounts,
                  accumulation : AccumulationCounts, microbatches : MicrobatchCounts,
                  interval : Intervals, scheduler : Schedulers]
      /\ lpc = "forward" /\ at = Start /\ steps = 0 /\ asked = FALSE /\ parts = <<>>
      /\ cmdq = [d \in Dev |-> <<>>] /\ resp = [d \in Dev |-> <<>>]
      /\ jobs = [d \in Dev |-> <<>>]
      /\ acts = [d \in Dev |-> <<>>] /\ grads = [d \in Dev |-> <<>>]
      /\ saved = [d \in Dev |-> <<>>] /\ fwd = [d \in Dev |-> 0]
      /\ grad = [d \in Dev |-> <<>>] /\ version = [d \in Dev |-> 0]
  BY DEF Init
<1>2. /\ EpochCounts \subseteq Nat \ {0} /\ StepCounts \subseteq Nat \ {0}
      /\ AccumulationCounts \subseteq Nat \ {0} /\ MicrobatchCounts \subseteq Nat \ {0}
      /\ Intervals \subseteq Nat /\ Schedulers \subseteq BOOLEAN /\ N \in Nat \ {0}
  BY TrainingAssumption
<1>3. <<>> \in Seq(Commands) /\ <<>> \in Seq(Nat) /\ Len(<<>>) = 0
  OBVIOUS
<1>4. TypeInv
  <2>1. run \in [epochs : Nat \ {0}, steps : Nat \ {0}, accumulation : Nat \ {0},
                 microbatches : Nat \ {0}, interval : Nat, scheduler : BOOLEAN]
    BY <1>1, <1>2
  <2>2. jobs \in [Dev -> Seq(Commands)] /\ cmdq \in [Dev -> Seq(Commands)]
        /\ acts \in [Dev -> Seq(Nat)] /\ saved \in [Dev -> Seq(Nat)]
        /\ grads \in [Dev -> Seq(Nat)]
    BY <1>1, <1>3
  <2> QED
    BY <2>1, <2>2, <1>1 DEF TypeInv
<1>5. LoopInv
  <2>1. 1 \in Dev
    BY <1>2 DEF Dev
  <2>2. /\ at \in [epoch : Nat, batch : Nat, mini : Nat, micro : Nat \ {0}, dev : Dev]
        /\ at.mini = 0 /\ at.micro = 1
    BY <2>1, <1>1 DEF Start
  <2>3. 0 < run.accumulation /\ 1 <= run.microbatches
    BY <1>4 DEF TypeInv
  <2> QED
    BY <2>2, <2>3, <1>1 DEF LoopInv
<1>6. \A d \in Dev : Done(d) = 0
  BY <1>1, <1>3 DEF Done
<1>7. QueueInv
  <2> SUFFICES ASSUME NEW d \in Dev
               PROVE  /\ jobs[d] = <<>>
                      /\ \E mid \in Positions : /\ Chain(PerStep, Reached(d), jobs[d], mid)
                                                /\ Chain(PerStep, mid, cmdq[d], Sent(d))
    BY DEF QueueInv
  <2> DEFINE z == <<0, 0, 0>>
  <2>1. Reached(d) = z
    BY <1>1, <1>6 DEF Reached
  <2>2. Sent(d) = z
    <3>1. steps * PerStep + at.mini * run.microbatches = 0
      <4>1. steps * PerStep = 0
        BY <1>1, <1>4, <1>5, StepSizes
      <4>2. at.mini * run.microbatches = 0
        BY <1>1, <1>4, <1>5, StepSizes DEF Start
      <4> QED
        BY <4>1, <4>2
    <3>2. (IF d < at.dev THEN at.micro ELSE at.micro - 1) = 0
      BY <1>1, <1>2 DEF Start, Dev
    <3>3. Sent(d) = <<steps * PerStep + at.mini * run.microbatches
                        + (IF d < at.dev THEN at.micro ELSE at.micro - 1),
                      steps * PerStep + at.mini * run.microbatches, steps>>
      BY <1>1, <1>4, <1>5, SentIn
    <3> QED
      BY <3>1, <3>2, <3>3, <1>1
  <2>3. z \in Positions
    BY DEF Positions
  <2> HIDE DEF z
  <2>4. Chain(PerStep, z, <<>>, z)
    BY <2>3, ChainOfNone
  <2> QED
    BY <2>1, <2>2, <2>3, <2>4, <1>1
<1>8. DataInv
  <2>1. \A d \in Dev : Done(d) \in Nat /\ saved[d] = <<>> /\ acts[d] = <<>> /\ grads[d] = <<>>
                       /\ fwd[d] = 0 /\ version[d] = 0
    BY <1>1, <1>6
  <2>2. Stretch(<<>>, 0, 0)
    BY DEF Stretch
  <2>3. \A d \in Dev : d # 1 => d - 1 \in Dev
    BY <1>2 DEF Dev
  <2>4. \A d \in Dev : d # N => d + 1 \in Dev
    BY <1>2 DEF Dev
  <2>5. PerStep \in Nat
    BY <1>4, <1>5, StepSizes
  <2>6. \A d \in Dev : ~Summed(d)
    BY <2>1, <2>5, <1>6 DEF Summed
  <2> QED
    BY <2>1, <2>2, <2>3, <2>4, <2>6, <1>6 DEF DataInv
<1>9. CheckpointInv
  BY <1>1, <1>3 DEF CheckpointInv
<1> QED
  BY <1>4, <1>5, <1>7, <1>8, <1>9 DEF Inner

(* Nothing changes, but a feeder may die.                                    *)
LEMMA StutterKeeps ==
  ASSUME Inner, UNCHANGED <<loop, cmdq, resp, jobs, data>>
  PROVE  Inner'
<1>1. UNCHANGED <<run, lpc, at, steps, asked, parts, cmdq, resp, jobs, data>>
  BY DEF loop
<1>2. \A d \in Dev : Sent(d)' = Sent(d)
  BY <1>1 DEF Sent, PerStep
<1>3. LoopInv' /\ CheckpointInv'
  BY <1>1 DEF Inner, LoopInv, CheckpointInv
<1>4. DOMAIN resp' = Dev
  BY <1>1 DEF Inner, TypeInv
<1> QED
  BY <1>1, <1>2, <1>3, <1>4, QuietKeeps DEF Inner

(* Every step before something fails keeps the invariant.                    *)
LEMMA NextInner ==
  ASSUME Inner, [Next]_vars, ~event, ~event'
  PROVE  Inner'
<1>1. CASE Loop
  <2>1. ~SchedulerRaises /\ ~LoseCheckpoint
    BY DEF SchedulerRaises, LoseCheckpoint, ErrorShutdown
  <2> QED
    BY <2>1, <1>1, PushForwardKeeps, PushBackwardKeeps, PushOptimizerKeeps, LookKeeps,
       EndEpochKeeps, RequestCheckpointKeeps, GetCheckpointKeeps DEF Loop
<1>2. ASSUME NEW d \in Dev, Device(d) \/ PassFails(d) \/ FeederDies(d) PROVE Inner'
  <2>1. ~PassFails(d) /\ ~PassHasNoData(d) /\ ~DeviceEnds(d)
    BY DEF PassFails, PassHasNoData, PassRaises, DeviceEnds
  <2>2. CASE FeederDies(d)
    BY <2>2, StutterKeeps DEF FeederDies
  <2>3. CASE Device(d)
    BY <2>1, <2>3, ToFeederKeeps, AnswerCheckpointKeeps, ForwardKeeps, RunBackwardKeeps,
       OptimizerKeeps DEF Device
  <2> QED
    BY <1>2, <2>1, <2>2, <2>3
<1>3. CASE UNCHANGED vars
  BY <1>3, StutterKeeps DEF vars
<1> QED
  BY <1>1, <1>2, <1>3 DEF Next

(* Once something has failed the event stays.                                *)
LEMMA EventStays == ASSUME event, [Next]_vars PROVE event'
<1>1. CASE Loop
  BY <1>1 DEF Loop, PushForward, PushBackward, PushOptimizer, Look, EndEpoch,
     SchedulerRaises, RequestCheckpoint, GetCheckpoint, LoseCheckpoint, ErrorShutdown
<1>2. ASSUME NEW d \in Dev, Device(d) \/ PassFails(d) \/ FeederDies(d) PROVE event'
  BY <1>2 DEF Device, ToFeeder, AnswerCheckpoint, DeviceEnds, Forward, RunBackward,
     Optimizer, PassHasNoData, PassFails, PassRaises, FeederDies
<1>3. CASE UNCHANGED vars
  BY <1>3 DEF vars
<1> QED
  BY <1>1, <1>2, <1>3 DEF Next

(* Until something fails, what is queued for every device takes it from      *)
(* where it is to where the loop thread wants it, and what is on its way     *)
(* between the devices is of consecutive microbatches.                       *)
THEOREM Invariant == Spec => []IInv
<1>1. Init => IInv
  BY InitInner DEF IInv
<1>2. IInv /\ [Next]_vars => IInv'
  BY NextInner, EventStays DEF IInv
<1> QED
  BY <1>1, <1>2, PTL DEF Spec

(* Only the loop thread puts checkpoints in their queue.                     *)
LEMMA CheckpointStep ==
  ASSUME Inner, [Next]_vars, ~event, checkpoints' # checkpoints
  PROVE  checkpoints' = Append(checkpoints, [d \in Dev |-> steps])
<1>1. GetCheckpoint
  <2>1. CASE Loop
    BY <2>1 DEF Loop, PushForward, PushBackward, PushOptimizer, Look, EndEpoch,
       SchedulerRaises, RequestCheckpoint, LoseCheckpoint
  <2>2. ASSUME NEW d \in Dev, Device(d) \/ PassFails(d) \/ FeederDies(d) PROVE FALSE
    BY <2>2 DEF Device, ToFeeder, AnswerCheckpoint, DeviceEnds, Forward, RunBackward,
       Optimizer, PassHasNoData, PassFails, PassRaises, FeederDies, loop
  <2>3. CASE UNCHANGED vars
    BY <2>3 DEF vars, loop
  <2> QED
    BY <2>1, <2>2, <2>3 DEF Next
<1>2. asked /\ resp[at.dev] # <<>> /\ Collect(Head(resp[at.dev]))
  BY <1>1 DEF GetCheckpoint
<1>3. ~(at.dev < N) /\ checkpoints' = Append(checkpoints, Append(parts, steps))
  BY <1>2, PartIsOfStep DEF Collect
<1>4. at.dev \in Dev /\ N \in Nat \ {0} /\ steps \in Nat
      /\ parts = [i \in 1 .. at.dev - 1 |-> steps]
  BY <1>2, TrainingAssumption DEF Inner, LoopInv, CheckpointInv
<1>5. at.dev = N /\ N - 1 \in Nat /\ N - 1 + 1 = N
  BY <1>3, <1>4 DEF Dev
<1> DEFINE n == N - 1
<1>6. n \in Nat /\ n + 1 = N /\ parts = [i \in 1 .. n |-> steps]
  BY <1>4, <1>5
<1> HIDE DEF n
<1>7. Append(parts, steps) = [i \in 1 .. N |-> steps]
  BY <1>4, <1>6, PartsGrow
<1> QED
  BY <1>3, <1>7 DEF Dev

(* A checkpoint that is put in the queue before anything fails is of one     *)
(* moment.                                                                   *)
THEOREM NoCheckpointTorn == Spec => NoTornCheckpoint
<1>1. IInv /\ [Next]_vars
        => [~event /\ checkpoints' # checkpoints
              => checkpoints' = Append(checkpoints, [d \in Dev |-> steps])]_vars
  BY CheckpointStep DEF IInv
<1> QED
  BY <1>1, Invariant, PTL DEF Spec, NoTornCheckpoint

(* Only a forward pass counts as one, and only an optimizer step changes     *)
(* the weights.                                                              *)
LEMMA BatchStep ==
  ASSUME Inner, [Next]_vars, ~event, NEW d \in Dev
  PROVE  /\ fwd'[d] # fwd[d] => version[d] = fwd[d] \div PerStep
         /\ version'[d] # version[d] => grad[d] = BatchGradient(version[d])
<1>1. fwd'[d] = fwd[d] \/ Forward(d)
  <2>1. CASE Loop
    BY <2>1 DEF Loop, PushForward, PushBackward, PushOptimizer, Look, EndEpoch,
       SchedulerRaises, RequestCheckpoint, GetCheckpoint, LoseCheckpoint, data
  <2>2. ASSUME NEW e \in Dev, Device(e) \/ PassFails(e) \/ FeederDies(e)
        PROVE  fwd'[d] = fwd[d] \/ Forward(d)
    <3>1. CASE Forward(e)
      <4>1. fwd' = [fwd EXCEPT ![e] = @ + 1] /\ fwd \in [Dev -> Nat]
        BY <3>1 DEF Forward, Inner, TypeInv
      <4> QED
        BY <4>1, <3>1
    <3>2. CASE ~Forward(e)
      <4>1. fwd' = fwd
        BY <2>2, <3>2 DEF Device, ToFeeder, AnswerCheckpoint, DeviceEnds, RunBackward,
           Optimizer, PassHasNoData, PassFails, PassRaises, FeederDies, data
      <4> QED
        BY <4>1
    <3> QED
      BY <3>1, <3>2
  <2>3. CASE UNCHANGED vars
    BY <2>3 DEF vars, data
  <2> QED
    BY <2>1, <2>2, <2>3 DEF Next
<1>2. version'[d] = version[d] \/ Optimizer(d)
  <2>1. CASE Loop
    BY <2>1 DEF Loop, PushForward, PushBackward, PushOptimizer, Look, EndEpoch,
       SchedulerRaises, RequestCheckpoint, GetCheckpoint, LoseCheckpoint, data
  <2>2. ASSUME NEW e \in Dev, Device(e) \/ PassFails(e) \/ FeederDies(e)
        PROVE  version'[d] = version[d] \/ Optimizer(d)
    <3>1. CASE Optimizer(e)
      <4>1. version' = [version EXCEPT ![e] = @ + 1] /\ version \in [Dev -> Nat]
        BY <3>1 DEF Optimizer, Inner, TypeInv
      <4> QED
        BY <4>1, <3>1
    <3>2. CASE ~Optimizer(e)
      <4>1. version' = version
        BY <2>2, <3>2 DEF Device, ToFeeder, AnswerCheckpoint, DeviceEnds, Forward,
           RunBackward, PassHasNoData, PassFails, PassRaises, FeederDies, data
      <4> QED
        BY <4>1
    <3> QED
      BY <3>1, <3>2
  <2>3. CASE UNCHANGED vars
    BY <2>3 DEF vars, data
  <2> QED
    BY <2>1, <2>2, <2>3 DEF Next
<1>3. ASSUME Forward(d) PROVE version[d] = fwd[d] \div PerStep
  <2>1. version[d] * PerStep <= fwd[d] /\ fwd[d] < version[d] * PerStep + PerStep
    BY <1>3, ForwardInBatch
  <2>2. PerStep \in Nat \ {0} /\ version[d] \in Nat /\ fwd[d] \in Nat
    BY StepSizes DEF Inner, TypeInv
  <2> QED
    BY <2>1, <2>2, BatchOf
<1>4. ASSUME Optimizer(d) PROVE grad[d] = BatchGradient(version[d])
  BY <1>4, OptimizerInBatch
<1> QED
  BY <1>1, <1>2, <1>3, <1>4

(* Until something fails, what a device computes belongs to one batch.       *)
THEOREM BatchesStayApart == Spec => BatchesKeptApart
<1>1. IInv /\ [Next]_vars
        => [\A d \in Dev : ~event =>
              /\ fwd'[d] # fwd[d] => version[d] = fwd[d] \div PerStep
              /\ version'[d] # version[d] => grad[d] = BatchGradient(version[d])]_vars
  BY BatchStep DEF IInv
<1> QED
  BY <1>1, Invariant, PTL DEF Spec, BatchesKeptApart
==============================================================================
