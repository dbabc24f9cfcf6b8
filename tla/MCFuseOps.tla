------------------------------ MODULE MCFuseOps ------------------------------
(***************************************************************************)
(* Graphs for FuseOps: all connected shapes of four ops, and some shapes   *)
(* of five and six ops in which forks join again, with kinds, TMs, epochs, *)
(* formats and outputs put on a few of the ops.  No op reads a broadcast   *)
(* twice.                                                                  *)
(***************************************************************************)
EXTENDS FuseOps

\* Operand lists of op n: one or two of the ops before it, or a queue.
Sources(n) == {<<s>> : s \in 0 .. n - 1} \cup {<<s, t>> : s \in 0 .. n - 2, t \in 1 .. n - 1}

Connected(shape) == \A n \in 1 .. Len(shape) - 1 : \E m \in DOMAIN shape : n \in Range(shape[m])

Shapes4 == {s \in {<< <<0>>, b, c, d >> : b \in Sources(2), c \in Sources(3), d \in Sources(4)} : Connected(s)}

Shapes5 == {<< <<0>>, <<1>>, <<1, 2>>, <<1, 3>>, <<3, 4>> >>,
            << <<0>>, <<0>>, <<2>>, <<1, 2>>, <<3, 4>> >>,
            << <<0>>, <<1>>, <<2>>, <<1, 3>>, <<2, 4>> >>}

Shapes6 == {<< <<0>>, <<1>>, <<1>>, <<2, 3>>, <<1, 4>>, <<2, 5>> >>,
            << <<0>>, <<1, 0>>, <<1>>, <<3>>, <<2, 4>>, <<3, 5>> >>}

\* At most two ops are special; those given by unary shapes get a constant as second operand.
Kinds(n, specials) ==
    {f \in [1 .. n -> specials \cup {"add"}] : Cardinality({k \in 1 .. n : f[k] # "add"}) <= 2}

Operands(shape, kind, n) ==
    IF kind[n] \in {"reduce_r", "reduce_c", "bcast"} /\ Len(shape[n]) = 1 THEN shape[n] \o <<0>> ELSE shape[n]

Graph(shape, kind, tm) ==
    [operands |-> [n \in DOMAIN shape |->
                     LET s == Operands(shape, kind, n)
                     IN  [k \in DOMAIN s |-> [src |-> s[k], tms |-> IF tm[1] = <<n, k>> THEN <<tm[2]>> ELSE <<>>]]],
     kind |-> kind, epoch |-> [n \in DOMAIN shape |-> "fwd"], amp |-> [n \in DOMAIN shape |-> 0],
     outs |-> {n \in DOMAIN shape : \A m \in DOMAIN shape : n \notin Range(shape[m])}, loops |-> {}]

WellFormed(x) ==
    \A n \in DOMAIN x.kind : x.kind[n] = "bcast" =>
        /\ x.operands[n][2].src = 0
        /\ \A m \in DOMAIN x.kind : Len(SelectSeq(x.operands[m], LAMBDA e : e.src = n)) <= 1

NoTm == << <<0, 0>>, "r" >>
Edges5 == {<<n, k>> \in (2 .. 5) \X (1 .. 2) : TRUE}

Base ==
    {Graph(s, f, NoTm) : s \in Shapes4, f \in Kinds(4, {"none", "reduce_r", "bcast"})}
    \cup {Graph(s, f, NoTm) : s \in Shapes5, f \in Kinds(5, {"exp", "reduce_r", "reduce_c", "bcast", "maximum", "sub"})}
    \cup {Graph(s, f, NoTm) : s \in Shapes6, f \in Kinds(6, {"reduce_r", "bcast", "sub"})}
    \cup {Graph(s, [f EXCEPT ![1] = "add"], <<e, t>>) : s \in Shapes5,
              f \in Kinds(5, {"bcast"}), e \in Edges5, t \in {"r", "c", "other"}}

\* The last ops are of the next epoch, or two ops have formats, or one has an output of its own.
Variants ==
    UNION {{[x EXCEPT !.epoch = [n \in 1 .. 5 |-> IF n > k THEN "bwd" ELSE "fwd"]] : k \in 1 .. 4}
           \cup {[x EXCEPT !.amp = [n \in 1 .. 5 |-> IF n = i THEN 1 ELSE IF n = j THEN 2 ELSE 0]] : i \in 1 .. 5, j \in 1 .. 5}
           \cup {[x EXCEPT !.outs = @ \cup {k}] : k \in 1 .. 4}
           \cup {[x EXCEPT !.loops = {k}] : k \in 1 .. 4} :
           x \in {Graph(s, f, NoTm) : s \in Shapes5, f \in Kinds(5, {}) \cup {[n \in 1 .. 5 |-> IF n = 3 THEN "bcast" ELSE "add"]}}}

TheGraphs == {x \in Base \cup Variants : WellFormed(x)}
=============================================================================
