---------------------------- MODULE MCGraphSolver ----------------------------
(***************************************************************************)
(* Instances of GraphSolver: a diamond of four ops with two models each,   *)
(* and a NOP for one of its edges.                                         *)
(***************************************************************************)
EXTENDS GraphSolver

TheOrder == <<1, 2, 3, 4, 5>>
TheEdges == {<<1, 2>>, <<1, 4>>, <<2, 5>>, <<4, 5>>, <<2, 4>>}
TheNop == <<2, 5>> :> 3
TheModels == 1 .. 2
TheNopEdges == {<<2, 3>>, <<3, 5>>}
\* Only the operands of the last op are dear.
TheCost == [e \in TheEdges \cup TheNopEdges |->
               [q \in TheModels \X TheModels |-> IF e[2] = 5 THEN q[1] * q[2] ELSE 1]]

AnyPair == TheModels \X TheModels
Same == {<<m, m>> : m \in TheModels}
Diff == AnyPair \ Same

Relations(e) == IF e[1] = 1 THEN {Same} ELSE {AnyPair, Same, Diff}

Fits == {f \in [TheEdges -> {AnyPair, Same, Diff}] : \A e \in TheEdges : f[e] \in Relations(e)}

Problem(f, k, calls) ==
    [fits |-> [e \in TheEdges \cup TheNopEdges |-> IF e \in TheEdges THEN f[e] ELSE AnyPair],
     self_cut |-> k, streaming |-> [n \in 1 .. 5 |-> IF n = 5 THEN {2} ELSE {}],
     suboptimal |-> [first |-> [n \in 1 .. 5 |-> IF n = 4 THEN {1} ELSE {}],
                     second |-> [n \in 1 .. 5 |-> IF n = 2 THEN {1} ELSE {}]],
     switch |-> {<<1, 2>>}, calls |-> calls]

TheProblems ==
    {Problem(f, k, calls) : f \in Fits, k \in {"none", "consumer", "producer", "fast"}, calls \in {{}, {"invalidate"}}}
    \cup {Problem(f, "consumer", {"buffer", "ribbon", "filter"}) : f \in {f \in Fits : f[<<2, 4>>] = Diff}}
    \cup {Problem(f, "fast", {"buffer", "epoch", "filter"}) : f \in {f \in Fits : f[<<4, 5>>] = Diff}}
=============================================================================
