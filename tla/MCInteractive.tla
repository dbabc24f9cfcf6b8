--------------------------- MODULE MCInteractive ---------------------------
(***************************************************************************)
(* Instances of InteractivePlacer: three ops on 2 x 2 grids (3 x 2 for the *)
(* transposed blocks), on one to three chips.                              *)
(***************************************************************************)
EXTENDS InteractivePlacer

CONSTANTS a, b, c

TheOps == {a, b, c}

\* Two chips, the first with mmio; c is an output kept on the host.
Pair == [chips |-> <<0, 1>>, mmio |-> <<0>>, galaxy |-> <<>>, pipelined |-> FALSE,
         nebula |-> FALSE, snake |-> FALSE, output_queues_on_host |-> TRUE,
         auto_transpose |-> TRUE, rows |-> 2, cols |-> 2, harvested_rows |-> 1,
         shape |-> (a :> <<2, 1>> @@ b :> <<2, 1>> @@ c :> <<1, 2>>), output |-> {c},
         override |-> <<>>, chip_breaks |-> {b}]

\* Three chips in snake order, an op pinned to a chip and a start.
Snake == [Pair EXCEPT !.chips = <<0, 1, 2>>, !.snake = TRUE, !.cols = 3,
              !.override = b :> [start |-> <<0, 1>>, transpose |-> FALSE, chip |-> 1]]

\* A Nebula chip in front of Galaxy chips: only outputs go to the Nebula chip.
Nebula == [Pair EXCEPT !.chips = <<0, 1, 2>>, !.galaxy = <<0, 1, 2>>, !.nebula = TRUE,
               !.shape = a :> <<2, 2>> @@ b :> <<1, 2>> @@ c :> <<1, 1>>, !.chip_breaks = {}]

\* One chip, and chips assigned when the placement is committed.
Single == [Pair EXCEPT !.chips = <<0>>, !.shape = a :> <<1, 1>> @@ b :> <<2, 1>> @@ c :> <<1, 1>>,
               !.override = b :> [NoOverride EXCEPT !.transpose = TRUE]]
Pipelined == [Pair EXCEPT !.pipelined = TRUE, !.chips = <<0, 1, 2>>]

\* The chip with mmio is not one of the chips in use: an output has no place.
Elsewhere == [Pair EXCEPT !.chips = <<1, 2>>]

TheConfigs == {Pair, Snake, Nebula, Single, Pipelined, Elsewhere}

\* Two chips with mmio and an output placed first.
TwoMmio == {[Pair EXCEPT !.chips = <<0, 1, 2>>, !.mmio = <<0, 1>>]}
=============================================================================
