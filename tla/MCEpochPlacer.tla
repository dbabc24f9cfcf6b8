--------------------------- MODULE MCEpochPlacer ---------------------------
(***************************************************************************)
(* Instances of EpochPlacer: four ops on 2 x 2 grids.                      *)
(***************************************************************************)
EXTENDS EpochPlacer

CONSTANTS a, b, c, d

TheOps == {a, b, c, d}

At(start) == [NoOverride EXCEPT !.start = start]
On(chip) == [NoOverride EXCEPT !.chip = chip]

\* Ops that fill a chip, so that every op is an epoch; c is an output on the host.
Wormhole == [arch |-> "wormhole", chips |-> <<0, 1, 2>>, mmio |-> <<0>>, galaxy |-> <<>>,
             rows |-> 2, cols |-> 2, schedule |-> <<a, b, c, d>>, grad |-> {},
             type |-> (a :> "fwd" @@ b :> "fwd" @@ c :> "fwd" @@ d :> "bwd"),
             shape |-> [o \in TheOps |-> <<2, 2>>], override |-> <<>>, assigned |-> <<>>,
             epoch_breaks |-> {}, temporal_breaks |-> {}, chip_breaks |-> {}, output |-> {c},
             output_queues_on_host |-> TRUE, nebula |-> FALSE, snake |-> FALSE,
             pipelined |-> FALSE, auto_transpose |-> FALSE,
             fwd_to_bwd |-> (a :> {d}), fwd_to_opt |-> <<>>]

\* Ops pinned to chips, in every order of the chips.
Assignments ==
    {[Wormhole EXCEPT !.snake = s, !.pipelined = p, !.temporal_breaks = t,
                      !.type[d] = y,
                      !.override = [o \in {a, b, d} |-> On(f[o])]] :
        s, p \in BOOLEAN, t \in {{}, {b}}, y \in {"fwd", "bwd"},
        f \in [{a, b, d} -> {NoChip, 0, 1, 2}]}

\* Small ops among which c, and maybe d, has a place of its own.
Replays ==
    {[Wormhole EXCEPT !.shape = a :> z @@ b :> x @@ c :> <<1, 1>> @@ d :> y,
                      !.type[d] = "fwd", !.auto_transpose = auto, !.epoch_breaks = e,
                      !.override = c :> At(start)] :
        x, y, z \in {<<1, 1>>, <<2, 1>>}, auto \in BOOLEAN, e \in {{}, {b}, {d}},
        start \in (0 .. 1) \X (0 .. 1)}
    \cup {[Wormhole EXCEPT !.shape = [o \in TheOps |-> <<1, 1>>], !.type[d] = "fwd",
                           !.override = c :> At(start) @@ d :> At(start)] :
             start \in (0 .. 1) \X (0 .. 1)}

Nebula == [Wormhole EXCEPT !.nebula = TRUE, !.galaxy = <<1, 2>>, !.epoch_breaks = {c, d}]
NebulaAlone == [Nebula EXCEPT !.chips = <<0>>]
Grayskull == [Wormhole EXCEPT !.arch = "grayskull", !.chips = <<0, 1>>,
                              !.fwd_to_opt = b :> {d} @@ c :> {d}]
Galaxy == [Wormhole EXCEPT !.arch = "galaxy", !.type[c] = "bwd", !.grad = {d}]

TheConfigs ==
    Assignments \cup Replays
    \cup {Nebula, NebulaAlone, Galaxy, [Galaxy EXCEPT !.type[d] = "opt"]}
    \cup {[Grayskull EXCEPT !.chip_breaks = k, !.type[d] = t] :
             k \in {{}, {b}, {b, c}}, t \in {"bwd", "opt"}}

\* An op that fills the chip before one with a place of its own.
Blocked == {[Wormhole EXCEPT !.shape[b] = <<1, 1>>, !.override = b :> At(<<0, 0>>)]}
=============================================================================
