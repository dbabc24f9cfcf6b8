-------------------------- MODULE MCPolicyManager --------------------------
(***************************************************************************)
(* Instances of PolicyManager: graphs of five to seven ops on grids of up  *)
(* to six cores, one or two chips.                                         *)
(***************************************************************************)
EXTENDS PolicyManager

Base == [kind |-> "op", type |-> Forward, sparse |-> FALSE, origin |-> 0, frac |-> 0,
         top |-> FALSE, bottom |-> FALSE, dim |-> 0, dp |-> FALSE]
Input == [Base EXCEPT !.kind = "input"]
Output == [Base EXCEPT !.kind = "output"]
Bwd == [Base EXCEPT !.type = Backward]
Opt == [Base EXCEPT !.type = Optimizer]
Sparse(origin) == [Base EXCEPT !.sparse = TRUE, !.origin = origin]
Dense(origin, dim) == [Base EXCEPT !.origin = origin, !.dim = dim]
Top(f) == [Base EXCEPT !.frac = f, !.top = TRUE]
Bottom(f) == [Base EXCEPT !.frac = f, !.bottom = TRUE]

Graph(node, data) ==
    [node |-> node, data |-> data, control |-> <<>>, grad |-> <<>>, recompute |-> <<>>,
     inputs |-> <<1>>, loss |-> <<>>, writeback |-> <<>>]

\* 2 forks to 3, 4 and, past them, to 5.
Skip == Graph(1 :> Input @@ 2 :> Base @@ 3 :> Base @@ 4 :> Base @@ 5 :> Base @@ 6 :> Base
                  @@ 7 :> Output,
              <<<<1, 2, 0>>, <<2, 3, 0>>, <<3, 4, 0>>, <<4, 5, 0>>, <<2, 5, 1>>, <<5, 6, 0>>,
                <<6, 7, 0>>>>)

\* A convolution of rows 2 whose result is added to its activation, and one of
\* rows 1 behind it.
Convs == Graph(1 :> Input @@ 8 :> Input @@ 9 :> Output
                   @@ 2 :> Sparse(1) @@ 3 :> Dense(1, 2) @@ 4 :> Base @@ 5 :> Base
                   @@ 6 :> Sparse(2) @@ 7 :> Dense(2, 1),
               <<<<1, 2, 0>>, <<2, 3, 0>>, <<8, 3, 1>>, <<3, 4, 0>>, <<3, 5, 1>>, <<4, 5, 0>>,
                 <<5, 6, 0>>, <<6, 7, 0>>, <<8, 7, 1>>, <<7, 9, 0>>>>)

\* 2, 3 forward; 4, 6, 5 backward, with 6 recomputing 2; 7 the optimizer.
Train == [Graph(1 :> Input @@ 8 :> Input @@ 9 :> Input @@ 10 :> Output @@ 11 :> Output
                    @@ 2 :> Base @@ 3 :> Base @@ 4 :> Bwd @@ 5 :> Bwd @@ 6 :> Bwd @@ 7 :> Opt,
                <<<<1, 2, 0>>, <<2, 3, 0>>, <<3, 10, 0>>, <<8, 4, 0>>, <<4, 5, 0>>, <<1, 6, 0>>,
                  <<6, 5, 1>>, <<5, 7, 0>>, <<9, 7, 1>>, <<7, 11, 0>>>>)
          EXCEPT !.grad = <<<<3, 4>>, <<2, 5>>>>, !.recompute = <<<<2, 6>>>>, !.loss = <<8>>]

\* A fracture group of two branches, 3, 5 and 4, 6, with a control edge and the
\* write-back of a partial data copy beside it.
Fractured == Graph(1 :> Input @@ 9 :> Output
                       @@ 2 :> Base @@ 3 :> Top(1) @@ 4 :> Top(1) @@ 5 :> Bottom(1)
                       @@ 6 :> Bottom(1) @@ 7 :> Base,
                   <<<<1, 2, 0>>, <<2, 3, 0>>, <<2, 4, 0>>, <<3, 5, 0>>, <<4, 6, 0>>,
                     <<5, 7, 0>>, <<6, 7, 1>>, <<7, 9, 0>>>>)
Ordered == [Graph(1 :> Input @@ 9 :> Output @@ 10 :> Output
                      @@ 2 :> Base @@ 3 :> Base @@ 4 :> Base @@ 5 :> Base @@ 6 :> Base,
                  <<<<1, 2, 0>>, <<2, 3, 0>>, <<2, 4, 0>>, <<2, 5, 0>>, <<4, 6, 0>>, <<5, 6, 1>>,
                    <<3, 10, 0>>, <<6, 9, 0>>>>)
            EXCEPT !.control = <<<<4, 3>>>>, !.writeback = <<<<2, 5>>>>]

\* Data parallel in the middle.
Parallel == [Skip EXCEPT !.node[3].dp = TRUE, !.node[4].dp = TRUE]

Config(graph, ops, shapes) ==
    [chips |-> <<0>>, mmio |-> <<0>>, galaxy |-> <<>>, pipelined |-> FALSE, nebula |-> FALSE,
     snake |-> FALSE, output_queues_on_host |-> FALSE, auto_transpose |-> TRUE, rows |-> 2,
     cols |-> 3, harvested_rows |-> 1, output |-> {Max(ops)}, override |-> <<>>,
     chip_breaks |-> {},
     graph |-> graph, fj |-> TRUE, ribbon |-> FALSE, single_op_policy |-> FALSE,
     single_op_epochs |-> FALSE, scheduler |-> "ModuleInputsBFS", constraints |-> <<>>,
     epoch_breaks |-> <<>>, chip_break_list |-> <<>>, ribbons |-> {1},
     shapes |-> [o \in ops |-> shapes]]

One == {<<1, 1>>}
Some == {<<1, 1>>, <<2, 1>>}
SkipConfig == Config(Skip, 2 .. 6, Some)
RibbonConfig == [Config(Convs, 2 .. 7, {<<1, 1>>, <<2, 2>>}) EXCEPT
                    !.shapes[4] = {<<1, 2>>}, !.shapes[5] = One,
                    !.ribbon = TRUE, !.ribbons = {1, 2}]
BreaksConfig == [SkipConfig EXCEPT !.epoch_breaks = <<{4, 5}>>, !.chips = <<0, 1>>, !.rows = 1,
                                   !.chip_break_list = <<{3}>>]
TrainConfig == Config(Train, 2 .. 7, Some)
TheConfigs == {SkipConfig, RibbonConfig, BreaksConfig, TrainConfig,
    [RibbonConfig EXCEPT !.chips = <<0, 1>>, !.fj = FALSE, !.epoch_breaks = <<{5}>>,
                         !.chip_break_list = <<{4}>>],
    Config(Fractured, 2 .. 7, One),
    [Config(Ordered, 2 .. 6, One) EXCEPT !.constraints = <<<<4, 5>>>>, !.rows = 1],
    [Config(Parallel, 2 .. 6, One) EXCEPT !.chips = <<0, 1>>],
    [SkipConfig EXCEPT !.scheduler = "LongestPath", !.epoch_breaks = <<{6}>>],
    [SkipConfig EXCEPT !.scheduler = "Topological", !.nebula = TRUE],
    [SkipConfig EXCEPT !.fj = FALSE, !.single_op_policy = TRUE,
                       !.shapes[5] = {<<1, 3>>, <<3, 1>>}],
    [SkipConfig EXCEPT !.fj = FALSE, !.single_op_epochs = TRUE],
    [SkipConfig EXCEPT !.fj = FALSE, !.pipelined = TRUE, !.chips = <<0, 1>>,
                       !.chip_break_list = <<{4}>>, !.chip_breaks = {4}]}
=============================================================================
