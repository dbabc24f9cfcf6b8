---------------------------- MODULE MCGraphPasses ----------------------------
(* Graphs of one op or a few, over tiles of two by two.                    *)
EXTENDS GraphPasses

MCDecomposed(pass, gr, n, e) == LET r == Rule(pass, gr, n, e) IN r
MCGradients(st, n, needs) == LET r == NodeGradients(st, n, needs) IN r
MCEvaluated(gr) == LET r == Values(gr) IN r
MCOptimized(gr, n, optimizer, flags) == LET r == OptimizedParameter(gr, n, optimizer, flags) IN r

Names == <<"a", "b", "c", "d", "e", "f", "g", "h", "i">>
(* One op between inputs of the given shapes and an output.                *)
Single(op, attr, shapes, grad) ==
    LET k == Len(shapes)
        in == [i \in 1..k |-> InputNode(IF i = 1 THEN "activation" ELSE "parameter", InputTensor(Names[i], shapes[i]), "fwd", grad)]
        op1 == Insert(in, 0, "fwd", Dc(op, attr, [j \in 1..k |-> RefTerm(j, shapes[j])]))
    IN  AddNode(op1.g, OpNode("output", <<>>, <<Edge(op1.id)>>, op1.g[op1.id].shape, "fwd"))

Case(op, attr, shapes) == <<op, attr, shapes, {}>>
Train(op, attr, shapes) == <<op, attr, shapes, {"train"}>>
GraphOf(c) == [g |-> Single(c[1], c[2], c[3], "train" \in c[4]), flags |-> c[4], training |-> "train" \in c[4],
               optimizer |-> IF "adam" \in c[4] THEN "adam" ELSE IF "lamb" \in c[4] THEN "lamb"
                             ELSE IF "lars" \in c[4] THEN "lars" ELSE IF "train" \in c[4] THEN "sgd" ELSE "none"]
Cases == {
    <<"argmax", <<>>, << <<2, 3>> >>, {}>>,
    <<"argmax", <<-2>>, << <<2, 3>> >>, {}>>,
    <<"sigmoid", <<>>, << <<2, 3>> >>, {"DECOMPOSE_SIGMOID"}>>,
    <<"gelu", <<>>, << <<2, 2>> >>, {"DECOMPOSE_GELU"}>>,
    Case("add", <<>>, << <<2, 3>>, <<3>> >>),
    Case("multiply", <<>>, << <<2, 1, 3>>, <<2, 1>> >>),
    Case("divide", <<>>, << <<1, 3>>, <<2, 1>> >>),
    Case("minimum", <<>>, << <<2, 2>>, <<2, 2>> >>),
    Case("heaviside", <<>>, << <<2, 2>>, <<2, 2>> >>),
    <<"maximum", <<>>, << <<2, 3>>, <<2, 3>> >>, {"ENABLE_MAXIMUM_DECOMPOSITION"}>>,
    <<"maximum", <<>>, << <<2, 2, 3>>, <<2, 2, 3>> >>, {"ENABLE_MAXIMUM_DECOMPOSITION"}>>,
    Case("binary_stack", <<-1>>, << <<1, 2, 2, 2>>, <<1, 2, 2, 2>> >>),
    Case("binary_stack", <<-1>>, << <<1, 2, 2, 3>>, <<1, 2, 2, 3>> >>),
    Case("stack", <<1>>, << <<2, 3>>, <<2, 3>> >>),
    Case("concatenate", <<-1>>, << <<2, 3>>, <<2, 2>>, <<2, 1>> >>),
    Case("concatenate", <<-2>>, << <<2, 1, 2>>, <<2, 3, 2>> >>),
    Case("concatenate", <<0>>, << <<3>>, <<2>> >>),
    Case("concatenate", <<0>>, [k \in 1..9 |-> <<1, 2>>]),
    Case("where", <<>>, << <<2, 2>>, <<2, 2>>, <<2, 2>> >>),
    Case("interleave", <<-3, 1>>, << <<1, 2, 2, 3>>, <<1, 2, 2, 3>> >>),
    Case("reduce_sum", <<0>>, << <<2, 1, 2, 2>> >>),
    Case("reduce_avg", <<-1>>, << <<2, 3>> >>),
    Case("reduce_avg", <<-2>>, << <<1, 3>> >>),
    Case("grouped_reduce_avg", <<1, 2, 0>>, << <<2, 4>> >>),
    Case("grouped_reduce_avg", <<-2, 2, 0>>, << <<4, 3>> >>),
    Case("transpose", <<0, 1>>, << <<2, 3>> >>),
    Case("transpose", <<0, 2>>, << <<2, 3, 3>> >>),
    Case("transpose", <<-3, -2>>, << <<2, 3, 3>> >>),
    Case("matmul", <<>>, << <<2, 3>>, <<3, 2>> >>),
    Case("matmul", <<>>, << <<2, 2, 3>>, <<1, 3, 2>> >>),
    Case("softmax", <<-1, 1>>, << <<2, 3>> >>),
    Case("log_softmax", <<-1, 1>>, << <<2, 3>> >>),
    Case("layernorm", <<-1, 1>>, << <<2, 3>>, <<3>>, <<3>> >>),
    Case("batchnorm", <<0>>, << <<1, 2, 2, 2>>, <<2>>, <<2>>, <<2>>, <<2>> >>),
    Case("quantize", <<0, 1>>, << <<2, 3>>, <<3>> >>)
  }
TmCases == {
    Case("index", <<-1, 1, 3, 1>>, << <<2, 4>> >>),
    Case("index", <<-2, 0, 3, 2>>, << <<4, 3>> >>),
    Case("index", <<-1, 0, 4, 2>>, << <<1, 1, 2, 4>> >>),
    Case("index", <<-2, 0, 4, 2>>, << <<2, 1, 4, 3>> >>),
    Case("index", <<-3, 1, 3, 1>>, << <<1, 4, 2, 2>> >>),
    Case("index", <<-3, 0, 4, 2>>, << <<1, 4, 2, 2>> >>),
    Case("index", <<-3, 0, 3, 2>>, << <<1, 6, 2, 2>> >>),
    Case("pad", <<1, 2, 0, 0>>, << <<2, 3>> >>),
    Case("pad", <<0, 0, 0, 0>>, << <<2, 3>> >>),
    Case("pad", <<0, 0, 0, 1>>, << <<1, 3, 3, 2>> >>),
    Case("pad", <<0, 0, 1, 0>>, << <<2, 3>> >>),
    Case("pad", <<1, 1, 1, 1, 1, 0>>, << <<1, 1, 2, 2>> >>),
    Case("pad", <<1, 0, 1, 1, 2, 0>>, << <<1, 1, 3, 3>> >>),
    Case("pad", <<1, 1, 1, 1, 0, 1>>, << <<1, 2, 2, 2>> >>),
    Case("pixel_shuffle", <<2>>, << <<1, 4, 2, 2>> >>),
    Case("select", <<-1, 1, 2, 4>>, << <<2, 4>> >>),
    Case("select", <<-2, 1, 1, 2>>, << <<1, 1, 4, 2>> >>),
    Case("repeat", <<1, 2, 3>>, << <<1, 2, 2>> >>),
    Case("repeat_dim", <<-1, 2>>, << <<1, 1, 2, 2>> >>),
    Case("hslice", <<2>>, << <<1, 1, 3, 6>> >>),
    Case("vslice", <<3>>, << <<1, 1, 3, 3>> >>),
    Case("hstack", <<2>>, << <<1, 2, 3, 3>> >>),
    Case("vstack", <<2>>, << <<1, 2, 3, 3>> >>),
    Case("unsqueeze", <<0, 2>>, << <<2, 3>> >>),
    Case("squeeze", <<0>>, << <<1, 2, 3>> >>) }
(* Every reshape of six elements between shapes of rank two to four with W *)
(* of one, and some of more elements for the plans that need them.         *)
ShapesOfSix == UNION {{s \in [1..r -> {1, 2, 3, 6}] : Volume(s) = 6 /\ (r = 4 => s[1] = 1)} : r \in 2..4}
LargerReshapes == {
    <<<<1, 1, 3, 4>>, <<1, 1, 4, 3>>>>, <<<<4, 1, 1>>, <<2, 2>>>>, <<<<2, 3, 2>>, <<3, 4>>>>,
    <<<<2, 3, 2>>, <<12>>>>, <<<<1, 2, 3, 4>>, <<1, 4, 2, 3>>>>, <<<<2, 6>>, <<2, 2, 3>>>>,
    <<<<1, 4>>, <<2, 2>>>>, <<<<3, 4>>, <<1, 12>>>>, <<<<6, 2>>, <<3, 4>>>>, <<<<2, 8>>, <<2, 2, 4>>>>,
    <<<<4, 1, 3>>, <<2, 2, 3>>>>, <<<<2, 2, 3>>, <<4, 1, 3>>>>, <<<<1, 2, 4, 1>>, <<1, 2, 2, 2>>>> }
ReshapeCases == { Case("reshape", p[2], <<p[1]>>) : p \in (ShapesOfSix \X ShapesOfSix) \cup LargerReshapes }
TrainCases == {
    Train("add", <<>>, << <<2, 3>>, <<3>> >>),
    Train("subtract", <<>>, << <<2, 3>>, <<2, 1>> >>),
    Train("multiply", <<>>, << <<2, 3>>, <<1, 3>> >>),
    Train("maximum", <<>>, << <<2, 3>>, <<2, 3>> >>),
    Train("power", <<>>, << <<2, 2>>, <<2, 2>> >>),
    Train("exp", <<>>, << <<2, 3>> >>), Train("nop", <<>>, << <<2, 3>> >>),
    Train("reciprocal", <<>>, << <<2, 3>> >>), Train("sqrt", <<>>, << <<2, 3>> >>),
    Train("log", <<>>, << <<2, 3>> >>), Train("tanh", <<>>, << <<2, 3>> >>),
    Train("abs", <<>>, << <<2, 3>> >>), Train("clip", <<0, 1>>, << <<2, 3>> >>),
    Train("relu", <<>>, << <<2, 3>> >>), Train("relu", <<1, 1>>, << <<2, 3>> >>),
    Train("leaky_relu", <<1>>, << <<2, 3>> >>), Train("gelu", <<0>>, << <<2, 3>> >>),
    Train("sigmoid", <<>>, << <<2, 3>> >>), Train("dropout", <<1, 1, 1>>, << <<2, 3>> >>),
    Train("pow", <<2>>, << <<2, 3>> >>),
    Train("concatenate", <<-1>>, << <<2, 3>>, <<2, 2>> >>),
    Train("interleave", <<-3, 1>>, << <<1, 2, 2, 3>>, <<1, 2, 2, 3>> >>),
    Train("reduce_sum", <<-1>>, << <<2, 3>> >>), Train("reduce_avg", <<-2>>, << <<2, 3>> >>),
    Train("reduce_max", <<-1>>, << <<2, 3>> >>),
    Train("grouped_reduce_avg", <<3, 2, 0>>, << <<1, 1, 2, 4>> >>),
    Train("grouped_reduce_avg", <<3, 2, 1>>, << <<1, 1, 2, 4>> >>),
    Train("matmul", <<>>, << <<2, 3>>, <<3, 2>> >>),
    Train("matmul", <<>>, << <<2, 2, 3>>, <<1, 3, 2>> >>),
    Train("softmax", <<-1, 1>>, << <<2, 3>> >>),
    Train("layernorm", <<-1, 1>>, << <<2, 3>>, <<3>>, <<3>> >>),
    Train("index", <<-1, 1, 3, 1>>, << <<2, 4>> >>),
    Train("select", <<-1, 1, 2, 4>>, << <<2, 4>> >>),
    Train("transpose", <<0, 2>>, << <<2, 3, 3>> >>),
    Train("reshape", <<3, 4>>, << <<2, 3, 2>> >>),
    Train("reshape", <<4, 3>>, << <<12>> >>),
    Train("hslice", <<2>>, << <<1, 1, 3, 6>> >>),
    Train("vslice", <<3>>, << <<1, 1, 3, 3>> >>),
    Train("hstack", <<2>>, << <<1, 2, 3, 3>> >>),
    Train("vstack", <<2>>, << <<1, 2, 3, 3>> >>),
    Train("pad", <<0, 1, 0, 0>>, << <<2, 3>> >>),
    Train("squeeze", <<0>>, << <<1, 2, 3>> >>),
    Train("unsqueeze", <<0, 2>>, << <<2, 3>> >>),
    <<"multiply", <<>>, << <<2, 2>>, <<2, 2>> >>, {"train", "adam", "weight_decay", "bias_correction"}>>,
    <<"multiply", <<>>, << <<2, 2>>, <<2, 2>> >>, {"train", "adam", "weight_decay", "adam_w"}>>,
    <<"add", <<>>, << <<2, 2>>, <<2>> >>, {"train", "lamb", "weight_decay"}>>,
    <<"add", <<>>, << <<2, 2>>, <<2>> >>, {"train", "lars", "weight_decay"}>>
    }
(* Several ops over inputs of the given shapes; an op names its operands   *)
(* by their places in inputs followed by ops.  outs are the places with an *)
(* output, losses those whose output is a loss.                            *)
Net(shapes, ops, outs, losses) ==
    LET k == Len(shapes)
        in == [i \in 1..k |-> InputNode(IF i = 1 THEN "activation" ELSE "parameter", InputTensor(Names[i], shapes[i]), "fwd", TRUE)]
        WithOp(acc, o) ==
            LET Arg(j) == RefTerm(acc.ids[o[3][j]], acc.g[acc.ids[o[3][j]]].shape)
                r == Insert(acc.g, 0, "fwd", Dc(o[1], o[2], [j \in DOMAIN o[3] |-> Arg(j)]))
            IN  [g |-> r.g, ids |-> Append(acc.ids, r.id)]
        net == FoldLeft(WithOp, [g |-> in, ids |-> [i \in 1..k |-> i]], ops)
        WithOut(acc, o) == AddNode(acc, OpNode("output", IF o \in losses THEN <<1>> ELSE <<>>, <<Edge(net.ids[o])>>,
                                               acc[net.ids[o]].shape, "fwd"))
    IN  [g |-> FoldLeft(WithOut, net.g, outs), flags |-> {"train"}, training |-> TRUE, optimizer |-> "sgd"]

NetCases == {
    \* a fork that joins again, and an operand used twice
    <<<< <<2, 3>>, <<2, 3>> >>, << <<"exp", <<>>, <<1>> >>, <<"multiply", <<>>, <<3, 2>> >>, <<"add", <<>>, <<4, 3>> >>,
                                     <<"multiply", <<>>, <<5, 5>> >> >>, <<6>>, {}>>,
    \* a linear layer with a mean, the parameter shared with a second output
    <<<< <<2, 3>>, <<3, 2>>, <<2>> >>, << <<"matmul", <<>>, <<1, 2>> >>, <<"add", <<>>, <<4, 3>> >>, <<"relu", <<>>, <<5>> >>,
                                            <<"reduce_avg", <<-2>>, <<6>> >>, <<"multiply", <<>>, <<5, 3>> >> >>, <<7, 8>>, {}>>,
    \* the same with a loss of its own
    <<<< <<2, 3>>, <<3, 2>> >>, << <<"matmul", <<>>, <<1, 2>> >>, <<"reduce_sum", <<-1>>, <<3>> >>, <<"sigmoid", <<>>, <<3>> >> >>,
        <<4, 5>>, {4}>>,
    \* layouts between ops: reshape, transpose and a concatenation of what came of them
    <<<< <<2, 6>>, <<3, 4>> >>, << <<"reshape", <<3, 4>>, <<1>> >>, <<"transpose", <<0, 1>>, <<3>> >>, <<"transpose", <<0, 1>>, <<2>> >>,
                                     <<"concatenate", <<-1>>, <<4, 5>> >>, <<"index", <<-2, 1, 3, 1>>, <<6>> >> >>, <<7>>, {}>>,
    \* an operand broadcast by one user and not by the other
    <<<< <<1, 3>>, <<2, 3>> >>, << <<"nop", <<>>, <<1>> >>, <<"add", <<>>, <<3, 2>> >>, <<"exp", <<>>, <<3>> >> >>, <<4, 5>>, {}>>
  }

MCGraphs == { Net(c[1], c[2], c[3], c[4]) : c \in NetCases } \cup { GraphOf(c) : c \in Cases \cup TmCases \cup ReshapeCases \cup TrainCases }

(* What the front end lets through and an op's functions do not agree on:  *)
(* an axis counted from the end, a strided maximum of columns, a broadcast *)
(* of a dimension behind the last; and a prefix of Z with a stride.  They  *)
(* violate ShapesAgree, or SameOutputs, and are no part of MCGraphs.       *)
MCDeviatingShapes == { GraphOf(c) : c \in {
    Case("unsqueeze", <<-1, 2>>, << <<2, 3>> >>),
    Case("stack", <<-1>>, << <<2, 3>>, <<2, 3>> >>),
    Case("reduce_max", <<-1, 2>>, << <<2, 4>> >>),
    Case("broadcast", <<2, 3, 1>>, << <<2, 3>> >>) } }
MCStridedPrefix == { GraphOf(Case("index", <<-3, 0, 4, 2>>, << <<1, 6, 2, 2>> >>)) }
=============================================================================
