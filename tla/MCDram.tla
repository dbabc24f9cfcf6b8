------------------------------- MODULE MCDram --------------------------------
(* An instance of DramAllocator: the queues and settings TLC considers.      *)
EXTENDS DramAllocator

CONSTANTS q1, q2, q3

TheQueues == {q1, q2, q3}

Shape(kind, size, buffers, first, last, pass1) ==
  [kind |-> kind, size |-> size, buffers |-> buffers, first |-> first,
   last |-> last, pass |-> pass1]

(* Queues that last to the end, short, long and adjacent epoch-to-epoch      *)
(* queues, one too large for an all-static placement, and static queues that *)
(* appear late.                                                              *)
Shapes == <<
  Shape("parameter", 1, 1, 0, 3, 1),  Shape("parameter", 2, 1, 0, 3, 1),
  Shape("parameter", 1, 1, 0, 3, 2),  Shape("parameter", 2, 1, 0, 3, 2),
  Shape("activation", 2, 1, 0, 3, 1), Shape("output", 2, 2, 0, 3, 1),
  Shape("buffering", 2, 1, 0, 3, 1),
  Shape("e2e", 2, 2, 0, 1, 1),        Shape("e2e", 2, 2, 1, 2, 1),
  Shape("e2e", 5, 2, 0, 1, 1),        Shape("e2e", 1, 1, 0, 0, 1),
  Shape("cross", 1, 1, 0, 1, 1),      Shape("remote", 2, 1, 0, 3, 1)>>

(* Three queues of any of these shapes.  Queues are told apart by their      *)
(* shapes only, so one order of each choice is enough.                       *)
AllGraphs ==
  {[q \in TheQueues |-> Shapes[CASE q = q1 -> i[1] [] q = q2 -> i[2] [] q = q3 -> i[3]]] :
     i \in {j \in (DOMAIN Shapes) \X (DOMAIN Shapes) \X (DOMAIN Shapes) :
             j[1] <= j[2] /\ j[2] <= j[3]}}

OptionsOf(archs, algorithms, automatic, force, skip, again) ==
  {[arch |-> c, algorithm |-> a, automatic |-> u, force_static |-> f,
    skip_ch0 |-> s, again |-> g] :
     c \in archs, a \in algorithms, u \in automatic, f \in force, s \in skip,
     g \in again}

(* Every picker on either architecture and, on grayskull, a second call with *)
(* the same or with rebuilt allocators.                                      *)
AllOptions ==
  OptionsOf({"grayskull"}, {"round_robin"}, {TRUE, FALSE}, {FALSE}, {FALSE},
            {"none", "same", "rebuilt"})
  \cup OptionsOf({"grayskull"}, {"capacity"}, {TRUE, FALSE}, {FALSE}, {FALSE}, {"none"})
  \cup OptionsOf({"grayskull"}, {"closest"}, {FALSE}, {FALSE}, {FALSE}, {"none"})
  \cup OptionsOf({"grayskull"}, {"round_robin"}, {FALSE}, {TRUE}, {TRUE}, {"none"})
  \cup OptionsOf({"wormhole"}, {"flip_flop", "round_robin"}, {TRUE, FALSE}, {FALSE}, {FALSE}, {"none"})
==============================================================================
