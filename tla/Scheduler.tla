------------------------------ MODULE Scheduler ------------------------------
(***************************************************************************)
(* The scheduler (scheduler/scheduler.cpp, scheduler/utils.cpp,            *)
(* scheduler/longest_path.cpp): the order in which the ops of a graph are  *)
(* placed, as functions of the graph.                                      *)
(*                                                                         *)
(* A graph is a record: node gives every node its attributes (kind, epoch  *)
(* type, whether it is a sparse matmul, the op it was made of, the         *)
(* fracture group and its ends); data is the sequence of data edges        *)
(* <<producer, consumer, input port>> in order of creation; control, grad  *)
(* and recompute are the control, forward-to-backward and                  *)
(* forward-to-recompute edges; inputs and loss are the inputs the search   *)
(* starts from; writeback are the paths of the partial data copies.        *)
(* Everything belongs to one subgraph.                                     *)
(***************************************************************************)
EXTENDS Integers, FiniteSets, Sequences, SequencesExt, FiniteSetsExt

Ports == 3      \* bound on the operands of a node

Nodes(g) == DOMAIN g.node
can_schedule_node(g, n) == g.node[n].kind \in {"op", "nop"}
Schedulable(g) == {n \in Nodes(g) : can_schedule_node(g, n)}

\* Edges in the order of the consumer's port, then of creation.
ByPort(edges) ==
    FlattenSeq([p \in 1 .. Ports |-> SelectSeq(edges, LAMBDA e : e[3] = p - 1)])

\* The set's elements in ascending order.
RECURSIVE Ascending(_)
Ascending(S) == IF S = {} THEN <<>> ELSE <<Min(S)>> \o Ascending(S \ {Min(S)})

\* Op of the value of e.
Of(e, Op(_)) == CHOOSE r \in {Op(v) : v \in {e}} : TRUE

Mapped(s, Op(_)) == [i \in DOMAIN s |-> Op(s[i])]
Producer(e) == e[1]
Consumer(e) == e[2]

data_operands(g, n) == Mapped(ByPort(SelectSeq(g.data, LAMBDA e : e[2] = n)), Producer)
data_users(g, n) == Mapped(ByPort(SelectSeq(g.data, LAMBDA e : e[1] = n)), Consumer)

\* The nodes beyond the queues that edges are cut with.
IsQueue(g, n) == g.node[n].kind \in {"buffering_queue", "e2e_queue"}
get_schedule_predecessors(g, n) ==
    LET through(p) == IF IsQueue(g, p) THEN data_operands(g, p)[1] ELSE p
    IN  Mapped(data_operands(g, n), through)
get_schedule_successors(g, n) ==
    LET through(u) == IF IsQueue(g, u) THEN data_users(g, u) ELSE <<u>>
    IN  FlattenSeq(Mapped(data_users(g, n), through))

\* A dense op made of the same op as a sparse matmul, and fed by nothing else.
should_pair_with_sparse(g, dense, sparse) ==
    /\ g.node[dense].origin # 0 /\ g.node[dense].origin = g.node[sparse].origin
    /\ ~g.node[dense].sparse
    /\ Len(data_users(g, sparse)) = 1
    /\ sparse \in Range(data_operands(g, dense))
    /\ \A o \in Range(data_operands(g, dense)) \ {sparse} : g.node[o].kind = "input"

\* <<>> or the one op to be scheduled right after n
get_paired_op_if_exists(g, n) ==
    IF g.node[n].sparse /\ Len(data_users(g, n)) = 1
    THEN SelectSeq(data_users(g, n), LAMBDA u : /\ can_schedule_node(g, u)
                                                /\ should_pair_with_sparse(g, u, n))
    ELSE <<>>

-----------------------------------------------------------------------------
(***************************************************************************)
(* Orderings.  schedule_dependencies keeps one predecessor per op: a later *)
(* ordering replaces what an earlier one said of the same op.              *)
(***************************************************************************)
add_schedule_dependencies(deps, ordering) ==
    [o \in DOMAIN deps \cup Range(Tail(ordering)) |->
        IF o \in Range(Tail(ordering))
        THEN ordering[SelectLastInSeq(ordering, LAMBDA x : x = o) - 1] ELSE deps[o]]

\* The write-back path of a partial data copy, and its end before every other
\* user of the op it starts with.
get_schedule_constraints_for_partial_data_copies(g) ==
    FlattenSeq(Mapped(g.writeback, LAMBDA path :
        <<path>> \o Mapped(SelectSeq(data_users(g, path[1]), LAMBDA u : u \notin Range(path)),
                           LAMBDA u : <<path[Len(path)], u>>)))

get_constraints_from_control_edges(g) ==
    SelectSeq(g.control, LAMBDA e : can_schedule_node(g, e[1]) /\ can_schedule_node(g, e[2]))

get_schedule_dependencies(g, constraints) ==
    FoldLeft(LAMBDA d, o : IF o = <<>> THEN d ELSE add_schedule_dependencies(d, o), <<>>,
             constraints \o get_schedule_constraints_for_partial_data_copies(g)
                         \o get_constraints_from_control_edges(g))

get_operand_node_ids(g, deps, n) ==
    data_operands(g, n) \o IF n \in DOMAIN deps THEN <<deps[n]>> ELSE <<>>

-----------------------------------------------------------------------------
(***************************************************************************)
(* The breadth-first search.  st holds what it has visited, the schedule   *)
(* so far and the queue of nodes.                                          *)
(***************************************************************************)
Scheduled(st, n) == n \in Range(st.sched)

\* Buffering NOPs are left to the join they feed, unless there is nothing else.
AddChildNodes(g, st, n) ==
    LET users == data_users(g, n)
        others == SelectSeq(users, LAMBDA u : g.node[u].kind # "nop")
    IN  [st EXCEPT !.queue = @ \o IF Len(users) > 1 /\ others # <<>> THEN others ELSE users]

Emit(g, st, n) ==
    IF ~can_schedule_node(g, n) \/ Scheduled(st, n) THEN st
    ELSE [st EXCEPT !.sched = @ \o <<n>> \o SelectSeq(get_paired_op_if_exists(g, n),
                                                      LAMBDA p : p \notin Range(st.sched) \cup {n})]

FractureGroup(g, n) == {m \in Nodes(g) : g.node[m].frac = g.node[n].frac}

\* No ordering may concern an op of the group.
fracture_group_allowed(g, deps, n) ==
    \A o \in DOMAIN deps : {o, deps[o]} \cap FractureGroup(g, n) = {}

operands(g, n) ==
    data_operands(g, n)
    \o Mapped(SelectSeq(g.control \o g.grad \o g.recompute, LAMBDA e : e[2] = n), Producer)

RECURSIVE DFSFrac(_, _, _, _), DFSUsers(_, _, _, _)
\* A node of the group, and then its users; those behind the first user that
\* is not ready are left out.
DFSFrac(g, group, st, n) ==
    LET st1 == [st EXCEPT !.sched = Append(@, n), !.visited = @ \cup {n}]
    IN  IF ~can_schedule_node(g, n) THEN st
        ELSE IF g.node[n].bottom THEN st1
        ELSE DFSUsers(g, group, st1, SelectSeq(data_users(g, n), LAMBDA u : u \in group))
DFSUsers(g, group, st, users) ==
    IF \/ users = <<>>
       \/ \E o \in Range(operands(g, users[1])) : can_schedule_node(g, o) /\ ~Scheduled(st, o)
    THEN st
    ELSE DFSUsers(g, group, DFSFrac(g, group, st, users[1]), Tail(users))

RECURSIVE VisitNode(_, _, _, _), VisitAll(_, _, _, _), VisitOpen(_, _, _, _), FracTops(_, _, _, _, _)
VisitAll(g, deps, st, nodes) ==
    IF nodes = <<>> THEN st
    ELSE VisitAll(g, deps, VisitNode(g, deps, st, nodes[1]), Tail(nodes))

\* The tops of a fracture group, each after its operands that are still open.
VisitOpen(g, deps, st, nodes) ==
    IF nodes = <<>> THEN st
    ELSE VisitOpen(g, deps, IF can_schedule_node(g, nodes[1]) /\ ~Scheduled(st, nodes[1])
                            THEN VisitNode(g, deps, st, nodes[1]) ELSE st, Tail(nodes))
FracTops(g, deps, group, st, tops) ==
    IF tops = <<>> THEN st
    ELSE LET ready == VisitOpen(g, deps, st, operands(g, tops[1]))
         IN  FracTops(g, deps, group, DFSFrac(g, group, ready, tops[1]), Tail(tops))

FracVisit(g, deps, st, n) ==
    LET group == FractureGroup(g, n)
        inOrder == Ascending(group)
        done == FracTops(g, deps, group, st, SelectSeq(inOrder, LAMBDA m : g.node[m].top))
    IN  [done EXCEPT !.queue = @ \o
            FlattenSeq(Mapped(SelectSeq(inOrder, LAMBDA m : g.node[m].bottom),
                              LAMBDA m : data_users(g, m)))]

\* A node after all its operands and the op an ordering puts before it.
VisitNode(g, deps, st, n) ==
    LET visit(ready) ==
            IF g.node[n].top /\ Scheduled(ready, n) THEN ready
            ELSE IF g.node[n].top /\ fracture_group_allowed(g, deps, n)
                 THEN FracVisit(g, deps, ready, n)
            ELSE AddChildNodes(g, Emit(g, ready, n), n)
    IN  IF n \in st.visited THEN st
        ELSE Of(VisitAll(g, deps, [st EXCEPT !.visited = @ \cup {n}],
                         get_operand_node_ids(g, deps, n)), visit)

RECURSIVE Search(_, _, _)
Search(g, deps, st) ==
    IF st.queue = <<>> THEN st
    ELSE Search(g, deps, [VisitNode(g, deps, st, st.queue[1]) EXCEPT !.queue = Tail(@)])

-----------------------------------------------------------------------------
(***************************************************************************)
(* Ordering the backward ops by the forward ops they belong to.            *)
(***************************************************************************)
\* NodeEpochType
Forward == 0
Backward == 1
Optimizer == 2

get_filtered_schedule(g, schedule, type) ==
    SelectSeq(schedule, LAMBDA n : g.node[n].type = type)

get_fwd_to_bwd_nodes(g, fwd) ==
    LET next(edges, n) == Mapped(SelectSeq(edges, LAMBDA e : e[1] = n), Consumer)
        ops(s) == SelectSeq(s, LAMBDA n : can_schedule_node(g, n))
        fed == SelectSeq(data_operands(g, fwd), LAMBDA o : g.node[o].kind = "input")
    IN  ops(FlattenSeq(Mapped(get_schedule_predecessors(g, fwd), LAMBDA p : next(g.recompute, p)))
            \o next(g.grad, fwd) \o FlattenSeq(Mapped(fed, LAMBDA o : next(g.grad, o))))

\* From the last forward op to the first, the backward ops no later one has taken.
get_ordered_fwd_to_bwd_ops(g, schedule) ==
    LET fwd == Reverse(get_filtered_schedule(g, schedule, Forward))
        take(taken, f) ==
            LET new == Range(get_fwd_to_bwd_nodes(g, f)) \ Range(taken)
            IN  taken \o SelectSeq(schedule, LAMBDA n : n \in new)
    IN  FoldLeft(take, <<>>, fwd)

Occurrences(s, x) == Len(SelectSeq(s, LAMBDA y : y = x))

RECURSIVE Kahn(_, _, _, _, _)
Kahn(g, schedule, indegree, todo, valid) ==
    IF todo = <<>> THEN valid
    ELSE LET left(next) == [o \in DOMAIN indegree |-> indegree[o] - Occurrences(next, o)]
             ready(next) == {i \in DOMAIN next : /\ indegree[next[i]] = Occurrences(next, next[i])
                                                 /\ \A j \in i + 1 .. Len(next) : next[j] # next[i]}
         IN  Of(SelectSeq(get_schedule_successors(g, todo[1]), LAMBDA s : s \in Range(schedule)),
                LAMBDA next : Kahn(g, schedule, left(next),
                                   Tail(todo) \o Mapped(Ascending(ready(next)), LAMBDA i : next[i]),
                                   Append(valid, todo[1])))

\* The same ops, an op after the ops it reads.
get_valid_schedule(g, schedule) ==
    LET indegree == [o \in Range(schedule) |->
                        Len(SelectSeq(get_schedule_predecessors(g, o),
                                      LAMBDA p : p \in Range(schedule)))]
    IN  Kahn(g, schedule, indegree, SelectSeq(schedule, LAMBDA o : indegree[o] = 0), <<>>)

optimize_bwd_schedule(g, schedule) ==
    get_valid_schedule(g, get_ordered_fwd_to_bwd_ops(g, schedule))

optimize_schedule(g, schedule) ==
    get_filtered_schedule(g, schedule, Forward) \o optimize_bwd_schedule(g, schedule)
    \o get_filtered_schedule(g, schedule, Optimizer)

\* The forward ops from the inputs; the backward ops from the losses, first
\* without the recomputed ones, so that these come where they are needed.
run_module_by_module_scheduler(g, constraints) ==
    LET recomputed == {e[2] : e \in Range(g.recompute)}
        search(deps, inputs, visited) ==
            Search(g, deps, [visited |-> visited, sched |-> <<>>, queue |-> inputs])
        bwd(deps, fwd) ==
            Of(search(deps, g.loss, fwd.visited \cup recomputed),
               LAMBDA temp : search(deps, g.loss \o temp.sched, fwd.visited))
        all(deps) == Of(search(deps, g.inputs, {}), LAMBDA fwd : fwd.sched \o bwd(deps, fwd).sched)
        byType(s) == FlattenSeq([t \in 1 .. 3 |-> get_filtered_schedule(g, s, t - 1)])
    IN  optimize_schedule(g, byType(Of(get_schedule_dependencies(g, constraints), all)))

-----------------------------------------------------------------------------
(***************************************************************************)
(* The longest path first.  st holds the two priority groups, the nodes    *)
(* scheduled so far and how far the path has been followed.                *)
(***************************************************************************)
\* The number of edges of the longest path to a node.
Depth(g) ==
    LET d[k \in 0 .. Cardinality(Nodes(g))] ==
            [n \in Nodes(g) |->
                IF k = 0 \/ data_operands(g, n) = <<>> THEN 0
                ELSE 1 + Max({d[k - 1][o] : o \in Range(data_operands(g, n))})]
    IN  d[Cardinality(Nodes(g))]

RECURSIVE PathTo(_, _, _)
PathTo(g, depth, n) ==
    LET parents == {o \in Range(data_operands(g, n)) : depth[o] = depth[n] - 1}
    IN  Append(IF depth[n] = 0 THEN <<>> ELSE PathTo(g, depth, Min(parents)), n)

\* It ends with the last node that has a user.
get_longest_path(g) ==
    LET depth == Depth(g)
        inner == {n \in Nodes(g) : data_users(g, n) # <<>>}
        deepest == {n \in inner : \A m \in inner : depth[m] <= depth[n]}
    IN  PathTo(g, depth, Min(deepest))

CanBeScheduled(g, st, n) == Range(data_operands(g, n)) \subseteq st.done

ScheduleOp(g, st, n) ==
    [st EXCEPT !.sched = Append(@, n), !.done = @ \cup {n}, !.p1 = @ \ {n},
               !.p2 = @ \cup (Range(data_users(g, n)) \ (st.p1 \cup st.done \cup {n}))]

RECURSIVE FollowPath(_, _, _), LongestPathRound(_, _, _)
FollowPath(g, path, st) ==
    IF path[st.at] \in st.p1 /\ CanBeScheduled(g, st, path[st.at])
    THEN FollowPath(g, path, [ScheduleOp(g, st, path[st.at]) EXCEPT
                                  !.at = IF @ < Len(path) THEN @ + 1 ELSE @])
    ELSE st

\* One turn: along the path, then the rest of the first group, then what the
\* blocked ops of it are waiting for.
LongestPathRound(g, path, st) ==
    LET start == IF st.p1 = {} THEN [st EXCEPT !.p1 = st.p2, !.p2 = {}] ELSE st
        rest(along) ==
            FoldLeft(LAMBDA s, n : IF CanBeScheduled(g, s, n) THEN ScheduleOp(g, s, n) ELSE s,
                     along, Ascending(along.p1))
        missing(r) == UNION {Range(data_operands(g, n)) : n \in r.p1} \ (r.p1 \cup r.done)
        raised(r) == Of(missing(r), LAMBDA S : [r EXCEPT !.p1 = @ \cup S, !.p2 = @ \ S])
        fed == UNION {Range(data_users(g, n)) : n \in {x \in Nodes(g) : g.node[x].kind = "input"}}
        next(r) == IF r.p1 \cup r.p2 = {} THEN [r EXCEPT !.p1 = fed \ r.done] ELSE r
    IN  IF st.p1 \cup st.p2 = {} THEN st.sched
        ELSE LongestPathRound(g, path,
                 Of(Of(Of(FollowPath(g, path, start), rest), raised), next))

run_longest_path_scheduler(g) ==
    LET path == get_longest_path(g)
        st == [p1 |-> {path[2]}, p2 |-> {}, at |-> 2, sched |-> <<>>,
               done |-> {n \in Nodes(g) : g.node[n].kind = "input"}]
    IN  SelectSeq(LongestPathRound(g, path, st), LAMBDA n : can_schedule_node(g, n))

-----------------------------------------------------------------------------
\* assert_valid_schedule: every op once, after the ops it reads.
assert_valid_schedule(g, schedule) ==
    /\ Len(schedule) = Cardinality(Schedulable(g)) /\ Range(schedule) = Schedulable(g)
    /\ \A i \in DOMAIN schedule : \A p \in Range(get_schedule_predecessors(g, schedule[i])) :
          can_schedule_node(g, p) => \E j \in 1 .. i - 1 : schedule[j] = p

RECURSIVE Postorder(_, _, _)
Postorder(g, result, nodes) ==
    IF nodes = <<>> THEN result
    ELSE Postorder(g, IF nodes[1] \in Range(result) THEN result
                      ELSE Append(Postorder(g, result, operands(g, nodes[1])), nodes[1]),
                   Tail(nodes))
run_topological_scheduler(g) ==
    SelectSeq(Postorder(g, <<>>, Ascending(Nodes(g))), LAMBDA n : can_schedule_node(g, n))

\* The ops that feed nothing but outputs go to the end.
move_output_ops_to_end(g, schedule) ==
    LET users(n) == {e[2] : e \in {x \in Range(g.data \o g.control \o g.grad \o g.recompute) : x[1] = n}}
        last(n) == \A u \in users(n) : g.node[u].kind = "output"
    IN  SelectSeq(schedule, LAMBDA n : ~last(n)) \o SelectSeq(schedule, last)

\* run_scheduler for the settings c, with the ops that are processed left out;
\* no schedule if one of its assertions fails.
run_scheduler(g, c, constraints, ignored) ==
    LET policy == CASE c.scheduler = "Topological" -> run_topological_scheduler(g)
                    [] c.scheduler = "LongestPath" -> run_longest_path_scheduler(g)
                    [] OTHER -> run_module_by_module_scheduler(g, constraints)
        left(schedule) == SelectSeq(IF c.nebula THEN move_output_ops_to_end(g, schedule) ELSE schedule,
                                    LAMBDA n : n \notin ignored)
    IN  Of(policy, LAMBDA schedule :
            IF /\ assert_valid_schedule(g, schedule)
               /\ Len(left(schedule)) = Len(schedule) - Cardinality(ignored)
            THEN left(schedule) ELSE <<>>)
=============================================================================
