------------------------------- MODULE RmpGraph -------------------------------
(***************************************************************************)
(* The graph of task maps and leaves that PinocchioDirectRmpSolver         *)
(* compiles when it is constructed and walks in every control cycle.       *)
(*                                                                         *)
(* The same graph is read three times: by the controller, which sizes its  *)
(* external inputs from it, by the solver, and by the learning adapter,    *)
(* which sizes the residuals of a policy.  Each of them sorts the enabled  *)
(* nodes and infers the size of every node with code of its own.           *)
(*                                                                         *)
(* A name is its rank in the alphabet, because the sort looks at nothing   *)
(* else; "root" is 0.  A vector is its size, a matrix parameter its number *)
(* of entries, a set of targets its keys.  All numerics are left out.      *)
(***************************************************************************)
EXTENDS Integers, Sequences, FiniteSets, SequencesExt

CONSTANTS
    Graphs,         \* the graphs to be read: [nodes, method, type, muted]
    Targets,        \* the sets of target keys a caller of solve() may pass
    ObstacleCounts, \* how many obstacle spheres it may pass
    Points,         \* control_point_count() of the controller and the solver
    LearningPoints, \* control_point_count() of the learning interface
    TcpPosition,    \* the names "tcp_position" and "target", which the code
    TargetNode      \* mentions

root == 0

\* RmpNodeConfig, as far as the sizes and the order depend on it.
NodeConfigs ==
    [name : Nat \ {root}, parents : Seq(Nat) \ {<<>>}, enabled : BOOLEAN,
     task : STRING, leaf : STRING, hand : STRING, key : STRING, bias : Nat,
     matrix : Nat, start : Nat, length : Nat]

ASSUME GraphAssumption ==
    /\ \A g \in Graphs : g.nodes \in Seq(NodeConfigs) /\ g.muted \subseteq STRING
    /\ Points \in Nat \ {0} /\ LearningPoints \in Nat \ {0}
    /\ ObstacleCounts \subseteq Nat

VARIABLES
    graph,      \* the graph that is read, one of Graphs
    owner,      \* who has the solver: the controller or a learning adapter
    todo,       \* who still has to read it, in this order
    pc,
    why,        \* what the reader threw, "" while it has not
    indegree,   \* of the reader's sort
    ready,      \* the names in its list "ready"; the list is kept sorted
    order,      \* its result
    dims,       \* sizes inferred so far
    inputs,     \* external_rmp_buffers_, or the specs of the adapter
    compiled,   \* output size of the compiled CasADi task maps
    node_dims,  \* the sizes the solver inferred and compiled them for
    call,       \* arguments of the solve() that runs
    cache,      \* its cache: sizes of the nodes evaluated so far
    boosted,    \* history: the nodes whose axis leaf saw the position
    outcome     \* of the last solve()

sort_vars  == <<indegree, ready, order>>
read_vars  == <<dims, inputs, compiled, node_dims>>
solve_vars == <<call, cache, boosted, outcome>>
vars == <<graph, owner, todo, pc, why, indegree, ready, order, dims, inputs, compiled,
          node_dims, call, cache, boosted, outcome>>

-----------------------------------------------------------------------------
(* The graph.                                                               *)

Readers == {"controller", "solver", "learning"}
Reader  == Head(todo)
Nodes   == graph.nodes
Enabled == {i \in DOMAIN Nodes : Nodes[i].enabled}
Names   == {Nodes[i].name : i \in Enabled}

\* enabled_nodes: nobody looks a name up before names that occur twice were
\* refused.
Entry(list, n) ==
    list[CHOOSE i \in DOMAIN list : list[i].enabled /\ list[i].name = n]
NodeOf(n)  == Entry(Nodes, n)
Parents(n) == NodeOf(n).parents

\* The entries of a node's list of parents that count for its indegree.
Edges(n) == {k \in DOMAIN Parents(n) : Parents(n)[k] # root}
Missing  == \E n \in Names : \E k \in Edges(n) : Parents(n)[k] \notin Names

Repeated(indices) ==
    \E i, j \in indices : i # j /\ Nodes[i].name = Nodes[j].name

\* node_enabled() looks at the first entry, whether it is enabled or not.
node_enabled(n) ==
    \E i \in Enabled : /\ Nodes[i].name = n
                       /\ \A j \in DOMAIN Nodes : Nodes[j].name = n => i <= j

IsExternal(node) == "external" \in {node.leaf, node.hand}

-----------------------------------------------------------------------------
(* The sort, the same in all three readers but for repeated names.          *)

Refuse(reason) ==
    /\ pc' = "refused" /\ why' = reason
    /\ UNCHANGED <<graph, owner, todo, solve_vars>>

\* declare_parameter() throws when the controller's list has a name twice.
declare_graph_parameters ==
    /\ pc = "declare"
    /\ IF Reader = "controller" /\ Repeated(DOMAIN Nodes)
         THEN Refuse("declared twice") /\ UNCHANGED sort_vars
         ELSE /\ pc' = "begin"
              /\ UNCHANGED <<graph, owner, todo, why, sort_vars, solve_vars>>
    /\ UNCHANGED read_vars

BeginOrder(checks_names) ==
    /\ pc = "begin"
    /\ \/ /\ checks_names /\ Repeated(Enabled)
          /\ Refuse("duplicate") /\ UNCHANGED sort_vars
       \/ /\ ~(checks_names /\ Repeated(Enabled)) /\ Missing
          /\ Refuse("missing parent") /\ UNCHANGED sort_vars
       \/ /\ ~(checks_names /\ Repeated(Enabled)) /\ ~Missing
          /\ indegree' = [n \in Names |-> Cardinality(Edges(n))]
          /\ ready' = {n \in Names : Edges(n) = {}}
          /\ order' = <<>>
          /\ pc' = "sort"
          /\ UNCHANGED <<graph, owner, todo, why, solve_vars>>
    /\ UNCHANGED read_vars

\* Mutant: a child is ready as soon as one of its parents is placed.
PopReady_first_parent ==
    /\ pc = "sort"
    /\ \E n \in ready :
          /\ \A m \in ready : n <= m
          /\ order' = Append(order, n)
          /\ indegree' = indegree
          /\ ready' = (ready \ {n}) \cup
                {c \in Names : /\ \E k \in Edges(c) : Parents(c)[k] = n
                               /\ c \notin Range(order)}
    /\ UNCHANGED <<graph, owner, todo, pc, why, read_vars, solve_vars>>

\* Mutant: a parent that is named twice is subtracted once.
PopReady_counts_once ==
    /\ pc = "sort"
    /\ \E n \in ready :
          LET left == [c \in Names |->
                         IF \E k \in Edges(c) : Parents(c)[k] = n
                           THEN indegree[c] - 1 ELSE indegree[c]]
          IN  /\ \A m \in ready : n <= m
              /\ order' = Append(order, n)
              /\ indegree' = left
              /\ ready' = (ready \ {n}) \cup
                            {c \in Names : indegree[c] > 0 /\ left[c] = 0}
    /\ UNCHANGED <<graph, owner, todo, pc, why, read_vars, solve_vars>>

\* Mutant: a node without children is neither erased nor placed.
PopReady_skips_childless ==
    /\ pc = "sort"
    /\ \E n \in ready :
          LET From(c) == {k \in Edges(c) : Parents(c)[k] = n}
              left    == [c \in Names |-> indegree[c] - Cardinality(From(c))]
          IN  /\ \A m \in ready : n <= m
              /\ \E c \in Names : From(c) # {}
              /\ order' = Append(order, n)
              /\ indegree' = left
              /\ ready' = (ready \ {n}) \cup
                            {c \in Names : indegree[c] > 0 /\ left[c] = 0}
    /\ UNCHANGED <<graph, owner, todo, pc, why, read_vars, solve_vars>>

\* One turn of the while loop.  outgoing[n] holds a child once for every time
\* it names n.
PopReady ==
    /\ pc = "sort"
    /\ \E n \in ready :
          LET From(c) == {k \in Edges(c) : Parents(c)[k] = n}
              left    == [c \in Names |-> indegree[c] - Cardinality(From(c))]
          IN  /\ \A m \in ready : n <= m
              /\ order' = Append(order, n)
              /\ indegree' = left
              /\ ready' = (ready \ {n}) \cup
                            {c \in Names : indegree[c] > 0 /\ left[c] = 0}
    /\ UNCHANGED <<graph, owner, todo, pc, why, read_vars, solve_vars>>

\* The root holds the six joints; every other size is added to the map.
RootAlone == [n \in {root} |-> 6]
Extended(sizes, n, size) ==
    [m \in DOMAIN sizes \cup {n} |-> IF m = n THEN size ELSE sizes[m]]

EndOrder ==
    /\ pc = "sort" /\ ready = {}
    /\ \/ /\ Len(order) # Cardinality(Names)
          /\ Refuse("cycle") /\ UNCHANGED dims
       \/ /\ Len(order) = Cardinality(Names)
          /\ pc' = "infer" /\ dims' = RootAlone
          /\ UNCHANGED <<graph, owner, todo, why, solve_vars>>
    /\ UNCHANGED <<sort_vars, inputs, compiled, node_dims>>

Sort(checks_names) == BeginOrder(checks_names) \/ PopReady \/ EndOrder

build_topological_order_of_controller == Reader = "controller" /\ Sort(FALSE)
build_topological_order_of_solver     == Reader = "solver" /\ Sort(TRUE)
build_topological_order_of_learning   == Reader = "learning" /\ Sort(TRUE)

-----------------------------------------------------------------------------
(* Sizes.                                                                   *)

Total(sizes)   == FoldLeft(LAMBDA a, b : a + b, 0, sizes)
SizesOf(d, n)  == [k \in DOMAIN Parents(n) |-> d[Parents(n)[k]]]
Fits(total, n) == total > 0 /\ NodeOf(n).matrix % total = 0

\* The only size the inference refuses.
Inferable(n, d) ==
    LET node == NodeOf(n) IN
    node.task = "affine" /\ node.bias = 0 /\ node.matrix > 0
        => Fits(Total(SizesOf(d, n)), n)

InferDim(n, d, points) ==
    LET node  == NodeOf(n)
        first == d[node.parents[1]]
    IN  CASE node.task \in {"tcp_position", "link_position",
                            "link_orientation_axis"} -> 3
          [] node.task = "joint_limit" -> 12
          [] node.task = "control_points" -> 3 * points
          [] node.task = "collision_distance" -> points
          [] node.task = "norm" -> 1
          [] node.task = "affine" /\ node.bias > 0 -> node.bias
          [] node.task = "affine" /\ node.bias = 0 /\ node.matrix > 0 ->
                node.matrix \div Total(SizesOf(d, n))
          [] node.task = "concat" -> Total(SizesOf(d, n))
          [] node.task = "slice" ->
                IF node.length > 0 THEN node.length ELSE first - node.start
          [] OTHER -> first

\* One turn of the loop over the order, and its end.
InferNext(points) ==
    /\ pc = "infer"
    /\ LET done == Cardinality(DOMAIN dims) - 1 IN
       \/ /\ done < Len(order)
          /\ LET n == order[done + 1] IN
             \/ /\ Inferable(n, dims)
                /\ dims' = Extended(dims, n, InferDim(n, dims, points))
                /\ UNCHANGED <<graph, owner, todo, pc, why, solve_vars>>
             \/ /\ ~Inferable(n, dims)
                /\ Refuse("affine") /\ UNCHANGED dims
       \/ /\ done = Len(order)
          /\ pc' = "use"
          /\ UNCHANGED <<graph, owner, todo, why, dims, solve_vars>>
    /\ UNCHANGED <<sort_vars, inputs, compiled, node_dims>>

infer_node_dims_of_controller == Reader = "controller" /\ InferNext(Points)
infer_node_dim_of_solver      == Reader = "solver" /\ InferNext(Points)
infer_node_dim_of_learning    == Reader = "learning" /\ InferNext(LearningPoints)

-----------------------------------------------------------------------------
(* What each reader does with the sizes.                                    *)

\* The reader is done; the next one begins.
Done ==
    /\ todo' = Tail(todo)
    /\ pc' = IF todo' = <<>> THEN "idle" ELSE "declare"
    /\ UNCHANGED <<graph, owner, why, sort_vars, dims, solve_vars>>

\* The first external node of every key sizes its buffer, also a node that is
\* not enabled, for which there is no size.
configure_external_rmp_inputs ==
    LET Uses  == {i \in DOMAIN Nodes : /\ IsExternal(Nodes[i])
                                       /\ Nodes[i].key \notin graph.muted}
        Sizes == {i \in Uses : \A j \in Uses :
                                 Nodes[j].key = Nodes[i].key => i <= j}
        Of(key) == CHOOSE i \in Sizes : Nodes[i].key = key
    IN  /\ Reader = "controller" /\ pc = "use"
        /\ \/ /\ \E i \in Sizes : Nodes[i].name \notin DOMAIN dims
              /\ Refuse("no size") /\ UNCHANGED <<sort_vars, read_vars>>
           \/ /\ \A i \in Sizes : Nodes[i].name \in DOMAIN dims
              /\ inputs' = [key \in {Nodes[i].key : i \in Sizes} |->
                              [dim |-> dims[Nodes[Of(key)].name],
                               metric |-> -1, acceleration |-> -1]]
              /\ Done /\ UNCHANGED <<compiled, node_dims>>

\* The adapter wants one size per key.  A policy answers with both halves of
\* a residual.
build_external_feature_specs ==
    LET Uses == {n \in Names : IsExternal(NodeOf(n))}
        Keys == {NodeOf(n).key : n \in Uses}
        Dims(key) == {dims[n] : n \in {m \in Uses : NodeOf(m).key = key}}
    IN  /\ Reader = "learning" /\ pc = "use"
        /\ \/ /\ \E key \in Keys : Cardinality(Dims(key)) > 1
              /\ Refuse("inconsistent") /\ UNCHANGED <<sort_vars, read_vars>>
           \/ /\ \A key \in Keys : Cardinality(Dims(key)) = 1
              /\ inputs' = [key \in Keys |->
                              LET dim == CHOOSE d \in Dims(key) : TRUE
                              IN  [dim |-> dim, metric |-> dim * dim,
                                   acceleration |-> dim]]
              /\ Done /\ UNCHANGED <<compiled, node_dims>>

uses_casadi_task_map(task) ==
    task \in {"affine", "elem_multiply", "elem_divide", "sin", "cos", "tanh",
              "square", "abs", "sum", "weighted_sum", "difference", "concat",
              "slice", "norm", "normalize"}

\* In the place of a size: there is none, the operation threw.
Thrown == -1

\* Size of an elementwise operation of CasADi: a scalar fits every vector.
Elementwise(a, b) ==
    CASE a = b -> a [] a = 1 -> b [] b = 1 -> a [] OTHER -> Thrown

\* Size of what apply_task_map() builds.
apply_task_map(n, sizes) ==
    LET node  == NodeOf(n)
        total == Total(sizes)
        rows  == IF node.matrix > 0 THEN node.matrix \div total ELSE total
        Plus(size) == IF node.bias > 0 THEN Elementwise(size, node.bias) ELSE size
    IN  CASE node.task \in {"sum", "weighted_sum"} ->
                LET sum == FoldLeft(Elementwise, 1, sizes) IN
                IF node.task = "sum" THEN sum ELSE Plus(sum)
          [] node.task = "affine" ->
                IF node.matrix > 0 /\ ~Fits(total, n) THEN Thrown ELSE Plus(rows)
          [] node.task = "difference" ->
                IF Len(sizes) = 2 THEN Elementwise(sizes[1], sizes[2]) ELSE Thrown
          [] node.task \in {"elem_multiply", "elem_divide"} ->
                IF Len(sizes) = 2 /\ sizes[1] = sizes[2] THEN sizes[1] ELSE Thrown
          [] node.task = "concat" -> total
          [] node.task = "slice" ->
                LET length == IF node.length > 0 THEN node.length
                                                 ELSE sizes[1] - node.start
                IN  IF length >= 0 /\ node.start + length <= sizes[1]
                      THEN length ELSE Thrown
          [] node.task = "norm" -> 1
          [] OTHER -> sizes[1]

\* The compiled maps are built from the inferred sizes; that a map returns the
\* size that was inferred for its node is not compared.
compile ==
    LET Maps == {n \in Names : uses_casadi_task_map(NodeOf(n).task)}
        Out(n) == apply_task_map(n, SizesOf(dims, n))
    IN  /\ Reader = "solver" /\ pc = "use"
        /\ \/ /\ \E n \in Maps : Out(n) = Thrown
              /\ Refuse("task map") /\ UNCHANGED <<sort_vars, read_vars>>
           \/ /\ \A n \in Maps : Out(n) # Thrown
              /\ compiled' = [n \in Maps |-> Out(n)]
              /\ node_dims' = dims
              /\ Done /\ UNCHANGED inputs

-----------------------------------------------------------------------------
(* The external inputs of the controller.  Metric and acceleration of a key *)
(* come on two topics; a message of another size is dropped.  An input      *)
(* holds the number of entries of what came last, -1 before that.           *)

MetricArrives(key, entries) ==
    /\ pc = "idle" /\ owner = "controller" /\ key \in DOMAIN inputs
    /\ entries = inputs[key].dim * inputs[key].dim
    /\ inputs' = [inputs EXCEPT ![key].metric = entries]
    /\ UNCHANGED <<graph, owner, todo, pc, why, sort_vars, dims, compiled,
                   node_dims, solve_vars>>

AccelerationArrives(key, entries) ==
    /\ pc = "idle" /\ owner = "controller" /\ key \in DOMAIN inputs
    /\ entries = inputs[key].dim
    /\ inputs' = [inputs EXCEPT ![key].acceleration = entries]
    /\ UNCHANGED <<graph, owner, todo, pc, why, sort_vars, dims, compiled,
                   node_dims, solve_vars>>

\* compute_acceleration() passes the inputs of which both halves came; a batch
\* of the adapter passes none or those of a policy.
Features ==
    LET Whole == {k \in DOMAIN inputs :
                    inputs[k].metric >= 0 /\ inputs[k].acceleration >= 0}
    IN  [key \in Whole |-> inputs[key]]
Passed == IF owner = "controller" THEN {Features} ELSE {<<>>, Features}

-----------------------------------------------------------------------------
(* solve().                                                                 *)

\* solve() throws, or what it computes has no meaning; the control loop holds
\* the command for the cycle.
Fail(reason) ==
    /\ outcome' = reason /\ pc' = "idle"
    /\ UNCHANGED <<graph, owner, todo, why, sort_vars, read_vars, call>>

\* uses_rmp2_solve(), uses_natural_rmp() and the mode that is left out.
Mode ==
    /\ graph.method \in {"direct", "rmp2"} /\ graph.type \in {"canonical", "natural"}
    /\ graph.type = "natural" => graph.method = "rmp2"

BeginSolve(targets, obstacles, features) ==
    /\ pc = "idle"
    /\ call' = [targets |-> targets, obstacles |-> obstacles, features |-> features]
    /\ cache' = RootAlone /\ boosted' = {}
    /\ IF Mode
         THEN outcome' = "" /\ pc' = "solve"
         ELSE outcome' = "mode" /\ pc' = "idle"
    /\ UNCHANGED <<graph, owner, todo, why, sort_vars, read_vars>>

\* Size of what a native map returns.  A body obstacle never interacts with a
\* control point.
evaluate_native_node(n, first) ==
    LET task == NodeOf(n).task IN
    CASE task \in {"cspace_target", "identity"} -> first
      [] task = "joint_limit" -> IF first >= 6 THEN 12 ELSE Thrown
      [] task \in {"tcp_position", "link_position", "link_orientation_axis"} -> 3
      [] task = "control_points" -> 3 * Points
      [] task = "collision_distance" ->
            IF first \div 3 = Points THEN Points * call.obstacles ELSE Thrown
      [] OTHER -> Thrown

\* Size of what a compiled map returns.  Arguments of another size than the map
\* was compiled for have no meaning.
evaluate_casadi_node(n, sizes) ==
    IF sizes = SizesOf(node_dims, n) THEN compiled[n] ELSE Thrown

EvaluatedSize(n) ==
    LET sizes == SizesOf(cache, n) IN
    IF uses_casadi_task_map(NodeOf(n).task) THEN evaluate_casadi_node(n, sizes)
                                            ELSE evaluate_native_node(n, sizes[1])

AxisLeaves == {"axis_target", "wrist_axis_target"}
LeafTypes  == {"none", "", "cspace_target", "joint_limit", "joint_velocity_cap",
               "target", "collision", "damping", "external"} \cup AxisLeaves

\* accumulate_external() on a node of this size.
Mismatch(feature, size) ==
    feature.acceleration # size \/ feature.metric # size * size

\* Mutant: a residual that is not there is looked up with at().
LeafThrows_wants_residuals(n, leaf, size) ==
    \/ leaf \notin LeafTypes
    \/ leaf = "cspace_target" /\ size # 6
    \/ /\ leaf \in AxisLeaves \cup {"target"}
       /\ NodeOf(n).key \in call.targets /\ size # 3
    \/ /\ leaf = "external"
       /\ NodeOf(n).key \in DOMAIN call.features
             => Mismatch(call.features[NodeOf(n).key], size)

\* accumulate_leaf_type(): a target or a residual that the caller does not
\* pass makes the leaf do nothing.
LeafThrows(n, leaf, size) ==
    \/ leaf \notin LeafTypes
    \/ leaf = "cspace_target" /\ size # 6
    \/ /\ leaf \in AxisLeaves \cup {"target"}
       /\ NodeOf(n).key \in call.targets /\ size # 3
    \/ /\ leaf = "external"
       /\ NodeOf(n).key \in DOMAIN call.features
       /\ Mismatch(call.features[NodeOf(n).key], size)

Leaves(n) == {NodeOf(n).leaf, NodeOf(n).hand}

\* The current position and its goal raise the metric of an axis leaf, if the
\* position is in the cache by now.
SeesPosition(n, known) ==
    /\ Leaves(n) \cap AxisLeaves # {} /\ NodeOf(n).key \in call.targets
    /\ node_enabled(TargetNode) /\ "goal" \in call.targets
    /\ TcpPosition \in DOMAIN known /\ known[TcpPosition] = 3

\* One turn of the loop over the order.
SolveNode ==
    /\ pc = "solve" /\ Cardinality(DOMAIN cache) - 1 < Len(order)
    /\ LET n    == order[Cardinality(DOMAIN cache)]
           lost == \E k \in DOMAIN Parents(n) : Parents(n)[k] \notin DOMAIN cache
           size == IF lost THEN Thrown ELSE EvaluatedSize(n)
           now  == Extended(cache, n, size)
       IN  \/ /\ size = Thrown
              /\ Fail(IF lost THEN "missing parent" ELSE "task map")
              /\ UNCHANGED <<cache, boosted>>
           \/ /\ size # Thrown
              /\ cache' = now
              /\ IF \E leaf \in Leaves(n) : LeafThrows(n, leaf, size)
                   THEN Fail("leaf") /\ UNCHANGED boosted
                   ELSE /\ boosted' = IF SeesPosition(n, now) THEN boosted \cup {n}
                                                              ELSE boosted
                        /\ UNCHANGED <<graph, owner, todo, pc, why, sort_vars,
                                       read_vars, call, outcome>>

\* Mutant: waits for the nodes that are not enabled, too.
EndSolve_waits_for_all ==
    /\ pc = "solve" /\ Cardinality(DOMAIN cache) - 1 = Len(Nodes)
    /\ outcome' = "solved" /\ pc' = "idle"
    /\ UNCHANGED <<graph, owner, todo, why, sort_vars, read_vars, call, cache, boosted>>

EndSolve ==
    /\ pc = "solve" /\ Cardinality(DOMAIN cache) - 1 = Len(order)
    /\ outcome' = "solved" /\ pc' = "idle"
    /\ UNCHANGED <<graph, owner, todo, why, sort_vars, read_vars, call, cache, boosted>>

-----------------------------------------------------------------------------
Init ==
    /\ graph \in Graphs
    /\ owner \in {"controller", "learning"}
    /\ todo = IF owner = "controller" THEN <<"controller", "solver">>
                                      ELSE <<"solver", "learning">>
    /\ pc = "declare" /\ why = ""
    /\ indegree = <<>> /\ ready = {} /\ order = <<>>
    /\ dims = <<>> /\ inputs = <<>> /\ compiled = <<>> /\ node_dims = <<>>
    /\ call = [targets |-> {}, obstacles |-> 0, features |-> <<>>]
    /\ cache = <<>> /\ boosted = {} /\ outcome = ""

Order == \/ build_topological_order_of_controller
         \/ build_topological_order_of_solver
         \/ build_topological_order_of_learning
Infer == \/ infer_node_dims_of_controller
         \/ infer_node_dim_of_solver
         \/ infer_node_dim_of_learning
Use   == configure_external_rmp_inputs \/ build_external_feature_specs \/ compile
Read  == pc # "idle" /\ todo # <<>> /\ (declare_graph_parameters \/ Order \/ Infer \/ Use)
Solve == SolveNode \/ EndSolve

Arrive ==
    LET Sizes == {inputs[key].dim : key \in DOMAIN inputs} IN
    \E key \in DOMAIN inputs, entries \in Sizes \cup {size * size : size \in Sizes} :
        MetricArrives(key, entries) \/ AccelerationArrives(key, entries)

Next ==
    \/ Read \/ Solve \/ Arrive
    \/ \E targets \in Targets, obstacles \in ObstacleCounts,
          features \in Passed : BeginSolve(targets, obstacles, features)

Spec == Init /\ [][Next]_vars

\* The constructors and solve() are loops of one thread that nothing stops.
FairSpec == Spec /\ WF_vars(Read) /\ WF_vars(Solve)

-----------------------------------------------------------------------------
(* Properties.                                                              *)

Sorted == pc \in {"infer", "use", "idle", "solve"}

\* Whatever the graph, every node is placed once and after all its parents.
OrderSound ==
    \A i \in DOMAIN order :
        /\ order[i] \in Names
        /\ \A j \in 1..(i - 1) : order[j] # order[i]
        /\ \A k \in Edges(order[i]) :
              \E j \in 1..(i - 1) : order[j] = Parents(order[i])[k]

\* A graph has a cycle if some of its nodes all have parents among themselves.
Knotted == \E S \in (SUBSET Names) \ {{}} :
              \A n \in S : \E k \in Edges(n) : Parents(n)[k] \in S

\* The sort refuses the graphs with a cycle and no others, and what it does
\* not refuse it places as a whole: the loop neither stops early nor leaves a
\* node of a cycle in.
RefusesCyclesOnly ==
    /\ pc = "refused" /\ why = "cycle" => Knotted
    /\ Sorted => ~Knotted /\ Range(order) = Names

\* What the constructors leave unchecked although solve() needs it: the mode,
\* the leaves and the sizes they want, maps that return another size than was
\* inferred for them, and residuals of a size of their own.
Downstream(S) == {n \in Names : \E k \in Edges(n) : Parents(n)[k] \in S}
NativeMaps == {"cspace_target", "identity", "joint_limit", "tcp_position",
               "link_position", "link_orientation_axis", "control_points",
               "collision_distance"}
OfTask(task) == {n \in Names : NodeOf(n).task = task}
Varying      == OfTask("collision_distance")
External     == {n \in Names : IsExternal(NodeOf(n))}
Regular ==
    LET First(n) == node_dims[Parents(n)[1]]
    IN  /\ Mode
        /\ \A n \in Names :
              /\ IF n \in DOMAIN compiled THEN compiled[n] = node_dims[n]
                                         ELSE NodeOf(n).task \in NativeMaps
              /\ Leaves(n) \subseteq LeafTypes
              /\ Leaves(n) \cap (AxisLeaves \cup {"target"}) # {} => node_dims[n] = 3
              /\ "cspace_target" \in Leaves(n) => node_dims[n] = 6
        /\ \A n \in Varying :
              /\ First(n) \div 3 = Points
              /\ Leaves(n) \cap (AxisLeaves \cup {"target", "cspace_target"}) = {}
        /\ \A n \in OfTask("joint_limit") : First(n) >= 6
        /\ Downstream(Varying) = {} /\ External \cap Varying = {}
        /\ \A m, n \in External : NodeOf(m).key = NodeOf(n).key =>
                                    node_dims[m] = node_dims[n]
        /\ owner = "learning" => \A n \in External :
                                    inputs[NodeOf(n).key].dim = node_dims[n]

\* Nothing else can go wrong in a cycle: a graph that the constructors accept
\* and that is regular is solved for every list of obstacles, all targets and
\* whatever residuals have arrived.
RegularGraphsSolve ==
    /\ outcome # "missing parent"
    /\ outcome \notin {"", "solved"} => ~Regular

\* No loop runs for ever and none waits for a node that never gets ready:
\* whatever the graph, its readers end, each with a result or a refusal, and
\* every solve() does.
LoopsEnd ==
    /\ <>(todo = <<>> \/ pc = "refused")
    /\ pc = "solve" ~> pc = "idle"

\* An axis leaf with a target is weighted by the distance to the position goal
\* whenever there is one and the graph has the position of the tool.
BoostApplies ==
    outcome = "solved" /\ node_enabled(TargetNode) /\ "goal" \in call.targets
        /\ TcpPosition \in Names
    => \A n \in Names : /\ Leaves(n) \cap AxisLeaves # {}
                        /\ NodeOf(n).key \in call.targets
                        => n \in boosted
=============================================================================
