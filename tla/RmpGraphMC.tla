------------------------------ MODULE RmpGraphMC ------------------------------
(***************************************************************************)
(* Small graphs for the model checker.                                     *)
(***************************************************************************)
EXTENDS RmpGraph

Node(n, parents, task, leaf) ==
    [name |-> n, parents |-> parents, enabled |-> TRUE, task |-> task,
     leaf |-> leaf, hand |-> "none", key |-> "goal", bias |-> 0, matrix |-> 0,
     start |-> 0, length |-> 0]

Graph(nodes) ==
    [nodes |-> nodes, method |-> "rmp2", type |-> "canonical", muted |-> {}]

\* Every way to connect three nodes: up to two parents each, also twice the
\* same, the node itself or a name that does not exist.
ParentLists == {<<p>> : p \in 0..4} \cup {<<1, 2>>, <<3, 1>>, <<2, 2>>, <<0, 3>>}
Shapes == {Graph(<<Node(3, c, "concat", "none"), Node(1, a, "identity", "none"),
                   [Node(2, b, "concat", "none") EXCEPT !.enabled = e]>>) :
              a, b, c \in ParentLists, e \in BOOLEAN}

\* Names that occur twice.
Twins == {Graph(<<Node(2, <<0>>, "identity", "none"),
                  [Node(2, b, "identity", "none") EXCEPT !.enabled = e],
                  Node(1, <<2>>, "identity", "none")>>) :
             b \in {<<0>>, <<1>>}, e \in BOOLEAN}

\* Every task map on one or two parents, with a leaf on it.
Tasks == {"identity", "joint_limit", "tcp_position", "control_points",
          "collision_distance", "affine", "sin", "sum", "weighted_sum",
          "difference", "elem_multiply", "concat", "slice", "norm", "unknown"}
Maps == {Graph(<<Node(1, <<0>>, t, "none"),
                 [Node(3, p, u, leaf) EXCEPT !.key = key, !.bias = bias,
                                             !.start = 1]>>) :
            t \in {"identity", "tcp_position", "control_points", "norm"},
            p \in {<<1>>, <<0, 1>>}, u \in Tasks, bias \in {0, 3},
            leaf \in {"external", "target", "unknown"}, key \in {"goal"}}

\* Matrices, slices, two nodes with one key, and a node behind the distances.
Specials ==
    {Graph(<<Node(1, <<0>>, "tcp_position", "none"),
             [Node(2, <<0, 1>>, "affine", "external") EXCEPT !.matrix = m]>>) :
        m \in {8, 9, 18}}
    \cup
    {Graph(<<[Node(2, <<1>>, "slice", "external") EXCEPT !.start = 2, !.length = l],
             [Node(3, <<1>>, "identity", "none") EXCEPT !.hand = h],
             Node(1, <<0>>, "joint_limit", "joint_limit")>>) :
        l \in {0, 1, 11, 12}, h \in {"none", "external"}}
    \cup
    {Graph(<<Node(1, <<0>>, "control_points", "none"),
             Node(2, <<1>>, "collision_distance", l), Node(3, <<2>>, u, "none")>>) :
        l \in {"collision", "external"}, u \in {"norm", "identity", "concat"}}
    \cup
    {[Graph(<<[Node(1, <<0>>, "identity", "external") EXCEPT !.enabled = e],
              Node(2, <<0>>, u, "external")>>) EXCEPT !.muted = m] :
        e \in BOOLEAN, u \in {"identity", "norm", "joint_limit"}, m \in {{}, {"goal"}}}

\* The part of config/params.yaml around the position of the tool: "target",
\* "tcp_axis_target_z" and "tcp_position" in alphabetical order, in all four
\* modes.
Shipped ==
    {[Graph(<<Node(3, <<0>>, "tcp_position", "none"),
              Node(1, <<3>>, "identity", "target"),
              [Node(2, <<0>>, "link_orientation_axis", "axis_target")
                 EXCEPT !.key = "orientation_goal_z"]>>)
         EXCEPT !.method = method, !.type = type] :
        method \in {"direct", "rmp2"}, type \in {"canonical", "natural"}}

AllGraphs == Shapes \cup Twins \cup Maps \cup Specials \cup Shipped
AllTargets == {{}, {"goal", "orientation_goal_z"}}
=============================================================================
