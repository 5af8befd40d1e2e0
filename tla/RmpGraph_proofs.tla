---------------------------- MODULE RmpGraph_proofs ----------------------------
(***************************************************************************)
(* Proofs about RmpGraph: the three sorts are right for every graph, of    *)
(* any number of nodes.                                                    *)
(***************************************************************************)
EXTENDS RmpGraph, FiniteSetTheorems, FunctionTheorems, WellFoundedInduction, TLAPS

USE GraphAssumption

Placed  == Range(order)
Open(n) == {k \in Edges(n) : Parents(n)[k] \notin Placed}
Knot(S) == \A n \in S : \E k \in Edges(n) : Parents(n)[k] \in S

-----------------------------------------------------------------------------
(* The graph.                                                               *)

\* What depends on the graph alone stays with it.
LEMMA GraphStays ==
    ASSUME graph' = graph
    PROVE  /\ Names' = Names
           /\ \A n : Parents(n)' = Parents(n) /\ Edges(n)' = Edges(n)
           /\ Missing' = Missing
<1>1. Names' = Names
  BY DEF Names, Enabled, Nodes
<1>2. \A n : Parents(n)' = Parents(n) /\ Edges(n)' = Edges(n)
  BY DEF Parents, NodeOf, Nodes, Edges
<1>3. QED
  BY <1>1, <1>2 DEF Missing

\* A name has an entry, and its list of parents is finite.
LEMMA NodesHaveParents ==
    ASSUME graph \in Graphs, NEW n \in Names
    PROVE  /\ n \in Nat \ {root}
           /\ Parents(n) \in Seq(Nat) /\ Parents(n) # <<>>
           /\ Edges(n) \subseteq DOMAIN Parents(n)
           /\ IsFiniteSet(Edges(n))
<1> DEFINE i == CHOOSE j \in DOMAIN Nodes : Nodes[j].enabled /\ Nodes[j].name = n
<1>1. i \in DOMAIN Nodes /\ Nodes[i].name = n
  BY DEF Names, Enabled
<1>2. i \in DOMAIN Nodes
  BY <1>1
<1>3. /\ Nodes[i].name \in Nat \ {root}
      /\ Nodes[i].parents \in Seq(Nat) \ {<<>>}
  <2>1. Nodes \in Seq(NodeConfigs)
    BY DEF Nodes
  <2>2. Nodes[i] \in NodeConfigs
    BY <1>2, <2>1
  <2>3. QED
    BY <2>2 DEF NodeConfigs
<1>4. NodeOf(n) = Nodes[i]
  BY DEF NodeOf, Entry
<1>5. Parents(n) \in Seq(Nat) /\ Parents(n) # <<>>
  BY <1>3, <1>4 DEF Parents
<1>6. Edges(n) \subseteq DOMAIN Parents(n)
  BY DEF Edges
<1>7. Len(Parents(n)) \in Nat /\ DOMAIN Parents(n) = 1..Len(Parents(n))
  BY <1>5
<1>8. IsFiniteSet(1..Len(Parents(n)))
  BY <1>7, FS_Interval
<1>9. IsFiniteSet(Edges(n))
  BY <1>6, <1>7, <1>8, FS_Subset
<1>10. QED
  BY <1>1, <1>3, <1>5, <1>6, <1>9

\* A graph has finitely many names.
LEMMA NamesAreFinite ==
    ASSUME graph \in Graphs
    PROVE  IsFiniteSet(Names)
<1>1. Len(Nodes) \in Nat /\ DOMAIN Nodes = 1..Len(Nodes)
  BY DEF Nodes
<1>2. IsFiniteSet(1..Len(Nodes))
  BY <1>1, FS_Interval
<1>3. Enabled \subseteq 1..Len(Nodes)
  BY <1>1 DEF Enabled
<1>4. IsFiniteSet(Enabled)
  BY <1>2, <1>3, FS_Subset
<1> DEFINE name == [i \in Enabled |-> Nodes[i].name]
<1>5. name \in [Enabled -> Names]
  BY DEF Names
<1>6. \A n \in Names : \E i \in Enabled : name[i] = n
  BY DEF Names
<1>7. name \in Surjection(Enabled, Names)
  BY <1>5, <1>6 DEF Surjection
<1>8. QED
  BY <1>4, <1>7, FS_Surjection

-----------------------------------------------------------------------------
(* The inductive invariant of the sort.                                     *)

\* What is in the order stays there, each name once: its length counts it.
OrderIsPlain == /\ graph \in Graphs
                /\ order \in Seq(Names)
                /\ Cardinality(Placed) = Len(order)

\* A node of a knot waits for another one of it for ever.
KnotsWait == \A S \in SUBSET Names : Knot(S) => S \cap Placed = {}

\* The loop: a node's indegree counts its open parents, ready holds the nodes
\* that have none and are not placed.
LoopCounts ==
    pc = "sort" =>
        /\ ~Missing
        /\ indegree = [n \in Names |-> Cardinality(Open(n))]
        /\ ready = {n \in Names \ Placed : indegree[n] = 0}

IInv == OrderIsPlain /\ OrderSound /\ KnotsWait /\ LoopCounts /\ RefusesCyclesOnly

\* The edges of a node to nodes not yet placed are finitely many.
LEMMA OpenIsFinite ==
    ASSUME graph \in Graphs, NEW n \in Names
    PROVE  /\ IsFiniteSet(Open(n)) /\ Cardinality(Open(n)) \in Nat
           /\ Cardinality(Open(n)) = 0 <=> Open(n) = {}
<1>1. IsFiniteSet(Edges(n))
  BY NodesHaveParents
<1>2. Open(n) \in SUBSET Edges(n)
  BY DEF Open
<1>3. IsFiniteSet(Open(n))
  BY <1>1, <1>2, FS_Subset
<1>4. QED
  BY <1>3, FS_CardinalityType, FS_EmptySet

\* A placed node has no open parent.
LEMMA PlacedAreClosed ==
    ASSUME OrderIsPlain, OrderSound, NEW n \in Placed
    PROVE  n \in Names /\ Open(n) = {}
<1>1. PICK i \in DOMAIN order : order[i] = n
  BY DEF Placed, Range
<1>2. i \in 1..Len(order) /\ Len(order) \in Nat /\ DOMAIN order = 1..Len(order)
  BY <1>1 DEF OrderIsPlain
<1>3. n \in Names
  BY <1>1 DEF OrderSound
<1>4. ASSUME NEW k \in Edges(n)
      PROVE  Parents(n)[k] \in Placed
  <2>1. PICK j \in 1..(i - 1) : order[j] = Parents(n)[k]
    BY <1>1, <1>4 DEF OrderSound
  <2>2. j \in DOMAIN order
    BY <1>2, <2>1
  <2>3. QED
    BY <2>1, <2>2 DEF Placed, Range
<1>5. QED
  BY <1>3, <1>4 DEF Open

\* Appending a name places it and nothing else.
LEMMA AppendPlaces ==
    ASSUME order \in Seq(Names), NEW n, order' = Append(order, n)
    PROVE  Placed' = Placed \cup {n}
<1>1. /\ Len(order) \in Nat /\ DOMAIN order = 1..Len(order)
      /\ DOMAIN order' = 1..(Len(order) + 1)
      /\ \A i \in 1..Len(order) : order'[i] = order[i]
      /\ order'[Len(order) + 1] = n
  OBVIOUS
<1>2. ASSUME NEW m \in Placed'
      PROVE  m \in Placed \cup {n}
  <2>1. PICK i \in DOMAIN order' : order'[i] = m
    BY <1>2 DEF Placed, Range
  <2>2. i \in DOMAIN order \/ i = Len(order) + 1
    BY <1>1, <2>1
  <2>3. QED
    BY <1>1, <2>1, <2>2 DEF Placed, Range
<1>3. ASSUME NEW m \in Placed \cup {n}
      PROVE  m \in Placed'
  <2>1. CASE m = n
    <3>1. Len(order) + 1 \in DOMAIN order'
      BY <1>1
    <3>2. QED
      BY <1>1, <2>1, <3>1 DEF Placed, Range
  <2>2. CASE m \in Placed
    <3>1. PICK i \in DOMAIN order : order[i] = m
      BY <2>2 DEF Placed, Range
    <3>2. i \in DOMAIN order' /\ order'[i] = m
      BY <1>1, <3>1
    <3>3. QED
      BY <3>2 DEF Placed, Range
  <2>3. QED
    BY <1>3, <2>1, <2>2
<1>4. QED
  BY <1>2, <1>3

-----------------------------------------------------------------------------
(* The steps.                                                               *)

\* A name whose parents are all placed may be placed: the order stays sound
\* and plain, and no knot is touched.
LEMMA PlacingIsSound ==
    ASSUME OrderIsPlain, OrderSound, KnotsWait, graph' = graph,
           NEW n \in Names \ Placed, Open(n) = {}, order' = Append(order, n)
    PROVE  OrderIsPlain' /\ OrderSound' /\ KnotsWait'
<1> USE DEF OrderIsPlain
<1>1. /\ Names' = Names
      /\ \A m : Parents(m)' = Parents(m) /\ Edges(m)' = Edges(m)
  BY GraphStays
<1>2. Placed' = Placed \cup {n}
  BY AppendPlaces
<1>3. /\ Len(order) \in Nat /\ DOMAIN order = 1..Len(order)
      /\ order' \in Seq(Names) /\ Len(order') = Len(order) + 1
      /\ \A i \in 1..Len(order) : order'[i] = order[i]
      /\ order'[Len(order) + 1] = n
  OBVIOUS
<1>4. Placed \in SUBSET Names
  BY PlacedAreClosed
<1>5. IsFiniteSet(Placed)
  BY <1>4, NamesAreFinite, FS_Subset
<1>6. Cardinality(Placed \cup {n}) = Cardinality(Placed) + 1
  BY <1>5, FS_AddElement
<1>7. OrderIsPlain'
  BY <1>1, <1>2, <1>3, <1>6
<1>8. \A k \in Edges(n) : Parents(n)[k] \in Placed
  BY DEF Open
<1>9. OrderSound'
  <2> SUFFICES ASSUME NEW i \in 1..(Len(order) + 1)
               PROVE  /\ order'[i] \in Names
                      /\ \A j \in 1..(i - 1) : order'[j] # order'[i]
                      /\ \A k \in Edges(order'[i]) :
                            \E j \in 1..(i - 1) :
                                order'[j] = Parents(order'[i])[k]
    <3>1. DOMAIN order' = 1..(Len(order) + 1)
      BY <1>3
    <3>2. ASSUME NEW i \in DOMAIN order'
          PROVE  /\ (order[i] \in Names)'
                 /\ (\A j \in 1..(i - 1) : order[j] # order[i])'
                 /\ (\A k \in Edges(order[i]) :
                        \E j \in 1..(i - 1) : order[j] = Parents(order[i])[k])'
      <4>1. i \in 1..(Len(order) + 1)
        BY <3>1
      <4>2. /\ order'[i] \in Names'
            /\ \A j \in 1..(i - 1) : order'[j] # order'[i]
            /\ \A k \in Edges(order'[i]) :
                  \E j \in 1..(i - 1) : order'[j] = Parents(order'[i])[k]
        BY <1>1, <4>1
      <4>3. QED
        BY <1>1, <4>2 DEF Edges, Parents, NodeOf, Nodes
    <3>3. QED
      BY <3>2 DEF OrderSound
  <2>1. CASE i \in 1..Len(order)
    <3>1. /\ \A j \in 1..(i - 1) : j \in 1..Len(order) /\ order'[j] = order[j]
          /\ order'[i] = order[i] /\ i \in DOMAIN order
      BY <1>3, <2>1
    <3>2. QED
      BY <3>1 DEF OrderSound
  <2>2. CASE i = Len(order) + 1
    <3>1. order'[i] = n
      BY <1>3, <2>2
    <3>2. \A j \in 1..(i - 1) : j \in DOMAIN order /\ order'[j] = order[j]
      BY <1>3, <2>2
    <3>3. \A j \in 1..(i - 1) : order'[j] # n
      BY <3>2 DEF Placed, Range
    <3>4. ASSUME NEW k \in Edges(n)
          PROVE  \E j \in 1..(i - 1) : order'[j] = Parents(n)[k]
      <4>1. PICK j \in DOMAIN order : order[j] = Parents(n)[k]
        BY <1>8 DEF Placed, Range
      <4>2. j \in 1..(i - 1) /\ order'[j] = order[j]
        BY <1>3, <2>2, <4>1
      <4>3. QED
        BY <4>1, <4>2
    <3>5. QED
      BY <3>1, <3>3, <3>4
  <2>3. i \in 1..Len(order) \/ i = Len(order) + 1
    BY <1>3
  <2>4. QED
    BY <2>1, <2>2, <2>3
<1>10. KnotsWait'
  <2> SUFFICES ASSUME NEW S \in SUBSET Names, Knot(S)
               PROVE  S \cap (Placed \cup {n}) = {}
    <3>1. \A S : Knot(S)' <=> Knot(S)
      BY <1>1 DEF Knot
    <3>2. QED
      BY <1>1, <1>2, <3>1 DEF KnotsWait
  <2>1. S \cap Placed = {}
    BY DEF KnotsWait
  <2>2. n \notin S
    BY <1>8, <2>1 DEF Knot
  <2>3. QED
    BY <2>1, <2>2
<1>11. QED
  BY <1>7, <1>9, <1>10

\* The loop keeps its counts.
LEMMA PopReadyPreserves ==
    ASSUME IInv, PopReady
    PROVE  IInv'
<1> USE DEF read_vars, solve_vars
<1> DEFINE From(n, c) == {k \in Edges(c) : Parents(c)[k] = n}
<1>1. PICK n \in ready :
          /\ order' = Append(order, n)
          /\ indegree' = [c \in Names |-> indegree[c] - Cardinality(From(n, c))]
          /\ ready' = (ready \ {n}) \cup
                {c \in Names : /\ indegree[c] > 0
                               /\ indegree[c] - Cardinality(From(n, c)) = 0}
  BY DEF PopReady
<1>2. pc = "sort" /\ pc' = "sort" /\ graph' = graph
  BY DEF PopReady
<1>3. /\ ~Missing
      /\ indegree = [c \in Names |-> Cardinality(Open(c))]
      /\ ready = {c \in Names \ Placed : indegree[c] = 0}
  BY <1>2 DEF IInv, LoopCounts
<1>4. graph \in Graphs /\ order \in Seq(Names)
  BY DEF IInv, OrderIsPlain
<1>5. n \in Names \ Placed /\ Open(n) = {}
  BY <1>1, <1>3, <1>4, OpenIsFinite
<1>6. OrderIsPlain' /\ OrderSound' /\ KnotsWait'
  BY <1>1, <1>2, <1>5, PlacingIsSound DEF IInv
<1>7. /\ Names' = Names /\ Missing' = Missing
      /\ \A m : Parents(m)' = Parents(m) /\ Edges(m)' = Edges(m)
  BY <1>2, GraphStays
<1>8. Placed' = Placed \cup {n}
  BY <1>1, <1>4, AppendPlaces
<1>9. ASSUME NEW c \in Names
      PROVE  /\ Open(c)' = Open(c) \ From(n, c)
             /\ indegree[c] - Cardinality(From(n, c)) = Cardinality(Open(c)')
             /\ indegree[c] \in Nat
  <2>1. Open(c)' = {k \in Edges(c) : Parents(c)[k] \notin Placed'}
    BY <1>7 DEF Open
  <2>2. Open(c)' = Open(c) \ From(n, c)
    BY <1>8, <2>1 DEF Open
  <2>3. Open(c) \cap From(n, c) = From(n, c)
    BY <1>5 DEF Open
  <2>4. IsFiniteSet(Open(c)) /\ Cardinality(Open(c)) \in Nat
    BY <1>4, OpenIsFinite
  <2>5. Cardinality(Open(c) \ From(n, c)) =
            Cardinality(Open(c)) - Cardinality(From(n, c))
    BY <2>3, <2>4, FS_Difference
  <2>6. QED
    BY <1>3, <2>2, <2>4, <2>5
<1>10. indegree' = [c \in Names |-> Cardinality(Open(c)')]
  BY <1>1, <1>9
<1>11. \A c \in Placed : c \in Names => indegree[c] = 0
  BY <1>3, PlacedAreClosed, FS_EmptySet DEF IInv
<1>12. ready' = {c \in Names \ Placed' : indegree'[c] = 0}
  <2>1. ASSUME NEW c \in Names \ (Placed \cup {n}), indegree'[c] = 0
        PROVE  c \in ready'
    <3>1. CASE indegree[c] = 0
      BY <1>1, <1>3, <2>1, <3>1
    <3>2. CASE indegree[c] # 0
      BY <1>1, <1>9, <2>1, <3>2
    <3>3. QED
      BY <3>1, <3>2
  <2>2. ASSUME NEW c \in ready'
        PROVE  c \in Names \ (Placed \cup {n}) /\ indegree'[c] = 0
    <3>1. CASE c \in ready \ {n}
      <4>1. c \in Names /\ c \notin Placed /\ Open(c) = {}
        BY <1>3, <1>4, <3>1, OpenIsFinite
      <4>2. Open(c)' = {}
        BY <1>9, <4>1
      <4>3. QED
        BY <1>10, <3>1, <4>1, <4>2, FS_EmptySet
    <3>2. CASE c \in Names /\ indegree[c] > 0
               /\ indegree[c] - Cardinality(From(n, c)) = 0
      <4>1. c \notin Placed /\ c # n
        BY <1>1, <1>3, <1>11, <3>2
      <4>2. QED
        BY <1>1, <3>2, <4>1
    <3>3. QED
      BY <1>1, <2>2, <3>1, <3>2
  <2>3. QED
    BY <1>8, <2>1, <2>2
<1>13. LoopCounts'
  BY <1>3, <1>7, <1>10, <1>12 DEF LoopCounts
<1>14. RefusesCyclesOnly'
  BY <1>2 DEF RefusesCyclesOnly, Sorted
<1>15. QED
  BY <1>6, <1>13, <1>14 DEF IInv

\* A knot of the graph is one for ever.
LEMMA KnotsStay ==
    ASSUME graph' = graph
    PROVE  (Knotted' <=> Knotted) /\ \A S : Knot(S)' <=> Knot(S)
<1>1. \A n : Parents(n)' = Parents(n) /\ Edges(n)' = Edges(n)
  BY GraphStays
<1>2. Names' = Names
  BY GraphStays
<1>3. \A S : Knot(S)' <=> Knot(S)
  BY <1>1 DEF Knot
<1>4. Knotted <=> \E S \in (SUBSET Names) \ {{}} : Knot(S)
  BY DEF Knotted, Knot
<1>5. Knotted' <=> \E S \in (SUBSET Names') \ {{}} : Knot(S)'
  BY DEF Knotted, Knot
<1>6. QED
  BY <1>2, <1>3, <1>4, <1>5

\* The steps that neither sort nor refuse a cycle.
LEMMA QuietStepPreserves ==
    ASSUME IInv, graph' = graph, order' = order, pc' # "sort", Sorted' => Sorted,
           pc' = "refused" /\ why' = "cycle" => pc = "refused" /\ why = "cycle"
    PROVE  IInv'
<1>1. /\ Names' = Names
      /\ \A n : Parents(n)' = Parents(n) /\ Edges(n)' = Edges(n)
  BY GraphStays
<1>2. Placed' = Placed
  BY DEF Placed
<1>3. OrderIsPlain'
  BY <1>1, <1>2 DEF IInv, OrderIsPlain
<1>4. OrderSound'
  BY <1>1 DEF IInv, OrderSound, Edges, Parents, NodeOf, Nodes
<1>5. KnotsWait'
  BY <1>1, <1>2, KnotsStay DEF IInv, KnotsWait
<1>6. LoopCounts'
  BY DEF LoopCounts
<1>7. RefusesCyclesOnly'
  BY <1>1, KnotsStay DEF IInv, RefusesCyclesOnly
<1>8. QED
  BY <1>3, <1>4, <1>5, <1>6, <1>7 DEF IInv

\* The first counts and the first ready list are right.
LEMMA BeginOrderPreserves ==
    ASSUME IInv, NEW checks_names \in BOOLEAN, BeginOrder(checks_names)
    PROVE  IInv'
<1> USE DEF sort_vars, read_vars, solve_vars
<1>1. pc = "begin" /\ graph' = graph
  BY DEF BeginOrder, Refuse
<1>2. CASE \/ Refuse("duplicate") /\ UNCHANGED sort_vars
           \/ Refuse("missing parent") /\ UNCHANGED sort_vars
  <2>1. /\ order' = order /\ pc' = "refused"
        /\ why' \in {"duplicate", "missing parent"}
    BY <1>2 DEF Refuse
  <2>2. QED
    BY <1>1, <2>1, QuietStepPreserves DEF Sorted
<1>3. CASE /\ ~Missing
           /\ indegree' = [n \in Names |-> Cardinality(Edges(n))]
           /\ ready' = {n \in Names : Edges(n) = {}}
           /\ order' = <<>> /\ pc' = "sort"
  <2>1. /\ Names' = Names /\ Missing' = Missing
        /\ \A n : Parents(n)' = Parents(n) /\ Edges(n)' = Edges(n)
    BY <1>1, GraphStays
  <2>2. Placed' = {}
    BY <1>3 DEF Placed, Range
  <2>3. graph \in Graphs
    BY DEF IInv, OrderIsPlain
  <2>4. OrderIsPlain'
    BY <1>1, <1>3, <2>2, <2>3, FS_EmptySet DEF OrderIsPlain
  <2>5. OrderSound'
    BY <1>3 DEF OrderSound
  <2>6. KnotsWait'
    BY <2>2 DEF KnotsWait
  <2>7. \A n \in Names : Open(n)' = Edges(n)
    BY <2>1, <2>2 DEF Open
  <2>8. indegree' = [n \in Names |-> Cardinality(Open(n)')]
    BY <1>3, <2>7
  <2>9. ready' = {n \in Names \ Placed' : indegree'[n] = 0}
    <3>1. ASSUME NEW n \in Names
          PROVE  Cardinality(Edges(n)) = 0 <=> Edges(n) = {}
      BY <2>3, NodesHaveParents, FS_EmptySet
    <3>2. QED
      BY <1>3, <2>2, <3>1
  <2>10. LoopCounts'
    BY <1>3, <2>1, <2>8, <2>9 DEF LoopCounts
  <2>11. RefusesCyclesOnly'
    BY <1>3 DEF RefusesCyclesOnly, Sorted
  <2>12. QED
    BY <2>4, <2>5, <2>6, <2>10, <2>11 DEF IInv
<1>4. QED
  BY <1>2, <1>3 DEF BeginOrder

\* When nothing is ready the nodes that are left are a knot, and a knot is
\* left if there is one.
LEMMA EndOrderPreserves ==
    ASSUME IInv, EndOrder
    PROVE  IInv'
<1> USE DEF sort_vars, read_vars, solve_vars
<1>1. pc = "sort" /\ ready = {} /\ graph' = graph /\ order' = order
  BY DEF EndOrder, Refuse
<1>2. /\ graph \in Graphs /\ Cardinality(Placed) = Len(order)
      /\ ~Missing
      /\ \A n \in Names \ Placed : indegree[n] # 0
      /\ indegree = [n \in Names |-> Cardinality(Open(n))]
  BY <1>1 DEF IInv, OrderIsPlain, LoopCounts
<1>3. Placed \in SUBSET Names /\ IsFiniteSet(Names)
  BY <1>2, PlacedAreClosed, NamesAreFinite DEF IInv
<1>4. /\ Names' = Names /\ (Knotted' <=> Knotted)
      /\ \A n : Parents(n)' = Parents(n) /\ Edges(n)' = Edges(n)
  BY <1>1, GraphStays, KnotsStay
<1>5. Placed' = Placed
  BY <1>1 DEF Placed
<1>6. OrderIsPlain' /\ OrderSound' /\ KnotsWait'
  <2>1. OrderIsPlain'
    BY <1>1, <1>4, <1>5 DEF IInv, OrderIsPlain
  <2>2. OrderSound'
    BY <1>1, <1>4 DEF IInv, OrderSound, Edges, Parents, NodeOf, Nodes
  <2>3. KnotsWait'
    BY <1>1, <1>4, <1>5, KnotsStay DEF IInv, KnotsWait
  <2>4. QED
    BY <2>1, <2>2, <2>3
<1>7. CASE Len(order) # Cardinality(Names) /\ Refuse("cycle")
  <2> DEFINE Left == Names \ Placed
  <2>1. Left # {}
    <3>1. Placed # Names
      BY <1>2, <1>7
    <3>2. QED
      BY <1>3, <3>1
  <2>2. ASSUME NEW n \in Left
        PROVE  \E k \in Edges(n) : Parents(n)[k] \in Left
    <3>1. Open(n) # {}
      BY <1>2, OpenIsFinite
    <3>2. PICK k \in Edges(n) : Parents(n)[k] \notin Placed
      BY <3>1 DEF Open
    <3>3. Parents(n)[k] \in Names
      BY <1>2 DEF Missing
    <3>4. QED
      BY <3>2, <3>3
  <2>3. Left \in (SUBSET Names) \ {{}}
    BY <2>1
  <2>4. Knotted
    BY <2>2, <2>3 DEF Knotted
  <2>5. pc' = "refused"
    BY <1>7 DEF Refuse
  <2>6. RefusesCyclesOnly' /\ LoopCounts'
    BY <1>4, <2>4, <2>5 DEF RefusesCyclesOnly, Sorted, LoopCounts
  <2>7. QED
    BY <1>6, <2>6 DEF IInv
<1>8. CASE Len(order) = Cardinality(Names) /\ pc' = "infer"
  <2>1. Placed = Names
    BY <1>2, <1>3, <1>8, FS_Subset
  <2>2. ASSUME Knotted PROVE FALSE
    <3>1. PICK S \in (SUBSET Names) \ {{}} : Knot(S)
      BY <2>2 DEF Knotted, Knot
    <3>2. S \cap Placed = {}
      BY <3>1 DEF IInv, KnotsWait
    <3>3. QED
      BY <2>1, <3>1, <3>2
  <2>3. Range(order)' = Names
    BY <1>5, <2>1 DEF Placed
  <2>4. RefusesCyclesOnly' /\ LoopCounts'
    BY <1>4, <1>8, <2>2, <2>3 DEF RefusesCyclesOnly, Sorted, LoopCounts
  <2>5. QED
    BY <1>6, <2>4 DEF IInv
<1>9. QED
  BY <1>7, <1>8 DEF EndOrder

-----------------------------------------------------------------------------
(* The specification.                                                       *)

\* Before any reader the order is empty.
LEMMA InitEstablishes == Init => IInv
<1> SUFFICES ASSUME Init PROVE IInv
  OBVIOUS
<1>1. graph \in Graphs /\ order = <<>> /\ pc = "declare"
  BY DEF Init
<1>2. Placed = {}
  BY <1>1 DEF Placed, Range
<1>3. OrderIsPlain
  BY <1>1, <1>2, FS_EmptySet DEF OrderIsPlain
<1>4. OrderSound
  BY <1>1 DEF OrderSound
<1>5. KnotsWait
  BY <1>2 DEF KnotsWait
<1>6. LoopCounts /\ RefusesCyclesOnly
  BY <1>1 DEF LoopCounts, RefusesCyclesOnly, Sorted
<1>7. QED
  BY <1>3, <1>4, <1>5, <1>6 DEF IInv

\* Every step of readers, callers and topics keeps the invariant.
LEMMA StepPreserves == IInv /\ [Next]_vars => IInv'
<1> SUFFICES ASSUME IInv, [Next]_vars PROVE IInv'
  OBVIOUS
<1> USE DEF sort_vars, read_vars, solve_vars
<1>1. CASE declare_graph_parameters
  <2>1. /\ graph' = graph /\ order' = order
        /\ pc' = "begin" \/ (pc' = "refused" /\ why' = "declared twice")
    BY <1>1 DEF declare_graph_parameters, Refuse
  <2>2. QED
    BY <2>1, QuietStepPreserves DEF Sorted
<1>2. CASE Order
  <2>1. ASSUME NEW checks_names \in BOOLEAN, Sort(checks_names)
        PROVE  IInv'
    BY <2>1, BeginOrderPreserves, PopReadyPreserves, EndOrderPreserves DEF Sort
  <2>2. QED
    BY <1>2, <2>1 DEF Order, build_topological_order_of_controller,
       build_topological_order_of_solver, build_topological_order_of_learning
<1>3. CASE Infer
  <2>1. ASSUME NEW points, InferNext(points)
        PROVE  IInv'
    <3>1. /\ graph' = graph /\ order' = order /\ pc = "infer"
          /\ pc' \in {"infer", "use"} \/ (pc' = "refused" /\ why' = "affine")
      BY <2>1 DEF InferNext, Refuse
    <3>2. QED
      BY <3>1, QuietStepPreserves DEF Sorted
  <2>2. QED
    BY <1>3, <2>1 DEF Infer, infer_node_dims_of_controller,
       infer_node_dim_of_solver, infer_node_dim_of_learning
<1>4. CASE Use
  <2>1. /\ graph' = graph /\ order' = order /\ pc = "use"
        /\ \/ pc' \in {"idle", "declare"}
           \/ pc' = "refused" /\ why' \in {"no size", "inconsistent", "task map"}
    BY <1>4 DEF Use, configure_external_rmp_inputs, build_external_feature_specs,
       compile, Refuse, Done
  <2>2. QED
    BY <2>1, QuietStepPreserves DEF Sorted
<1>5. CASE Solve
  <2>1. /\ graph' = graph /\ order' = order /\ pc = "solve" /\ why' = why
        /\ pc' \in {"idle", "solve"}
    BY <1>5 DEF Solve, SolveNode, EndSolve, Fail
  <2>2. QED
    BY <2>1, QuietStepPreserves DEF Sorted
<1>6. CASE Arrive
  <2>1. graph' = graph /\ order' = order /\ pc = "idle" /\ pc' = "idle"
    BY <1>6 DEF Arrive, MetricArrives, AccelerationArrives
  <2>2. QED
    BY <2>1, QuietStepPreserves DEF Sorted
<1>7. ASSUME NEW targets \in Targets, NEW obstacles \in ObstacleCounts,
             NEW features \in Passed, BeginSolve(targets, obstacles, features)
      PROVE  IInv'
  <2>1. /\ graph' = graph /\ order' = order /\ pc = "idle"
        /\ pc' \in {"idle", "solve"}
    BY <1>7 DEF BeginSolve
  <2>2. QED
    BY <2>1, QuietStepPreserves DEF Sorted
<1>8. CASE UNCHANGED vars
  <2>1. /\ graph' = graph /\ order' = order /\ pc' = pc /\ why' = why
        /\ indegree' = indegree /\ ready' = ready
    BY <1>8 DEF vars
  <2>2. CASE pc # "sort"
    BY <2>1, <2>2, QuietStepPreserves DEF Sorted
  <2>3. CASE pc = "sort"
    <3>1. /\ Names' = Names /\ Missing' = Missing
          /\ \A n : Parents(n)' = Parents(n) /\ Edges(n)' = Edges(n)
      BY <2>1, GraphStays
    <3>2. Placed' = Placed
      BY <2>1 DEF Placed
    <3>3. \A n : Open(n)' = Open(n)
      BY <3>1, <3>2 DEF Open
    <3>4. OrderIsPlain'
      BY <2>1, <3>1, <3>2 DEF IInv, OrderIsPlain
    <3>5. OrderSound'
      BY <2>1, <3>1 DEF IInv, OrderSound, Edges, Parents, NodeOf, Nodes
    <3>6. KnotsWait'
      BY <2>1, <3>1, <3>2, KnotsStay DEF IInv, KnotsWait
    <3>7. LoopCounts'
      BY <2>1, <3>1, <3>2, <3>3 DEF IInv, LoopCounts
    <3>8. RefusesCyclesOnly'
      BY <2>1, <2>3 DEF RefusesCyclesOnly, Sorted
    <3>9. QED
      BY <3>4, <3>5, <3>6, <3>7, <3>8 DEF IInv
  <2>4. QED
    BY <2>2, <2>3
<1>9. QED
  BY <1>1, <1>2, <1>3, <1>4, <1>5, <1>6, <1>7, <1>8 DEF Next, Read

\* The invariant of the sort holds in every reader, whatever the graph.
THEOREM SortIsInductive == Spec => []IInv
<1>1. Init => IInv
  BY InitEstablishes
<1>2. IInv /\ [Next]_vars => IInv'
  BY StepPreserves
<1>3. QED
  BY <1>1, <1>2, PTL DEF Spec

\* Whatever the graph, build_topological_order() places a node once and after
\* all its parents, in the controller, the solver and the learning adapter.
THEOREM OrdersAreSound == Spec => []OrderSound
<1>1. IInv => OrderSound
  BY DEF IInv
<1>2. QED
  BY <1>1, SortIsInductive, PTL

\* It refuses the graphs with a cycle and no others, and places all nodes of
\* those it does not refuse.
THEOREM OnlyCyclesAreRefused == Spec => []RefusesCyclesOnly
<1>1. IInv => RefusesCyclesOnly
  BY DEF IInv
<1>2. QED
  BY <1>1, SortIsInductive, PTL

-----------------------------------------------------------------------------
(* The sizes: what a reading leaves behind and what solve() finds.          *)

\* The readers take their turns, and nothing is solved before the last is done.
ReadsInTurn ==
    /\ \/ owner = "controller" /\ todo \in {<<"controller", "solver">>, <<"solver">>, <<>>}
       \/ owner = "learning" /\ todo \in {<<"solver", "learning">>, <<"learning">>, <<>>}
    /\ pc \in {"declare", "begin", "sort", "infer", "use", "refused", "idle", "solve"}
    /\ todo = <<>> <=> pc \in {"idle", "solve"}
    /\ todo # <<>> => outcome = ""

\* The controller goes on only with names that occur once.
NoTwins == pc \in {"begin", "sort", "infer", "use"} /\ Reader = "controller"
             => ~Repeated(DOMAIN Nodes)

\* The first k nodes of the order, and the root.
Upto(k) == {root} \cup {order[i] : i \in 1..k}

\* The sizes d are those of the whole graph.
Solution(d, points) ==
    /\ DOMAIN d = {root} \cup Names /\ d[root] = 6
    /\ \A n \in Names : d[n] = InferDim(n, d, points)

PointsSeen == IF Reader = "learning" THEN LearningPoints ELSE Points

\* The inference has done a prefix of the order, at the end all of it.
SizesInferred ==
    /\ pc = "infer" =>
          /\ \E k \in 0..Len(order) : DOMAIN dims = Upto(k)
          /\ dims[root] = 6
          /\ \A n \in DOMAIN dims \ {root} : dims[n] = InferDim(n, dims, PointsSeen)
    /\ pc = "use" => Solution(dims, PointsSeen)

\* What the solver keeps of its reading.
SolverSizes ==
    todo \in {<<"learning">>, <<>>} =>
        /\ Solution(node_dims, Points)
        /\ DOMAIN compiled = {n \in Names : uses_casadi_task_map(NodeOf(n).task)}
        /\ \A n \in DOMAIN compiled : compiled[n] # Thrown

\* An input holds nothing or entries of its size, which in the controller is
\* that of an external node with its key in any solution.
InputsSized ==
    \A key \in DOMAIN inputs :
        LET input == inputs[key] IN
        /\ DOMAIN input = {"dim", "metric", "acceleration"}
        /\ input.metric \in {-1, input.dim * input.dim}
        /\ input.acceleration \in {-1, input.dim}
        /\ owner = "controller" =>
              \E m \in External :
                  /\ NodeOf(m).key = key
                  /\ \A d : Solution(d, Points) => input.dim = d[m]

\* The arguments of the solve() that runs.
FeaturesFit ==
    pc = "solve" =>
        /\ call.obstacles \in ObstacleCounts
        /\ \A key \in DOMAIN call.features :
              /\ key \in DOMAIN inputs
              /\ call.features[key].acceleration = inputs[key].dim
              /\ call.features[key].metric = inputs[key].dim * inputs[key].dim

\* The cache holds a prefix of the order, in a regular graph with the sizes the
\* maps were compiled for.
CacheFollows ==
    pc = "solve" =>
        /\ Mode
        /\ \E k \in 0..Len(order) : DOMAIN cache = Upto(k)
        /\ cache[root] = 6
        /\ \A n \in DOMAIN cache : cache[n] # Thrown
        /\ Regular => \A n \in DOMAIN cache \ Varying : cache[n] = node_dims[n]

SizesInv == /\ IInv
            /\ ReadsInTurn /\ NoTwins
            /\ SizesInferred /\ SolverSizes /\ InputsSized
            /\ FeaturesFit /\ CacheFollows /\ RegularGraphsSolve

\* The next node of the order is new, and its parents are before it.
LEMMA NextNode ==
    ASSUME IInv, NEW k \in Nat, k < Len(order)
    PROVE  /\ order[k + 1] \in Names \ Upto(k)
           /\ Upto(k + 1) = Upto(k) \cup {order[k + 1]}
           /\ \A j \in DOMAIN Parents(order[k + 1]) :
                 Parents(order[k + 1])[j] \in Upto(k)
<1> DEFINE n == order[k + 1]
<1>1. Len(order) \in Nat /\ DOMAIN order = 1..Len(order) /\ graph \in Graphs
  BY DEF IInv, OrderIsPlain
<1>2. k + 1 \in DOMAIN order /\ (k + 1) - 1 = k
  BY <1>1
<1>3. /\ n \in Names
      /\ \A j \in 1..k : order[j] # n
      /\ \A e \in Edges(n) : \E j \in 1..k : order[j] = Parents(n)[e]
  BY <1>2 DEF IInv, OrderSound
<1>4. n # root
  BY <1>1, <1>3, NodesHaveParents
<1>5. n \notin Upto(k)
  BY <1>3, <1>4 DEF Upto
<1>6. ASSUME NEW j \in DOMAIN Parents(n)
      PROVE  Parents(n)[j] \in Upto(k)
  <2>1. CASE Parents(n)[j] = root
    BY <2>1 DEF Upto
  <2>2. CASE Parents(n)[j] # root
    <3>1. j \in Edges(n)
      BY <1>6, <2>2 DEF Edges
    <3>2. QED
      BY <1>3, <3>1 DEF Upto
  <2>3. QED
    BY <2>1, <2>2
<1>7. 1..(k + 1) = (1..k) \cup {k + 1}
  OBVIOUS
<1>8. Upto(k + 1) = Upto(k) \cup {n}
  BY <1>7 DEF Upto
<1>9. QED
  BY <1>3, <1>5, <1>6, <1>8

\* A prefix has as many nodes as its length says, and the root.
LEMMA PrefixCounted ==
    ASSUME IInv, NEW k \in 0..Len(order)
    PROVE  Cardinality(Upto(k)) = k + 1 /\ Cardinality(Upto(k)) - 1 = k
<1> DEFINE T == {order[i] : i \in 1..k}
           f == [i \in 1..k |-> order[i]]
<1>1. Len(order) \in Nat /\ DOMAIN order = 1..Len(order) /\ graph \in Graphs
  BY DEF IInv, OrderIsPlain
<1>2. k \in Nat /\ 1..k \subseteq DOMAIN order
  BY <1>1
<1>3. f \in Surjection(1..k, T)
  BY DEF Surjection
<1>4. \A i, j \in 1..k : f[i] = f[j] => i = j
  <2> SUFFICES ASSUME NEW i \in 1..k, NEW j \in 1..k, i < j
               PROVE  order[i] # order[j]
    BY <1>2
  <2>1. i \in 1..(j - 1) /\ j \in DOMAIN order
    BY <1>2
  <2>2. QED
    BY <2>1 DEF IInv, OrderSound
<1>5. f \in Bijection(1..k, T)
  BY <1>3, <1>4 DEF Bijection, Injection, IsInjective, Surjection
<1>6. IsFiniteSet(1..k) /\ Cardinality(1..k) = k
  BY <1>2, FS_Interval
<1>7. IsFiniteSet(T) /\ Cardinality(T) = k
  <2>1. ExistsBijection(1..k, T)
    BY <1>5 DEF ExistsBijection
  <2>2. QED
    BY <1>6, <2>1, FS_Bijection
<1>8. root \notin T
  <2>1. \A i \in 1..k : order[i] \in Names
    BY <1>2 DEF IInv, OrderSound
  <2>2. QED
    BY <1>1, <2>1, NodesHaveParents
<1>9. Cardinality(T \cup {root}) = k + 1
  BY <1>7, <1>8, FS_AddElement
<1>10. Upto(k) = T \cup {root}
  BY DEF Upto
<1>11. QED
  BY <1>2, <1>9, <1>10

\* The whole order is the whole graph.
LEMMA AllPlaced ==
    ASSUME IInv, Sorted
    PROVE  Upto(Len(order)) = {root} \cup Names
<1>1. Range(order) = Names
  BY DEF IInv, RefusesCyclesOnly
<1>2. DOMAIN order = 1..Len(order)
  BY DEF IInv, OrderIsPlain
<1>3. Range(order) = {order[i] : i \in 1..Len(order)}
  BY <1>2 DEF Range
<1>4. QED
  BY <1>1, <1>3 DEF Upto

\* The size of a node depends on the sizes of its parents alone.
LEMMA InferDimLocal ==
    ASSUME graph \in Graphs, NEW n \in Names, NEW d, NEW e, NEW points,
           \A j \in DOMAIN Parents(n) : d[Parents(n)[j]] = e[Parents(n)[j]]
    PROVE  /\ SizesOf(d, n) = SizesOf(e, n)
           /\ InferDim(n, d, points) = InferDim(n, e, points)
<1>1. SizesOf(d, n) = SizesOf(e, n)
  BY DEF SizesOf
<1>2. 1 \in DOMAIN Parents(n) /\ Parents(n) = NodeOf(n).parents
  BY NodesHaveParents DEF Parents
<1>3. d[NodeOf(n).parents[1]] = e[NodeOf(n).parents[1]]
  BY <1>2
<1>4. QED
  BY <1>1, <1>3 DEF InferDim

Smaller == {pair \in Nat \X Nat : pair[1] < pair[2]}

\* Every set of numbers that is not empty has a least one.
LEMMA Least ==
    ASSUME NEW T \in SUBSET Nat, T # {}
    PROVE  \E x \in T : \A y \in T : x <= y
<1>1. IsWellFoundedOn(Smaller, Nat)
  BY NatLessThanWellFounded DEF Smaller, OpToRel
<1>2. \E x \in T : \A y \in T : ~ (<<y, x>> \in Smaller)
  BY <1>1, WFMin
<1>3. \A x, y \in Nat : ~ (<<y, x>> \in Smaller) => x <= y
  BY DEF Smaller
<1>4. QED
  BY <1>2, <1>3

\* A graph that can be ordered has one solution: the three inferences agree on
\* every node, whichever order each of them takes.
LEMMA SolutionsAgree ==
    ASSUME IInv, Sorted, NEW d, NEW e, NEW points,
           Solution(d, points), Solution(e, points)
    PROVE  \A n \in Names : d[n] = e[n]
<1> DEFINE T == {i \in DOMAIN order : d[order[i]] # e[order[i]]}
<1>1. /\ Len(order) \in Nat /\ DOMAIN order = 1..Len(order) /\ graph \in Graphs
      /\ Range(order) = Names
  BY DEF IInv, OrderIsPlain, RefusesCyclesOnly
<1>2. ASSUME T # {}
      PROVE  FALSE
  <2>1. T \in SUBSET Nat
    BY <1>1
  <2>2. PICK i \in T : \A j \in T : i <= j
    BY <1>2, <2>1, Least
  <2>3. i - 1 \in Nat /\ i - 1 < Len(order) /\ (i - 1) + 1 = i
    BY <1>1, <2>2
  <2>4. order[i] \in Names
    BY <2>3, NextNode
  <2>5. \A j \in DOMAIN Parents(order[i]) : Parents(order[i])[j] \in Upto(i - 1)
    BY <2>3, NextNode
  <2>6. ASSUME NEW m \in Upto(i - 1)
        PROVE  d[m] = e[m]
    <3>1. CASE m = root
      BY <3>1 DEF Solution
    <3>2. CASE m # root
      <4>1. PICK j \in 1..(i - 1) : order[j] = m
        BY <2>6, <3>2 DEF Upto
      <4>2. j \in DOMAIN order /\ j < i
        BY <1>1, <2>2, <4>1
      <4>3. j \notin T
        BY <2>1, <2>2, <4>2
      <4>4. QED
        BY <4>1, <4>2, <4>3
    <3>3. QED
      BY <3>1, <3>2
  <2>7. InferDim(order[i], d, points) = InferDim(order[i], e, points)
    BY <1>1, <2>4, <2>5, <2>6, InferDimLocal
  <2>8. d[order[i]] = e[order[i]]
    BY <2>4, <2>7 DEF Solution
  <2>9. QED
    BY <2>2, <2>8
<1>3. ASSUME NEW n \in Names
      PROVE  d[n] = e[n]
  <2>1. PICK i \in DOMAIN order : order[i] = n
    BY <1>1 DEF Range
  <2>2. QED
    BY <1>2, <2>1
<1>4. QED
  BY <1>3

-----------------------------------------------------------------------------
(* What stays.                                                              *)

\* What the nodes are stays with the graph.
LEMMA NodesStay ==
    ASSUME graph' = graph
    PROVE  /\ \A n : NodeOf(n)' = NodeOf(n)
           /\ External' = External /\ Varying' = Varying
           /\ (Mode' <=> Mode)
           /\ Repeated(DOMAIN Nodes)' <=> Repeated(DOMAIN Nodes)
<1>1. Names' = Names
  BY GraphStays
<1>2. \A n : NodeOf(n)' = NodeOf(n)
  BY DEF NodeOf, Nodes
<1>3. External' = External
  BY <1>1, <1>2 DEF External, IsExternal
<1>4. Varying' = Varying
  BY <1>1, <1>2 DEF Varying, OfTask
<1>5. Mode' <=> Mode
  BY DEF Mode
<1>6. Repeated(DOMAIN Nodes)' <=> Repeated(DOMAIN Nodes)
  BY DEF Repeated, Nodes
<1>7. QED
  BY <1>2, <1>3, <1>4, <1>5, <1>6

\* So do the sizes that are right for it.
LEMMA SolutionStays ==
    ASSUME graph' = graph
    PROVE  /\ \A n, d, points : InferDim(n, d, points)' = InferDim(n, d, points)
           /\ \A d, points : Solution(d, points)' <=> Solution(d, points)
<1>1. Names' = Names
  BY GraphStays
<1>2. \A n, d, points : InferDim(n, d, points)' = InferDim(n, d, points)
  BY DEF InferDim, SizesOf, NodeOf, Entry, Parents, Nodes
<1>3. QED
  BY <1>1, <1>2 DEF Solution

\* The same of sizes that a variable holds.
LEMMA SizesMove ==
    ASSUME graph' = graph, NEW d
    PROVE  /\ dims' = d => \A n, points :
                InferDim(n, dims, points)' = InferDim(n, d, points)
           /\ dims' = d => \A points : Solution(dims, points)' <=> Solution(d, points)
           /\ node_dims' = d => (Solution(node_dims, Points)' <=> Solution(d, Points))
<1>1. Names' = Names
  BY GraphStays
<1>2. \A n, points : dims' = d =>
          InferDim(n, dims, points)' = InferDim(n, d, points)
  BY DEF InferDim, SizesOf, NodeOf, Entry, Parents, Nodes
<1>3. \A n, points : node_dims' = d =>
          InferDim(n, node_dims, points)' = InferDim(n, d, points)
  BY DEF InferDim, SizesOf, NodeOf, Entry, Parents, Nodes
<1>4. \A points : dims' = d => (Solution(dims, points)' <=> Solution(d, points))
  BY <1>1, <1>2 DEF Solution
<1>5. node_dims' = d => (Solution(node_dims, Points)' <=> Solution(d, Points))
  BY <1>1, <1>3 DEF Solution
<1>6. QED
  BY <1>2, <1>4, <1>5

\* A graph stays regular or irregular once its readers are done: the inputs
\* of the controller, which change, are not asked.
LEMMA RegularStays ==
    ASSUME graph' = graph, owner' = owner, compiled' = compiled,
           node_dims' = node_dims, inputs' = inputs \/ owner = "controller"
    PROVE  Regular' <=> Regular
<1>1. Names' = Names /\ \A n : Parents(n)' = Parents(n) /\ Edges(n)' = Edges(n)
  BY GraphStays
<1>2. /\ \A n : NodeOf(n)' = NodeOf(n)
      /\ External' = External /\ Varying' = Varying /\ (Mode' <=> Mode)
  BY NodesStay
<1>3. \A n : Leaves(n)' = Leaves(n)
  BY <1>2 DEF Leaves
<1>4. \A task : OfTask(task)' = OfTask(task)
  BY <1>1, <1>2 DEF OfTask
<1>5. \A S : Downstream(S)' = Downstream(S)
  BY <1>1 DEF Downstream
<1>6. Downstream(Varying)' = Downstream(Varying)
  BY <1>1, <1>2 DEF Downstream
<1>7. (owner = "learning" => \A n \in External :
          inputs[NodeOf(n).key].dim = node_dims[n])' <=>
      (owner = "learning" => \A n \in External :
          inputs[NodeOf(n).key].dim = node_dims[n])
  BY <1>2
<1>8. QED
  BY <1>1, <1>2, <1>3, <1>4, <1>6, <1>7 DEF Regular

\* What the solver keeps of its reading stays as it is.
LEMMA SolverSizesStay ==
    ASSUME SolverSizes, UNCHANGED <<graph, todo, compiled, node_dims>>
    PROVE  SolverSizes'
<1> SUFFICES ASSUME todo \in {<<"learning">>, <<>>}
             PROVE  /\ Solution(node_dims, Points)'
                    /\ (DOMAIN compiled =
                          {n \in Names : uses_casadi_task_map(NodeOf(n).task)})'
                    /\ (\A n \in DOMAIN compiled : compiled[n] # Thrown)'
  BY DEF SolverSizes
<1>1. /\ Solution(node_dims, Points)
      /\ DOMAIN compiled = {n \in Names : uses_casadi_task_map(NodeOf(n).task)}
      /\ \A n \in DOMAIN compiled : compiled[n] # Thrown
  BY DEF SolverSizes
<1>2. Solution(node_dims, Points)'
  <2>1. PICK d : d = node_dims
    OBVIOUS
  <2>2. Solution(d, Points) <=> Solution(node_dims, Points)
    BY <2>1
  <2>3. QED
    BY <1>1, <2>1, <2>2, SizesMove
<1>3. Names' = Names /\ \A n : NodeOf(n)' = NodeOf(n)
  BY GraphStays, NodesStay
<1>4. QED
  BY <1>1, <1>2, <1>3 DEF uses_casadi_task_map, Thrown

\* So do the inputs, as long as none arrives.
LEMMA InputsSizedStay ==
    ASSUME InputsSized, UNCHANGED <<graph, owner, inputs>>
    PROVE  InputsSized'
<1>1. /\ External' = External /\ \A n : NodeOf(n)' = NodeOf(n)
      /\ \A d, points : Solution(d, points)' <=> Solution(d, points)
  BY NodesStay, SolutionStays
<1>2. QED
  BY <1>1 DEF InputsSized

\* A step of a reader that neither infers nor uses sizes.
LEMMA ReadingFrames ==
    ASSUME SizesInv, todo # <<>>,
           pc' \in {"declare", "begin", "sort", "infer", "use", "refused"},
           UNCHANGED <<graph, owner, todo, solve_vars, inputs, compiled, node_dims>>
    PROVE  /\ ReadsInTurn' /\ SolverSizes' /\ InputsSized' /\ FeaturesFit'
           /\ CacheFollows' /\ RegularGraphsSolve'
<1> USE DEF solve_vars
<1>1. ReadsInTurn'
  BY DEF SizesInv, ReadsInTurn
<1>2. SolverSizes' /\ InputsSized'
  BY SolverSizesStay, InputsSizedStay DEF SizesInv
<1>3. FeaturesFit' /\ CacheFollows'
  BY DEF FeaturesFit, CacheFollows
<1>4. RegularGraphsSolve'
  BY DEF SizesInv, ReadsInTurn, RegularGraphsSolve
<1>5. QED
  BY <1>1, <1>2, <1>3, <1>4

-----------------------------------------------------------------------------
(* The steps of the readers.                                                *)

\* Names that occur twice do not get past the declaration.
LEMMA DeclareKeepsSizes ==
    ASSUME SizesInv, IInv', todo # <<>>, declare_graph_parameters
    PROVE  SizesInv'
<1> USE DEF sort_vars, read_vars, solve_vars
<1>1. /\ UNCHANGED <<graph, owner, todo, solve_vars, read_vars>>
      /\ pc' \in {"begin", "refused"}
      /\ pc' = "begin" => ~(Reader = "controller" /\ Repeated(DOMAIN Nodes))
  BY DEF declare_graph_parameters, Refuse
<1>2. NoTwins'
  <2>1. Repeated(DOMAIN Nodes)' <=> Repeated(DOMAIN Nodes)
    BY <1>1, NodesStay
  <2>2. Reader' = Reader
    BY <1>1 DEF Reader
  <2>3. QED
    BY <1>1, <2>1, <2>2 DEF NoTwins
<1>3. SizesInferred'
  BY <1>1 DEF SizesInferred
<1>4. QED
  BY <1>1, <1>2, <1>3, ReadingFrames DEF SizesInv

\* What stays of NoTwins when the reader goes on.
LEMMA NoTwinsStay ==
    ASSUME SizesInv, pc \in {"begin", "sort", "infer", "use"},
           graph' = graph, todo' = todo
    PROVE  NoTwins'
<1>1. Repeated(DOMAIN Nodes)' <=> Repeated(DOMAIN Nodes)
  BY NodesStay
<1>2. Reader' = Reader
  BY DEF Reader
<1>3. QED
  BY <1>1, <1>2 DEF SizesInv, NoTwins

\* The inference begins with the size of the root.
LEMMA SortKeepsSizes ==
    ASSUME SizesInv, IInv', todo # <<>>, NEW checks_names \in BOOLEAN,
           Sort(checks_names)
    PROVE  SizesInv'
<1> USE DEF sort_vars, read_vars, solve_vars
<1>1. /\ UNCHANGED <<graph, owner, todo, solve_vars, inputs, compiled, node_dims>>
      /\ pc \in {"begin", "sort"}
      /\ \/ pc' \in {"sort", "refused"}
         \/ pc' = "infer" /\ dims' = RootAlone /\ order' = order
  BY DEF Sort, BeginOrder, PopReady, EndOrder, Refuse
<1>2. NoTwins'
  BY <1>1, NoTwinsStay
<1>3. SizesInferred'
  <2>1. CASE pc' \in {"sort", "refused"}
    BY <2>1 DEF SizesInferred
  <2>2. CASE pc' = "infer" /\ dims' = RootAlone /\ order' = order
    <3>1. DOMAIN dims' = {root} /\ dims'[root] = 6
      BY <2>2 DEF RootAlone
    <3>2. Upto(0)' = {root}
      BY DEF Upto
    <3>3. Len(order)' \in Nat
      BY DEF OrderIsPlain, IInv
    <3>4. (\E k \in 0..Len(order) : DOMAIN dims = Upto(k))'
      BY <3>1, <3>2, <3>3
    <3>5. QED
      BY <2>2, <3>1, <3>4 DEF SizesInferred
  <2>3. QED
    BY <1>1, <2>1, <2>2
<1>4. QED
  BY <1>1, <1>2, <1>3, ReadingFrames DEF SizesInv

\* A turn of the inference: the sizes of a prefix are right for one node more.
LEMMA InferKeepsSizes ==
    ASSUME SizesInv, IInv', todo # <<>>, InferNext(PointsSeen)
    PROVE  SizesInv'
<1> USE DEF sort_vars, read_vars, solve_vars
<1>1. /\ UNCHANGED <<graph, owner, todo, solve_vars, inputs, compiled, node_dims>>
      /\ order' = order /\ pc = "infer" /\ pc' \in {"infer", "use", "refused"}
  BY DEF InferNext, Refuse
<1>2. NoTwins'
  BY <1>1, NoTwinsStay
<1>3. PICK k \in 0..Len(order) : DOMAIN dims = Upto(k)
  BY <1>1 DEF SizesInv, SizesInferred
<1>4. /\ dims[root] = 6 /\ k \in Nat /\ Len(order) \in Nat /\ graph \in Graphs
      /\ \A n \in DOMAIN dims \ {root} : dims[n] = InferDim(n, dims, PointsSeen)
      /\ Cardinality(DOMAIN dims) - 1 = k
      /\ DOMAIN order = 1..Len(order)
  BY <1>1, <1>3, PrefixCounted DEF SizesInv, SizesInferred, IInv, OrderIsPlain
<1>5. /\ PointsSeen' = PointsSeen /\ Names' = Names
      /\ \A i : Upto(i)' = Upto(i)
  BY <1>1, GraphStays DEF PointsSeen, Reader, Upto
<1>6. SizesInferred'
  <2>1. CASE pc' = "refused"
    BY <2>1 DEF SizesInferred
  <2>2. CASE /\ k < Len(order) /\ pc' = "infer"
             /\ dims' = Extended(dims, order[k + 1],
                                   InferDim(order[k + 1], dims, PointsSeen))
    <3> DEFINE n == order[k + 1]
    <3>1. /\ n \in Names \ Upto(k) /\ Upto(k + 1) = Upto(k) \cup {n}
          /\ \A j \in DOMAIN Parents(n) : Parents(n)[j] \in Upto(k)
      BY <1>4, <2>2, NextNode DEF SizesInv
    <3>2. PICK d : d = dims'
      OBVIOUS
    <3>3. /\ DOMAIN d = Upto(k + 1)
          /\ \A m \in Upto(k) : d[m] = dims[m]
          /\ d[n] = InferDim(n, dims, PointsSeen)
      BY <1>3, <2>2, <3>1, <3>2 DEF Extended
    <3>4. d[root] = 6
      BY <1>4, <3>3 DEF Upto
    <3>5. ASSUME NEW m \in DOMAIN d \ {root}
          PROVE  d[m] = InferDim(m, d, PointsSeen)
      <4>1. /\ m \in Names
            /\ \A j \in DOMAIN Parents(m) : Parents(m)[j] \in Upto(k)
            /\ d[m] = InferDim(m, dims, PointsSeen)
        <5>1. CASE m = n
          BY <3>1, <3>3, <5>1
        <5>2. CASE m # n
          <6>1. m \in Upto(k) \ {root}
            BY <3>1, <3>3, <3>5, <5>2
          <6>2. PICK i \in 1..k : order[i] = m
            BY <6>1 DEF Upto
          <6>3. i - 1 \in Nat /\ i - 1 < Len(order) /\ (i - 1) + 1 = i /\ i - 1 <= k
            BY <1>3, <1>4, <6>2
          <6>4. m \in Names /\ \A j \in DOMAIN Parents(m) : Parents(m)[j] \in Upto(i - 1)
            BY <6>2, <6>3, NextNode DEF SizesInv
          <6>5. Upto(i - 1) \subseteq Upto(k)
            BY <1>4, <6>2, <6>3 DEF Upto
          <6>6. d[m] = InferDim(m, dims, PointsSeen)
            BY <1>3, <1>4, <3>3, <6>1
          <6>7. QED
            BY <6>4, <6>5, <6>6
        <5>3. QED
          BY <5>1, <5>2
      <4>2. \A j \in DOMAIN Parents(m) : d[Parents(m)[j]] = dims[Parents(m)[j]]
        BY <3>3, <4>1
      <4>3. InferDim(m, d, PointsSeen) = InferDim(m, dims, PointsSeen)
        BY <1>4, <4>1, <4>2, InferDimLocal
      <4>4. QED
        BY <4>1, <4>3
    <3>6. PICK points : points = PointsSeen
      OBVIOUS
    <3>7. \A m \in DOMAIN d \ {root} : d[m] = InferDim(m, dims, points)'
      <4>1. \A m : InferDim(m, dims, points)' = InferDim(m, d, points)
        BY <1>1, <3>2, SizesMove
      <4>2. QED
        BY <3>5, <3>6, <4>1
    <3>8. \A m \in DOMAIN d \ {root} : d[m] = InferDim(m, dims, PointsSeen)'
      BY <1>1, <1>5, <3>6, <3>7 DEF InferDim, SizesOf
    <3>9. (\E i \in 0..Len(order) : DOMAIN dims = Upto(i))'
      <4>1. k + 1 \in 0..Len(order)
        BY <1>4, <2>2
      <4>2. QED
        BY <1>1, <1>5, <3>2, <3>3, <4>1
    <3>10. QED
      BY <2>2, <3>2, <3>4, <3>8, <3>9 DEF SizesInferred
  <2>3. CASE k = Len(order) /\ pc' = "use" /\ dims' = dims
    <3>1. DOMAIN dims = {root} \cup Names
      BY <1>1, <1>3, <2>3, AllPlaced DEF SizesInv, Sorted
    <3>2. root \notin Names
      BY <1>4, NodesHaveParents
    <3>3. PICK d, points : d = dims /\ points = PointsSeen
      OBVIOUS
    <3>4. \A n \in Names : dims[n] = InferDim(n, dims, PointsSeen)
      BY <1>4, <3>1, <3>2
    <3>5. Solution(dims, PointsSeen)
      BY <1>4, <3>1, <3>4 DEF Solution
    <3>6. Solution(d, points)
      BY <3>3, <3>5
    <3>7. Solution(dims, points)'
      BY <1>1, <2>3, <3>3, <3>6, SizesMove
    <3>8. Solution(dims, PointsSeen)'
      BY <1>5, <3>3, <3>7
    <3>9. QED
      BY <2>3, <3>8 DEF SizesInferred
  <2>4. QED
    BY <1>4, <2>1, <2>2, <2>3 DEF InferNext, Refuse
<1>7. QED
  BY <1>1, <1>2, <1>6, ReadingFrames DEF SizesInv

\* Who has the turn says whose solver it is and who comes next.
LEMMA Turns ==
    ASSUME SizesInv, todo # <<>>
    PROVE  /\ outcome = ""
           /\ Reader = "controller" => /\ owner = "controller"
                                       /\ todo = <<"controller", "solver">>
                                       /\ Tail(todo) = <<"solver">>
           /\ Reader = "learning" => /\ owner = "learning"
                                     /\ todo = <<"learning">> /\ Tail(todo) = <<>>
           /\ Reader = "solver" =>
                 \/ /\ owner = "controller" /\ todo = <<"solver">>
                    /\ Tail(todo) = <<>>
                 \/ /\ owner = "learning" /\ todo = <<"solver", "learning">>
                    /\ Tail(todo) = <<"learning">>
           /\ <<"solver">> # <<>> /\ <<"learning">> # <<>>
<1>1. /\ outcome = ""
      /\ \/ owner = "controller" /\ todo \in {<<"controller", "solver">>, <<"solver">>}
         \/ owner = "learning" /\ todo \in {<<"solver", "learning">>, <<"learning">>}
  BY DEF SizesInv, ReadsInTurn
<1>2. \A a : Head(<<a>>) = a /\ Tail(<<a>>) = <<>>
  <2> TAKE a
  <2>1. <<a>> \in Seq({a})
    OBVIOUS
  <2>2. QED
    BY <2>1
<1>3. \A a, b : Head(<<a, b>>) = a /\ Tail(<<a, b>>) = <<b>>
  <2> TAKE a, b
  <2>1. <<a, b>> \in Seq({a, b})
    OBVIOUS
  <2>2. QED
    BY <2>1
<1>4. \A a : <<a>> # <<>>
  OBVIOUS
<1>5. CASE owner = "controller" /\ todo = <<"controller", "solver">>
  <2>1. Reader = "controller" /\ Tail(todo) = <<"solver">>
    BY <1>3, <1>5 DEF Reader
  <2>2. QED
    BY <1>1, <1>4, <1>5, <2>1
<1>6. CASE owner = "controller" /\ todo = <<"solver">>
  <2>1. Reader = "solver" /\ Tail(todo) = <<>>
    BY <1>2, <1>6 DEF Reader
  <2>2. QED
    BY <1>1, <1>4, <1>6, <2>1
<1>7. CASE owner = "learning" /\ todo = <<"solver", "learning">>
  <2>1. Reader = "solver" /\ Tail(todo) = <<"learning">>
    BY <1>3, <1>7 DEF Reader
  <2>2. QED
    BY <1>1, <1>4, <1>7, <2>1
<1>8. CASE owner = "learning" /\ todo = <<"learning">>
  <2>1. Reader = "learning" /\ Tail(todo) = <<>>
    BY <1>2, <1>8 DEF Reader
  <2>2. QED
    BY <1>1, <1>4, <1>8, <2>1
<1>9. QED
  BY <1>1, <1>5, <1>6, <1>7, <1>8

\* The buffers of the controller have the sizes of nodes that use them.
LEMMA ConfigureKeepsSizes ==
    ASSUME SizesInv, IInv', todo # <<>>, configure_external_rmp_inputs
    PROVE  SizesInv'
<1> USE DEF sort_vars, read_vars, solve_vars
<1> DEFINE Uses  == {i \in DOMAIN Nodes : /\ IsExternal(Nodes[i])
                                          /\ Nodes[i].key \notin graph.muted}
           Sizes == {i \in Uses : \A j \in Uses :
                                    Nodes[j].key = Nodes[i].key => i <= j}
           Of(key) == CHOOSE i \in Sizes : Nodes[i].key = key
<1>1. Reader = "controller" /\ pc = "use"
  BY DEF configure_external_rmp_inputs
<1>2. /\ todo = <<"controller", "solver">> /\ owner = "controller" /\ outcome = ""
      /\ Solution(dims, Points) /\ ~Repeated(DOMAIN Nodes) /\ graph \in Graphs
  BY <1>1, Turns DEF SizesInv, SizesInferred, NoTwins, PointsSeen, IInv, OrderIsPlain
<1>3. CASE Refuse("no size") /\ UNCHANGED <<sort_vars, read_vars>>
  <2>1. /\ UNCHANGED <<graph, owner, todo, solve_vars, inputs, compiled, node_dims>>
        /\ pc' = "refused"
    BY <1>3 DEF Refuse
  <2>2. NoTwins' /\ SizesInferred'
    BY <2>1 DEF NoTwins, SizesInferred
  <2>3. QED
    BY <2>1, <2>2, ReadingFrames DEF SizesInv
<1>4. CASE /\ \A i \in Sizes : Nodes[i].name \in DOMAIN dims
           /\ inputs' = [key \in {Nodes[i].key : i \in Sizes} |->
                           [dim |-> dims[Nodes[Of(key)].name],
                            metric |-> -1, acceleration |-> -1]]
           /\ Done /\ UNCHANGED <<compiled, node_dims>>
  <2>1. /\ UNCHANGED <<graph, owner, solve_vars, compiled, node_dims>>
        /\ todo' = <<"solver">> /\ pc' = "declare"
    BY <1>1, <1>4, Turns DEF Done
  <2>2. ReadsInTurn'
    BY <1>2, <2>1 DEF ReadsInTurn
  <2>3. NoTwins' /\ SizesInferred' /\ FeaturesFit' /\ CacheFollows'
    BY <2>1 DEF NoTwins, SizesInferred, FeaturesFit, CacheFollows
  <2>4. SolverSizes' /\ RegularGraphsSolve'
    BY <1>2, <2>1 DEF SolverSizes, RegularGraphsSolve
  <2>5. ASSUME NEW key \in {Nodes[i].key : i \in Sizes}
        PROVE  \E m \in External :
                  /\ NodeOf(m).key = key
                  /\ \A d : Solution(d, Points) => dims[Nodes[Of(key)].name] = d[m]
    <3> DEFINE i == Of(key)
               m == Nodes[i].name
    <3>1. i \in Sizes /\ Nodes[i].key = key
      BY <2>5
    <3>2. i \in DOMAIN Nodes /\ IsExternal(Nodes[i]) /\ m \in {root} \cup Names
      BY <1>2, <1>4, <3>1 DEF Solution
    <3>3. m \in Nat \ {root}
      <4>1. Nodes \in Seq(NodeConfigs)
        BY <1>2 DEF Nodes
      <4>2. Nodes[i] \in NodeConfigs
        BY <3>2, <4>1
      <4>3. QED
        BY <4>2 DEF NodeConfigs
    <3>4. m \in Names
      BY <3>2, <3>3
    <3>5. PICK j \in DOMAIN Nodes : Nodes[j].enabled /\ Nodes[j].name = m
      BY <3>4 DEF Names, Enabled
    <3>6. \A k \in DOMAIN Nodes : Nodes[k].name = m => k = i
      BY <1>2, <3>2 DEF Repeated
    <3>7. NodeOf(m) = Nodes[i]
      BY <3>5, <3>6 DEF NodeOf, Entry
    <3>8. m \in External /\ NodeOf(m).key = key
      BY <3>1, <3>2, <3>4, <3>7 DEF External
    <3>9. ASSUME NEW d, Solution(d, Points)
          PROVE  dims[m] = d[m]
      <4>1. PICK e : e = dims
        OBVIOUS
      <4>2. Solution(e, Points)
        BY <1>2, <4>1
      <4>3. IInv /\ Sorted
        BY <1>1 DEF SizesInv, Sorted
      <4>4. e[m] = d[m]
        BY <3>4, <3>9, <4>2, <4>3, SolutionsAgree
      <4>5. QED
        BY <4>1, <4>4
    <3>10. QED
      BY <3>8, <3>9
  <2>6. InputsSized'
    <3>1. /\ External' = External /\ \A n : NodeOf(n)' = NodeOf(n)
          /\ \A d, points : Solution(d, points)' <=> Solution(d, points)
      BY <2>1, NodesStay, SolutionStays
    <3>2. DOMAIN inputs' = {Nodes[i].key : i \in Sizes}
      BY <1>4
    <3>3. \A key \in DOMAIN inputs' :
              /\ inputs'[key].dim = dims[Nodes[Of(key)].name]
              /\ inputs'[key].metric = -1 /\ inputs'[key].acceleration = -1
              /\ DOMAIN inputs'[key] = {"dim", "metric", "acceleration"}
      BY <1>4
    <3>4. \A key \in DOMAIN inputs' :
              \E m \in External :
                  /\ NodeOf(m).key = key
                  /\ \A d : Solution(d, Points) => inputs'[key].dim = d[m]
      BY <2>5, <3>2, <3>3
    <3>5. QED
      BY <3>1, <3>3, <3>4 DEF InputsSized
  <2>7. QED
    BY <2>2, <2>3, <2>4, <2>6 DEF SizesInv
<1>5. QED
  BY <1>3, <1>4 DEF configure_external_rmp_inputs

\* The sizes of the residuals of a policy are those of the inputs.
LEMMA BuildKeepsSizes ==
    ASSUME SizesInv, IInv', todo # <<>>, build_external_feature_specs
    PROVE  SizesInv'
<1> USE DEF sort_vars, read_vars, solve_vars
<1> DEFINE Uses == {n \in Names : IsExternal(NodeOf(n))}
           Keys == {NodeOf(n).key : n \in Uses}
           Dims(key) == {dims[n] : n \in {m \in Uses : NodeOf(m).key = key}}
<1>1. Reader = "learning" /\ pc = "use"
  BY DEF build_external_feature_specs
<1>2. todo = <<"learning">> /\ owner = "learning" /\ outcome = ""
  BY <1>1, Turns
<1>3. CASE Refuse("inconsistent") /\ UNCHANGED <<sort_vars, read_vars>>
  <2>1. /\ UNCHANGED <<graph, owner, todo, solve_vars, inputs, compiled, node_dims>>
        /\ pc' = "refused"
    BY <1>3 DEF Refuse
  <2>2. NoTwins' /\ SizesInferred'
    BY <2>1 DEF NoTwins, SizesInferred
  <2>3. QED
    BY <2>1, <2>2, ReadingFrames DEF SizesInv
<1>4. CASE /\ inputs' = [key \in Keys |->
                           LET dim == CHOOSE d \in Dims(key) : TRUE
                           IN  [dim |-> dim, metric |-> dim * dim,
                                acceleration |-> dim]]
           /\ Done /\ UNCHANGED <<compiled, node_dims>>
  <2>1. /\ UNCHANGED <<graph, owner, solve_vars, compiled, node_dims>>
        /\ todo' = <<>> /\ pc' = "idle"
    BY <1>1, <1>4, Turns DEF Done
  <2>2. ReadsInTurn'
    BY <1>2, <2>1 DEF ReadsInTurn
  <2>3. NoTwins' /\ SizesInferred' /\ FeaturesFit' /\ CacheFollows'
    BY <2>1 DEF NoTwins, SizesInferred, FeaturesFit, CacheFollows
  <2>4. RegularGraphsSolve'
    BY <1>2, <2>1 DEF RegularGraphsSolve
  <2>5. SolverSizes'
    <3>1. /\ Solution(node_dims, Points)
          /\ DOMAIN compiled = {n \in Names : uses_casadi_task_map(NodeOf(n).task)}
          /\ \A n \in DOMAIN compiled : compiled[n] # Thrown
      BY <1>2 DEF SizesInv, SolverSizes
    <3>2. PICK d : d = node_dims
      OBVIOUS
    <3>3. Solution(node_dims, Points)'
      BY <2>1, <3>1, <3>2, SizesMove
    <3>4. Names' = Names /\ \A n : NodeOf(n)' = NodeOf(n)
      BY <2>1, GraphStays, NodesStay
    <3>5. QED
      BY <2>1, <3>1, <3>3, <3>4 DEF SolverSizes, uses_casadi_task_map, Thrown
  <2>6. InputsSized'
    <3>1. \A key \in DOMAIN inputs' :
              /\ DOMAIN inputs'[key] = {"dim", "metric", "acceleration"}
              /\ inputs'[key].metric = inputs'[key].dim * inputs'[key].dim
              /\ inputs'[key].acceleration = inputs'[key].dim
      BY <1>4
    <3>2. QED
      BY <1>2, <2>1, <3>1 DEF InputsSized
  <2>7. QED
    BY <2>2, <2>3, <2>4, <2>5, <2>6 DEF SizesInv
<1>5. QED
  BY <1>3, <1>4 DEF build_external_feature_specs

\* The solver keeps a solution and maps that can be built for it.
LEMMA CompileKeepsSizes ==
    ASSUME SizesInv, IInv', todo # <<>>, compile
    PROVE  SizesInv'
<1> USE DEF sort_vars, read_vars, solve_vars
<1> DEFINE Maps == {n \in Names : uses_casadi_task_map(NodeOf(n).task)}
           Out(n) == apply_task_map(n, SizesOf(dims, n))
<1>1. Reader = "solver" /\ pc = "use"
  BY DEF compile
<1>2. outcome = "" /\ Solution(dims, Points)
  BY <1>1, Turns DEF SizesInv, SizesInferred, PointsSeen
<1>3. CASE Refuse("task map") /\ UNCHANGED <<sort_vars, read_vars>>
  <2>1. /\ UNCHANGED <<graph, owner, todo, solve_vars, inputs, compiled, node_dims>>
        /\ pc' = "refused"
    BY <1>3 DEF Refuse
  <2>2. NoTwins' /\ SizesInferred'
    BY <2>1 DEF NoTwins, SizesInferred
  <2>3. QED
    BY <2>1, <2>2, ReadingFrames DEF SizesInv
<1>4. CASE /\ \A n \in Maps : Out(n) # Thrown
           /\ compiled' = [n \in Maps |-> Out(n)]
           /\ node_dims' = dims
           /\ Done /\ UNCHANGED inputs
  <2>1. /\ UNCHANGED <<graph, owner, solve_vars, inputs>>
        /\ \/ todo' = <<>> /\ pc' = "idle" /\ owner = "controller"
           \/ todo' = <<"learning">> /\ pc' = "declare" /\ owner = "learning"
    BY <1>1, <1>4, Turns DEF Done
  <2>2. ReadsInTurn'
    BY <1>2, <2>1, Turns DEF ReadsInTurn
  <2>3. NoTwins' /\ SizesInferred' /\ FeaturesFit' /\ CacheFollows'
    BY <2>1 DEF NoTwins, SizesInferred, FeaturesFit, CacheFollows
  <2>4. RegularGraphsSolve'
    BY <1>2, <2>1 DEF RegularGraphsSolve
  <2>5. SolverSizes'
    <3>1. PICK d : d = dims
      OBVIOUS
    <3>2. Solution(d, Points)
      BY <1>2, <3>1
    <3>3. Solution(node_dims, Points)'
      BY <1>4, <2>1, <3>1, <3>2, SizesMove
    <3>4. Maps' = Maps
      BY <2>1, GraphStays, NodesStay DEF uses_casadi_task_map
    <3>5. DOMAIN compiled' = Maps /\ \A n \in Maps : compiled'[n] # Thrown
      BY <1>4
    <3>6. QED
      BY <3>3, <3>4, <3>5 DEF SolverSizes, Thrown
  <2>6. InputsSized'
    BY <2>1, InputsSizedStay DEF SizesInv
  <2>7. QED
    BY <2>2, <2>3, <2>4, <2>5, <2>6 DEF SizesInv
<1>5. QED
  BY <1>3, <1>4 DEF compile

-----------------------------------------------------------------------------
(* The steps of solve() and of the topics.                                  *)

\* The sizes the solver works with are those of its last reader.
LEMMA SolvingFrames ==
    ASSUME SizesInv, pc \in {"idle", "solve"}, pc' \in {"idle", "solve"},
           UNCHANGED <<graph, owner, todo, compiled, node_dims>>
    PROVE  /\ todo = <<>> /\ Sorted /\ graph \in Graphs
           /\ Solution(node_dims, Points)
           /\ DOMAIN compiled = {n \in Names : uses_casadi_task_map(NodeOf(n).task)}
           /\ \A n \in DOMAIN compiled : compiled[n] # Thrown
           /\ ReadsInTurn' /\ NoTwins' /\ SizesInferred' /\ SolverSizes'
<1>1. todo = <<>> /\ ReadsInTurn'
  BY DEF SizesInv, ReadsInTurn
<1>2. NoTwins' /\ SizesInferred'
  BY DEF NoTwins, SizesInferred
<1>3. SolverSizes'
  BY SolverSizesStay DEF SizesInv
<1>4. /\ Solution(node_dims, Points)
      /\ DOMAIN compiled = {n \in Names : uses_casadi_task_map(NodeOf(n).task)}
      /\ \A n \in DOMAIN compiled : compiled[n] # Thrown
  BY <1>1 DEF SizesInv, SolverSizes
<1>5. Sorted /\ graph \in Graphs
  BY DEF Sorted, SizesInv, IInv, OrderIsPlain
<1>6. QED
  BY <1>1, <1>2, <1>3, <1>4, <1>5

\* A message has the size of its input or is dropped.
LEMMA ArriveKeepsSizes ==
    ASSUME SizesInv, IInv', Arrive
    PROVE  SizesInv'
<1> USE DEF sort_vars, read_vars, solve_vars
<1>0. PICK key \in DOMAIN inputs :
         \E entries :
            MetricArrives(key, entries) \/ AccelerationArrives(key, entries)
  BY DEF Arrive
<1>1. PICK entries :
         MetricArrives(key, entries) \/ AccelerationArrives(key, entries)
  BY <1>0
<1>2. /\ pc = "idle" /\ pc' = "idle" /\ owner = "controller"
      /\ UNCHANGED <<graph, owner, todo, compiled, node_dims, outcome>>
      /\ \/ /\ entries = inputs[key].dim * inputs[key].dim
            /\ inputs' = [inputs EXCEPT ![key].metric = entries]
         \/ /\ entries = inputs[key].dim
            /\ inputs' = [inputs EXCEPT ![key].acceleration = entries]
  BY <1>1 DEF MetricArrives, AccelerationArrives
<1>3. ReadsInTurn' /\ NoTwins' /\ SizesInferred' /\ SolverSizes'
  BY <1>2, SolvingFrames
<1>4. FeaturesFit' /\ CacheFollows'
  BY <1>2 DEF FeaturesFit, CacheFollows
<1>5. RegularGraphsSolve'
  <2>1. Regular' <=> Regular
    BY <1>2, RegularStays
  <2>2. QED
    BY <1>2, <2>1 DEF SizesInv, RegularGraphsSolve
<1>6. InputsSized'
  <2>1. /\ External' = External /\ \A n : NodeOf(n)' = NodeOf(n)
        /\ \A d, points : Solution(d, points)' <=> Solution(d, points)
    BY <1>2, NodesStay, SolutionStays
  <2>2. \A k \in DOMAIN inputs :
            /\ DOMAIN inputs[k] = {"dim", "metric", "acceleration"}
            /\ inputs[k].metric \in {-1, inputs[k].dim * inputs[k].dim}
            /\ inputs[k].acceleration \in {-1, inputs[k].dim}
    BY DEF SizesInv, InputsSized
  <2>3. /\ DOMAIN inputs' = DOMAIN inputs
        /\ \A k \in DOMAIN inputs :
              /\ DOMAIN inputs'[k] = {"dim", "metric", "acceleration"}
              /\ inputs'[k].dim = inputs[k].dim
              /\ inputs'[k].metric \in {-1, inputs'[k].dim * inputs'[k].dim}
              /\ inputs'[k].acceleration \in {-1, inputs'[k].dim}
    BY <1>2, <2>2
  <2>4. \A k \in DOMAIN inputs : \E m \in External :
            /\ NodeOf(m).key = k
            /\ \A d : Solution(d, Points) => inputs[k].dim = d[m]
    BY <1>2 DEF SizesInv, InputsSized
  <2>5. QED
    BY <2>1, <2>3, <2>4 DEF InputsSized
<1>7. QED
  BY <1>3, <1>4, <1>5, <1>6 DEF SizesInv

\* solve() begins with the root and with inputs of which both halves came.
LEMMA BeginSolveKeepsSizes ==
    ASSUME SizesInv, IInv', NEW targets, NEW obstacles \in ObstacleCounts,
           NEW features \in Passed, BeginSolve(targets, obstacles, features)
    PROVE  SizesInv'
<1> USE DEF sort_vars, read_vars, solve_vars
<1>1. /\ pc = "idle"
      /\ UNCHANGED <<graph, owner, todo, order, inputs, compiled, node_dims>>
      /\ call' = [targets |-> targets, obstacles |-> obstacles,
                  features |-> features]
      /\ cache' = RootAlone
      /\ \/ Mode /\ outcome' = "" /\ pc' = "solve"
         \/ ~Mode /\ outcome' = "mode" /\ pc' = "idle"
  BY DEF BeginSolve
<1>2. /\ ReadsInTurn' /\ NoTwins' /\ SizesInferred' /\ SolverSizes'
      /\ Solution(node_dims, Points) /\ graph \in Graphs
  BY <1>1, SolvingFrames
<1>3. InputsSized'
  BY <1>1, InputsSizedStay DEF SizesInv
<1>4. FeaturesFit'
  <2>1. ASSUME NEW key \in DOMAIN features
        PROVE  /\ key \in DOMAIN inputs
               /\ features[key].acceleration = inputs[key].dim
               /\ features[key].metric = inputs[key].dim * inputs[key].dim
    <3>1. CASE features = Features
      <4>1. /\ key \in DOMAIN inputs /\ features[key] = inputs[key]
            /\ inputs[key].metric >= 0 /\ inputs[key].acceleration >= 0
        BY <2>1, <3>1 DEF Features
      <4>2. /\ inputs[key].metric \in {-1, inputs[key].dim * inputs[key].dim}
            /\ inputs[key].acceleration \in {-1, inputs[key].dim}
        BY <4>1 DEF SizesInv, InputsSized
      <4>3. ~(-1 >= 0)
        OBVIOUS
      <4>4. inputs[key].metric # -1 /\ inputs[key].acceleration # -1
        BY <4>1, <4>3
      <4>5. QED
        BY <4>1, <4>2, <4>4
    <3>2. CASE features = <<>>
      BY <2>1, <3>2
    <3>3. QED
      BY <3>1, <3>2 DEF Passed
  <2>2. QED
    BY <1>1, <2>1 DEF FeaturesFit
<1>5. CacheFollows'
  <2>1. ASSUME Mode, outcome' = "", pc' = "solve"
        PROVE  CacheFollows'
    <3>1. Mode'
      BY <1>1, <2>1, NodesStay
    <3>2. DOMAIN cache' = {root} /\ cache'[root] = 6
      BY <1>1 DEF RootAlone
    <3>3. Upto(0)' = {root} /\ Len(order)' \in Nat
      BY DEF Upto, OrderIsPlain, IInv
    <3>4. (\E k \in 0..Len(order) : DOMAIN cache = Upto(k))'
      BY <3>2, <3>3
    <3>5. node_dims'[root] = 6
      BY <1>1, <1>2 DEF Solution
    <3>6. QED
      BY <3>1, <3>2, <3>4, <3>5 DEF CacheFollows, Thrown
  <2>2. CASE pc' = "idle"
    BY <2>2 DEF CacheFollows
  <2>3. QED
    BY <1>1, <2>1, <2>2
<1>6. RegularGraphsSolve'
  <2>1. ~Mode => ~Regular'
    BY <1>1, NodesStay DEF Regular
  <2>2. QED
    BY <1>1, <2>1 DEF RegularGraphsSolve
<1>7. QED
  BY <1>2, <1>3, <1>4, <1>5, <1>6 DEF SizesInv

\* In a regular graph a map is evaluated on sizes it was made for, and returns
\* what was inferred; only the distances have a size of their own.
LEMMA EvaluatedRight ==
    ASSUME SizesInv, pc = "solve", Regular,
           NEW k \in Nat, k < Len(order), DOMAIN cache = Upto(k)
    PROVE  LET n == order[k + 1] IN
           /\ EvaluatedSize(n) # Thrown
           /\ n \notin Varying => EvaluatedSize(n) = node_dims[n]
<1> DEFINE n     == order[k + 1]
           sizes == SizesOf(cache, n)
           task  == NodeOf(n).task
<1>1. /\ n \in Names /\ graph \in Graphs
      /\ \A j \in DOMAIN Parents(n) : Parents(n)[j] \in DOMAIN cache
  BY NextNode DEF SizesInv, IInv, OrderIsPlain
<1>2. /\ Solution(node_dims, Points)
      /\ DOMAIN compiled = {m \in Names : uses_casadi_task_map(NodeOf(m).task)}
      /\ \A m \in DOMAIN compiled : compiled[m] # Thrown
  <2>1. todo = <<>>
    BY DEF SizesInv, ReadsInTurn
  <2>2. QED
    BY <2>1 DEF SizesInv, SolverSizes
<1>3. /\ \A m \in DOMAIN cache : cache[m] # Thrown
      /\ \A m \in DOMAIN cache \ Varying : cache[m] = node_dims[m]
      /\ call.obstacles \in Nat
  BY DEF SizesInv, CacheFollows, FeaturesFit
<1>4. ASSUME NEW j \in DOMAIN Parents(n)
      PROVE  cache[Parents(n)[j]] = node_dims[Parents(n)[j]]
  <2>1. Downstream(Varying) = {}
    BY DEF Regular
  <2>2. CASE Parents(n)[j] = root
    <3>1. root \notin Varying
      BY <1>1, NodesHaveParents DEF Varying, OfTask
    <3>2. QED
      BY <1>1, <1>3, <2>2, <3>1
  <2>3. CASE Parents(n)[j] # root
    <3>1. j \in Edges(n)
      BY <2>3 DEF Edges
    <3>2. Parents(n)[j] \notin Varying
      BY <1>1, <2>1, <3>1 DEF Downstream
    <3>3. QED
      BY <1>1, <1>3, <3>2
  <2>4. QED
    BY <2>2, <2>3
<1>5. sizes = SizesOf(node_dims, n)
  BY <1>1, <1>4, InferDimLocal
<1>6. CASE uses_casadi_task_map(task)
  <2>1. n \in DOMAIN compiled
    BY <1>1, <1>2, <1>6
  <2>2. compiled[n] = node_dims[n] /\ compiled[n] # Thrown
    BY <1>1, <1>2, <2>1 DEF Regular
  <2>3. EvaluatedSize(n) = compiled[n]
    BY <1>5, <1>6 DEF EvaluatedSize, evaluate_casadi_node
  <2>4. QED
    BY <2>2, <2>3
<1>7. CASE ~uses_casadi_task_map(task)
  <2> DEFINE first == node_dims[Parents(n)[1]]
  <2>1. n \notin DOMAIN compiled
    BY <1>2, <1>7
  <2>2. task \in NativeMaps
    BY <1>1, <2>1 DEF Regular
  <2>3. 1 \in DOMAIN Parents(n) /\ Parents(n) = NodeOf(n).parents
    BY <1>1, NodesHaveParents DEF Parents
  <2>4. sizes[1] = first /\ first # Thrown
    BY <1>1, <1>3, <1>4, <2>3 DEF SizesOf
  <2>5. EvaluatedSize(n) = evaluate_native_node(n, first)
    BY <1>7, <2>4 DEF EvaluatedSize
  <2>6. node_dims[n] = InferDim(n, node_dims, Points)
    BY <1>1, <1>2 DEF Solution
  <2>7. CASE task \in {"identity", "cspace_target"}
    <3>1. evaluate_native_node(n, first) = first
      BY <2>7 DEF evaluate_native_node
    <3>2. InferDim(n, node_dims, Points) = first
      BY <2>3, <2>7 DEF InferDim
    <3>3. QED
      BY <2>4, <2>5, <2>6, <3>1, <3>2
  <2>8. CASE task = "joint_limit"
    <3>1. first >= 6
      BY <1>1, <2>8 DEF Regular, OfTask
    <3>2. evaluate_native_node(n, first) = 12
      BY <2>8, <3>1 DEF evaluate_native_node
    <3>3. InferDim(n, node_dims, Points) = 12
      BY <2>8 DEF InferDim
    <3>4. QED
      BY <2>5, <2>6, <3>2, <3>3 DEF Thrown
  <2>9. CASE task \in {"tcp_position", "link_position", "link_orientation_axis"}
    <3>1. evaluate_native_node(n, first) = 3
      BY <2>9 DEF evaluate_native_node
    <3>2. InferDim(n, node_dims, Points) = 3
      BY <2>9 DEF InferDim
    <3>3. QED
      BY <2>5, <2>6, <3>1, <3>2 DEF Thrown
  <2>10. CASE task = "control_points"
    <3>1. evaluate_native_node(n, first) = 3 * Points
      BY <2>10 DEF evaluate_native_node
    <3>2. InferDim(n, node_dims, Points) = 3 * Points
      BY <2>10 DEF InferDim
    <3>3. QED
      BY <2>5, <2>6, <3>1, <3>2 DEF Thrown
  <2>11. CASE task = "collision_distance"
    <3>1. n \in Varying
      BY <1>1, <2>11 DEF Varying, OfTask
    <3>2. first \div 3 = Points
      BY <3>1 DEF Regular
    <3>3. evaluate_native_node(n, first) = Points * call.obstacles
      BY <2>11, <3>2 DEF evaluate_native_node
    <3>4. Points * call.obstacles \in Nat
      BY <1>3
    <3>5. QED
      BY <2>5, <3>1, <3>3, <3>4 DEF Thrown
  <2>12. QED
    BY <2>2, <2>7, <2>8, <2>9, <2>10, <2>11 DEF NativeMaps
<1>8. QED
  BY <1>6, <1>7

\* In a regular graph a leaf accepts the size its node was compiled for.
LEMMA LeavesFit ==
    ASSUME SizesInv, pc = "solve", Regular, NEW n \in Names,
           NEW leaf \in Leaves(n), NEW size,
           n \notin Varying => size = node_dims[n]
    PROVE  ~LeafThrows(n, leaf, size)
<1> DEFINE key == NodeOf(n).key
<1>1. leaf \in LeafTypes
  BY DEF Regular
<1>2. ~(leaf = "cspace_target" /\ size # 6)
  <2> SUFFICES ASSUME leaf = "cspace_target"
               PROVE  size = 6
    OBVIOUS
  <2>1. n \notin Varying /\ node_dims[n] = 6
    BY DEF Regular
  <2>2. QED
    BY <2>1
<1>3. ~(leaf \in AxisLeaves \cup {"target"} /\ size # 3)
  <2> SUFFICES ASSUME leaf \in AxisLeaves \cup {"target"}
               PROVE  size = 3
    OBVIOUS
  <2>1. n \notin Varying /\ node_dims[n] = 3
    BY DEF Regular
  <2>2. QED
    BY <2>1
<1>4. ASSUME leaf = "external", key \in DOMAIN call.features
      PROVE  ~Mismatch(call.features[key], size)
  <2>1. n \in External
    BY <1>4 DEF External, IsExternal, Leaves
  <2>2. n \notin Varying
    BY <2>1 DEF Regular
  <2>3. /\ key \in DOMAIN inputs
        /\ call.features[key].acceleration = inputs[key].dim
        /\ call.features[key].metric = inputs[key].dim * inputs[key].dim
    BY <1>4 DEF SizesInv, FeaturesFit
  <2>4. inputs[key].dim = node_dims[n]
    <3>1. CASE owner = "learning"
      BY <2>1, <3>1 DEF Regular
    <3>2. CASE owner = "controller"
      <4>1. PICK m \in External :
                /\ NodeOf(m).key = key
                /\ \A d : Solution(d, Points) => inputs[key].dim = d[m]
        BY <2>3, <3>2 DEF SizesInv, InputsSized
      <4>2. Solution(node_dims, Points)
        BY DEF SizesInv, ReadsInTurn, SolverSizes
      <4>3. PICK d : d = node_dims
        OBVIOUS
      <4>4. Solution(d, Points)
        BY <4>2, <4>3
      <4>5. inputs[key].dim = node_dims[m]
        BY <4>1, <4>3, <4>4
      <4>6. node_dims[m] = node_dims[n]
        BY <2>1, <4>1 DEF Regular
      <4>7. QED
        BY <4>5, <4>6
    <3>3. QED
      BY <3>1, <3>2 DEF SizesInv, ReadsInTurn
  <2>5. QED
    BY <2>2, <2>3, <2>4 DEF Mismatch
<1>5. QED
  BY <1>1, <1>2, <1>3, <1>4 DEF LeafThrows

\* A turn of solve(): the cache holds one node more, or the graph is irregular.
LEMMA SolveNodeKeepsSizes ==
    ASSUME SizesInv, IInv', SolveNode
    PROVE  SizesInv'
<1> USE DEF sort_vars, read_vars, solve_vars
<1>1. pc = "solve"
  BY DEF SolveNode
<1>2. PICK k \in 0..Len(order) : DOMAIN cache = Upto(k)
  BY <1>1 DEF SizesInv, CacheFollows
<1>3. /\ Cardinality(DOMAIN cache) = k + 1 /\ Cardinality(DOMAIN cache) - 1 = k
      /\ k \in Nat /\ Len(order) \in Nat /\ k < Len(order)
  <2>1. Cardinality(DOMAIN cache) = k + 1 /\ Cardinality(DOMAIN cache) - 1 = k
    BY <1>2, PrefixCounted DEF SizesInv
  <2>2. Cardinality(DOMAIN cache) - 1 < Len(order)
    BY DEF SolveNode
  <2>3. Len(order) \in Nat
    BY DEF SizesInv, IInv, OrderIsPlain
  <2>4. QED
    BY <2>1, <2>2, <2>3
<1> DEFINE n == order[k + 1]
<1>4. /\ n \in Names \ Upto(k) /\ Upto(k + 1) = Upto(k) \cup {n}
      /\ \A j \in DOMAIN Parents(n) : Parents(n)[j] \in DOMAIN cache
  BY <1>2, <1>3, NextNode DEF SizesInv
<1> DEFINE size == EvaluatedSize(n)
           now  == Extended(cache, n, size)
<1>5. \/ size = Thrown /\ Fail("task map") /\ UNCHANGED <<cache, boosted>>
      \/ /\ size # Thrown /\ cache' = now
         /\ \/ (\E leaf \in Leaves(n) : LeafThrows(n, leaf, size)) /\ Fail("leaf")
            \/ /\ UNCHANGED <<graph, owner, todo, pc, why, sort_vars, read_vars,
                              call, outcome>>
               /\ ~\E leaf \in Leaves(n) : LeafThrows(n, leaf, size)
  BY <1>3, <1>4 DEF SolveNode
<1>6. /\ UNCHANGED <<graph, owner, todo, order, inputs, compiled, node_dims, call>>
      /\ pc' \in {"idle", "solve"}
  BY <1>1, <1>5 DEF Fail
<1>7. /\ ReadsInTurn' /\ NoTwins' /\ SizesInferred' /\ SolverSizes'
  BY <1>1, <1>6, SolvingFrames
<1>8. InputsSized' /\ FeaturesFit'
  BY <1>1, <1>6, InputsSizedStay DEF SizesInv, FeaturesFit
<1>9. /\ Regular' <=> Regular
      /\ Mode' <=> Mode
      /\ Varying' = Varying /\ \A i : Upto(i)' = Upto(i)
  BY <1>6, RegularStays, NodesStay DEF Upto
<1>10. Regular => /\ size # Thrown
                  /\ n \notin Varying => size = node_dims[n]
  BY <1>1, <1>2, <1>3, EvaluatedRight
<1>11. CASE size = Thrown /\ Fail("task map")
  <2>1. ~Regular' /\ outcome' = "task map" /\ pc' = "idle"
    BY <1>9, <1>10, <1>11 DEF Fail
  <2>2. CacheFollows' /\ RegularGraphsSolve'
    BY <2>1 DEF CacheFollows, RegularGraphsSolve
  <2>3. QED
    BY <1>7, <1>8, <2>2 DEF SizesInv
<1>12. CASE (\E leaf \in Leaves(n) : LeafThrows(n, leaf, size)) /\ Fail("leaf")
  <2>1. outcome' = "leaf" /\ pc' = "idle"
    BY <1>12 DEF Fail
  <2>2. ~Regular
    BY <1>1, <1>4, <1>10, <1>12, LeavesFit
  <2>3. CacheFollows' /\ RegularGraphsSolve'
    BY <1>9, <2>1, <2>2 DEF CacheFollows, RegularGraphsSolve
  <2>4. QED
    BY <1>7, <1>8, <2>3 DEF SizesInv
<1>13. CASE size # Thrown /\ cache' = now /\ pc' = pc /\ outcome' = outcome
  <2>1. /\ DOMAIN cache' = Upto(k + 1) /\ cache'[n] = size
        /\ \A m \in Upto(k) : cache'[m] = cache[m]
    BY <1>2, <1>4, <1>13 DEF Extended
  <2>2. /\ Mode /\ cache[root] = 6
        /\ \A m \in DOMAIN cache : cache[m] # Thrown
        /\ Regular => \A m \in DOMAIN cache \ Varying : cache[m] = node_dims[m]
    BY <1>1 DEF SizesInv, CacheFollows
  <2>3. (\E i \in 0..Len(order) : DOMAIN cache = Upto(i))'
    <3>1. k + 1 \in 0..Len(order)
      BY <1>3
    <3>2. QED
      BY <1>6, <1>9, <2>1, <3>1
  <2>4. cache'[root] = 6
    BY <2>1, <2>2 DEF Upto
  <2>5. \A m \in DOMAIN cache' : cache'[m] # Thrown
    BY <1>2, <1>4, <1>13, <2>1, <2>2
  <2>6. Regular => \A m \in DOMAIN cache' \ Varying : cache'[m] = node_dims[m]
    BY <1>2, <1>4, <1>10, <2>1, <2>2
  <2>7. CacheFollows'
    BY <1>6, <1>9, <2>2, <2>3, <2>4, <2>5, <2>6 DEF CacheFollows, Thrown
  <2>8. RegularGraphsSolve'
    BY <1>9, <1>13 DEF SizesInv, RegularGraphsSolve
  <2>9. QED
    BY <1>7, <1>8, <2>7, <2>8 DEF SizesInv
<1>14. QED
  BY <1>5, <1>11, <1>12, <1>13

\* A cycle that came through ends.
LEMMA EndSolveKeepsSizes ==
    ASSUME SizesInv, IInv', EndSolve
    PROVE  SizesInv'
<1> USE DEF sort_vars, read_vars, solve_vars
<1>1. /\ pc = "solve" /\ pc' = "idle" /\ outcome' = "solved"
      /\ UNCHANGED <<graph, owner, todo, order, inputs, compiled, node_dims>>
  BY DEF EndSolve
<1>2. /\ ReadsInTurn' /\ NoTwins' /\ SizesInferred' /\ SolverSizes'
  BY <1>1, SolvingFrames
<1>3. InputsSized'
  BY <1>1, InputsSizedStay DEF SizesInv
<1>4. FeaturesFit' /\ CacheFollows' /\ RegularGraphsSolve'
  BY <1>1 DEF FeaturesFit, CacheFollows, RegularGraphsSolve
<1>5. QED
  BY <1>2, <1>3, <1>4 DEF SizesInv

\* Nothing happens.
LEMMA StutterKeepsSizes ==
    ASSUME SizesInv, IInv', UNCHANGED vars
    PROVE  SizesInv'
<1> USE DEF vars
<1>1. /\ (Regular' <=> Regular) /\ (Mode' <=> Mode) /\ Varying' = Varying
      /\ (Repeated(DOMAIN Nodes)' <=> Repeated(DOMAIN Nodes))
      /\ \A i : Upto(i)' = Upto(i)
      /\ Reader' = Reader /\ PointsSeen' = PointsSeen
  BY RegularStays, NodesStay DEF Upto, Reader, PointsSeen
<1>2. ReadsInTurn' /\ NoTwins'
  BY <1>1 DEF SizesInv, ReadsInTurn, NoTwins
<1>3. SolverSizes' /\ InputsSized'
  BY SolverSizesStay, InputsSizedStay DEF SizesInv
<1>4. FeaturesFit' /\ CacheFollows' /\ RegularGraphsSolve'
  BY <1>1 DEF SizesInv, FeaturesFit, CacheFollows, RegularGraphsSolve, Thrown
<1>5. SizesInferred'
  <2>1. PICK d, points : d = dims /\ points = PointsSeen
    OBVIOUS
  <2>2. /\ Solution(dims, points)' <=> Solution(d, points)
        /\ \A n : InferDim(n, dims, points)' = InferDim(n, d, points)
    BY <2>1, SizesMove
  <2>3. CASE pc = "use"
    <3>1. Solution(d, points)
      BY <2>1, <2>3 DEF SizesInv, SizesInferred
    <3>2. Solution(dims, points)'
      BY <2>2, <3>1
    <3>3. Solution(dims, PointsSeen)'
      BY <1>1, <2>1, <3>2
    <3>4. QED
      BY <2>3, <3>3 DEF SizesInferred
  <2>4. CASE pc = "infer"
    <3>1. /\ \E k \in 0..Len(order) : DOMAIN d = Upto(k)
          /\ d[root] = 6
          /\ \A n \in DOMAIN d \ {root} : d[n] = InferDim(n, d, points)
      <4>1. /\ \E k \in 0..Len(order) : DOMAIN dims = Upto(k)
            /\ dims[root] = 6
            /\ \A n \in DOMAIN dims \ {root} : dims[n] = InferDim(n, dims, PointsSeen)
        BY <2>4 DEF SizesInv, SizesInferred
      <4>2. QED
        BY <2>1, <4>1
    <3>2. \A n \in DOMAIN d \ {root} : d[n] = InferDim(n, dims, points)'
      BY <2>2, <3>1
    <3>3. \A n \in DOMAIN d \ {root} : d[n] = InferDim(n, dims, PointsSeen)'
      BY <1>1, <2>1, <3>2 DEF InferDim, SizesOf
    <3>4. (\E k \in 0..Len(order) : DOMAIN dims = Upto(k))'
      BY <1>1, <2>1, <3>1
    <3>5. QED
      BY <2>1, <2>4, <3>1, <3>3, <3>4 DEF SizesInferred
  <2>5. CASE pc \notin {"use", "infer"}
    BY <2>5 DEF SizesInferred
  <2>6. QED
    BY <2>3, <2>4, <2>5
<1>6. QED
  BY <1>2, <1>3, <1>4, <1>5 DEF SizesInv

\* Nothing is inferred and nothing has arrived at the beginning.
LEMMA InitSizes == Init => SizesInv
<1> SUFFICES ASSUME Init PROVE SizesInv
  OBVIOUS
<1>1. /\ pc = "declare" /\ outcome = "" /\ inputs = <<>>
      /\ \/ owner = "controller" /\ todo = <<"controller", "solver">>
         \/ owner = "learning" /\ todo = <<"solver", "learning">>
  BY DEF Init
<1>2. todo # <<>> /\ todo # <<"learning">>
  <2>1. <<"controller", "solver">> # <<>> /\ <<"controller", "solver">> # <<"learning">>
    OBVIOUS
  <2>2. <<"solver", "learning">> # <<>> /\ <<"solver", "learning">> # <<"learning">>
    OBVIOUS
  <2>3. QED
    BY <1>1, <2>1, <2>2
<1>3. ReadsInTurn /\ NoTwins /\ SizesInferred /\ SolverSizes
  BY <1>1, <1>2 DEF ReadsInTurn, NoTwins, SizesInferred, SolverSizes
<1>4. InputsSized
  <2>1. inputs = <<>>
    BY <1>1
  <2>2. DOMAIN inputs = {}
    BY <2>1
  <2>3. QED
    BY <2>2 DEF InputsSized
<1>5. FeaturesFit /\ CacheFollows /\ RegularGraphsSolve
  BY <1>1 DEF FeaturesFit, CacheFollows, RegularGraphsSolve
<1>6. QED
  BY <1>3, <1>4, <1>5, InitEstablishes DEF SizesInv

\* Every step of readers, callers and topics keeps the sizes right.
LEMMA StepKeepsSizes == SizesInv /\ [Next]_vars => SizesInv'
<1> SUFFICES ASSUME SizesInv, [Next]_vars PROVE SizesInv'
  OBVIOUS
<1>1. IInv'
  BY StepPreserves DEF SizesInv
<1>2. CASE Read
  <2>1. todo # <<>>
    BY <1>2 DEF Read
  <2>2. CASE declare_graph_parameters
    BY <1>1, <2>1, <2>2, DeclareKeepsSizes
  <2>3. ASSUME NEW checks_names \in BOOLEAN, Sort(checks_names)
        PROVE  SizesInv'
    BY <1>1, <2>1, <2>3, SortKeepsSizes
  <2>4. CASE Order
    BY <2>3, <2>4 DEF Order, build_topological_order_of_controller,
       build_topological_order_of_solver, build_topological_order_of_learning
  <2>5. CASE Infer
    <3>1. CASE infer_node_dims_of_controller \/ infer_node_dim_of_solver
      <4>1. PointsSeen = Points /\ InferNext(Points)
        BY <3>1 DEF infer_node_dims_of_controller, infer_node_dim_of_solver,
           PointsSeen
      <4>2. InferNext(PointsSeen)
        BY <4>1 DEF InferNext, InferDim
      <4>3. QED
        BY <1>1, <2>1, <4>2, InferKeepsSizes
    <3>2. CASE infer_node_dim_of_learning
      <4>1. PointsSeen = LearningPoints /\ InferNext(LearningPoints)
        BY <3>2 DEF infer_node_dim_of_learning, PointsSeen
      <4>2. InferNext(PointsSeen)
        BY <4>1 DEF InferNext, InferDim
      <4>3. QED
        BY <1>1, <2>1, <4>2, InferKeepsSizes
    <3>3. QED
      BY <2>5, <3>1, <3>2 DEF Infer
  <2>6. CASE Use
    BY <1>1, <2>1, <2>6, ConfigureKeepsSizes, BuildKeepsSizes, CompileKeepsSizes
       DEF Use
  <2>7. QED
    BY <1>2, <2>2, <2>4, <2>5, <2>6 DEF Read
<1>3. CASE Solve
  BY <1>1, <1>3, SolveNodeKeepsSizes, EndSolveKeepsSizes DEF Solve
<1>4. CASE Arrive
  BY <1>1, <1>4, ArriveKeepsSizes
<1>5. ASSUME NEW targets \in Targets, NEW obstacles \in ObstacleCounts,
             NEW features \in Passed, BeginSolve(targets, obstacles, features)
      PROVE  SizesInv'
  BY <1>1, <1>5, BeginSolveKeepsSizes
<1>6. CASE UNCHANGED vars
  BY <1>1, <1>6, StutterKeepsSizes
<1>7. QED
  BY <1>2, <1>3, <1>4, <1>5, <1>6 DEF Next

\* The sizes that three readers infer, that the maps are compiled for, that
\* the residuals are checked against and that solve() finds are the same.
THEOREM SizesAreInductive == Spec => []SizesInv
<1>1. Init => SizesInv
  BY InitSizes
<1>2. SizesInv /\ [Next]_vars => SizesInv'
  BY StepKeepsSizes
<1>3. QED
  BY <1>1, <1>2, PTL DEF Spec

\* Whatever the graph, solve() never asks its cache for a parent that is not
\* there, and throws only on a graph that is irregular.
THEOREM RegularGraphsAreSolved == Spec => []RegularGraphsSolve
<1>1. SizesInv => RegularGraphsSolve
  BY DEF SizesInv
<1>2. QED
  BY <1>1, SizesAreInductive, PTL

\* The buffers of the controller are as large as the solver wants the residuals
\* of some node that uses them: the two inferences agree.
InputsFitSolver ==
    owner = "controller" /\ todo = <<>> =>
        \A key \in DOMAIN inputs :
            \E m \in External : /\ NodeOf(m).key = key
                                /\ inputs[key].dim = node_dims[m]

\* What configure_external_rmp_inputs() sizes from the controller's own sort
\* and inference has the size that the solver inferred.
THEOREM ControllerAgreesWithSolver == Spec => []InputsFitSolver
<1>1. SizesInv => InputsFitSolver
  <2> SUFFICES ASSUME SizesInv, owner = "controller", todo = <<>>,
                      NEW key \in DOMAIN inputs
               PROVE  \E m \in External : /\ NodeOf(m).key = key
                                          /\ inputs[key].dim = node_dims[m]
    BY DEF InputsFitSolver
  <2>1. PICK m \in External :
            /\ NodeOf(m).key = key
            /\ \A d : Solution(d, Points) => inputs[key].dim = d[m]
    BY DEF SizesInv, InputsSized
  <2>2. Solution(node_dims, Points)
    BY DEF SizesInv, SolverSizes
  <2>3. PICK d : d = node_dims
    OBVIOUS
  <2>4. Solution(d, Points)
    BY <2>2, <2>3
  <2>5. QED
    BY <2>1, <2>3, <2>4
<1>2. QED
  BY <1>1, SizesAreInductive, PTL

-----------------------------------------------------------------------------
(* The loops: what TLC checks as LoopsEnd, without fairness.                *)

\* The turns that are left to the readers, or to the solve() that runs.
TurnsLeft ==
    LET nodes == Cardinality(Names)
    IN  (IF Len(todo) = 2 THEN 2 * nodes + 5 ELSE 0) +
        (CASE pc = "declare" -> 2 * nodes + 5
           [] pc = "begin" -> 2 * nodes + 4
           [] pc = "sort" -> 2 * nodes + 3 - Len(order)
           [] pc = "infer" -> nodes + 3 - Cardinality(DOMAIN dims)
           [] pc = "use" -> 1
           [] pc = "solve" -> nodes + 2 - Cardinality(DOMAIN cache)
           [] OTHER -> 0)

\* Every loop has a turn left or is at its end.
TurnOrEnd ==
    /\ TurnsLeft \in Nat
    /\ pc = "sort" /\ ready # {} => \E n \in ready : \A m \in ready : n <= m
    /\ pc = "infer" => Cardinality(DOMAIN dims) - 1 \in 0..Len(order)
    /\ pc = "solve" => Cardinality(DOMAIN cache) - 1 \in 0..Len(order)

\* No turn is wasted.
TurnsRunOut == [][Read \/ Solve => TurnsLeft' < TurnsLeft]_vars

\* The order grows up to the number of names, dims and cache up to one more.
LEMMA CountsFit ==
    ASSUME SizesInv
    PROVE  /\ Cardinality(Names) \in Nat /\ Len(order) \in Nat
           /\ Len(order) <= Cardinality(Names)
           /\ Sorted => Len(order) = Cardinality(Names)
           /\ pc = "infer" => \E k \in 0..Len(order) :
                 DOMAIN dims = Upto(k) /\ Cardinality(DOMAIN dims) = k + 1
           /\ pc = "solve" => \E k \in 0..Len(order) :
                 DOMAIN cache = Upto(k) /\ Cardinality(DOMAIN cache) = k + 1
<1>1. /\ graph \in Graphs /\ Len(order) \in Nat
      /\ Cardinality(Placed) = Len(order)
  BY DEF SizesInv, IInv, OrderIsPlain
<1>2. IsFiniteSet(Names)
  BY <1>1, NamesAreFinite
<1>3. Placed \in SUBSET Names
  BY PlacedAreClosed DEF SizesInv, IInv
<1>4. /\ Cardinality(Names) \in Nat
      /\ Cardinality(Placed) <= Cardinality(Names)
  BY <1>2, <1>3, FS_CardinalityType, FS_Subset
<1>5. Sorted => Placed = Names
  BY DEF SizesInv, IInv, RefusesCyclesOnly, Placed
<1>6. pc = "infer" => \E k \in 0..Len(order) :
          DOMAIN dims = Upto(k) /\ Cardinality(DOMAIN dims) = k + 1
  BY PrefixCounted DEF SizesInv, SizesInferred
<1>7. pc = "solve" => \E k \in 0..Len(order) :
          DOMAIN cache = Upto(k) /\ Cardinality(DOMAIN cache) = k + 1
  BY PrefixCounted DEF SizesInv, CacheFollows
<1>8. QED
  BY <1>1, <1>4, <1>5, <1>6, <1>7

\* A number of turns is left, and there is a next one or an end.
LEMMA TurnsAreThere == SizesInv => TurnOrEnd
<1> SUFFICES ASSUME SizesInv PROVE TurnOrEnd
  OBVIOUS
<1>1. /\ Cardinality(Names) \in Nat /\ Len(order) \in Nat
      /\ Len(order) <= Cardinality(Names)
      /\ pc \in {"infer", "solve"} => Len(order) = Cardinality(Names)
  BY CountsFit DEF Sorted
<1>2. pc = "infer" => Cardinality(DOMAIN dims) - 1 \in 0..Len(order)
                      /\ Cardinality(DOMAIN dims) \in Nat
  BY <1>1, CountsFit
<1>3. pc = "solve" => Cardinality(DOMAIN cache) - 1 \in 0..Len(order)
                      /\ Cardinality(DOMAIN cache) \in Nat
  BY <1>1, CountsFit
<1>4. pc = "sort" /\ ready # {} => \E n \in ready : \A m \in ready : n <= m
  <2> SUFFICES ASSUME pc = "sort", ready # {}
               PROVE  \E n \in ready : \A m \in ready : n <= m
    OBVIOUS
  <2>1. graph \in Graphs /\ ready \subseteq Names
    BY DEF SizesInv, IInv, OrderIsPlain, LoopCounts
  <2>2. Names \subseteq Nat
    BY <2>1, NodesHaveParents
  <2>3. QED
    BY <2>1, <2>2, Least
<1>5. TurnsLeft \in Nat
  <2> DEFINE nodes == Cardinality(Names)
             rest  == IF Len(todo) = 2 THEN 2 * nodes + 5 ELSE 0
  <2>1. pc \in {"declare", "begin", "sort", "infer", "use", "refused", "idle", "solve"}
    BY DEF SizesInv, ReadsInTurn
  <2>2. nodes \in Nat /\ rest \in Nat
    BY <1>1
  <2>3. CASE pc = "declare"
    <3>1. TurnsLeft = rest + (2 * nodes + 5)
      BY <2>3 DEF TurnsLeft
    <3>2. QED
      BY <2>2, <3>1
  <2>4. CASE pc = "begin"
    <3>1. TurnsLeft = rest + (2 * nodes + 4)
      BY <2>4 DEF TurnsLeft
    <3>2. QED
      BY <2>2, <3>1
  <2>5. CASE pc = "sort"
    <3>1. TurnsLeft = rest + (2 * nodes + 3 - Len(order))
      BY <2>5 DEF TurnsLeft
    <3>2. QED
      BY <1>1, <2>2, <3>1
  <2>6. CASE pc = "infer"
    <3>1. TurnsLeft = rest + (nodes + 3 - Cardinality(DOMAIN dims))
      BY <2>6 DEF TurnsLeft
    <3>2. Cardinality(DOMAIN dims) \in 0..(nodes + 1)
      BY <1>1, <1>2, <2>6
    <3>3. QED
      BY <2>2, <3>1, <3>2
  <2>7. CASE pc = "solve"
    <3>1. TurnsLeft = rest + (nodes + 2 - Cardinality(DOMAIN cache))
      BY <2>7 DEF TurnsLeft
    <3>2. Cardinality(DOMAIN cache) \in 0..(nodes + 1)
      BY <1>1, <1>3, <2>7
    <3>3. QED
      BY <2>2, <3>1, <3>2
  <2>8. CASE pc \in {"use", "refused", "idle"}
    <3>1. TurnsLeft = rest + 1 \/ TurnsLeft = rest + 0
      BY <2>8 DEF TurnsLeft
    <3>2. QED
      BY <2>2, <3>1
  <2>9. QED
    BY <2>1, <2>3, <2>4, <2>5, <2>6, <2>7, <2>8
<1>6. QED
  BY <1>2, <1>3, <1>4, <1>5 DEF TurnOrEnd

\* Every step of a reader or of solve() takes a turn.
LEMMA TurnsAreTaken ==
    ASSUME SizesInv, Read \/ Solve
    PROVE  TurnsLeft' < TurnsLeft
<1> USE DEF sort_vars, read_vars, solve_vars
<1> DEFINE nodes == Cardinality(Names)
           rest  == IF Len(todo) = 2 THEN 2 * nodes + 5 ELSE 0
<1>1. /\ nodes \in Nat /\ Len(order) \in Nat /\ Len(order) <= nodes
      /\ pc \in {"infer", "use", "idle", "solve"} => Len(order) = nodes
  BY CountsFit DEF Sorted
<1>2. rest \in Nat
  BY <1>1
<1>3. graph' = graph
  BY DEF Read, Solve, declare_graph_parameters, Order,
     build_topological_order_of_controller, build_topological_order_of_solver,
     build_topological_order_of_learning, Sort, BeginOrder, PopReady, EndOrder,
     Infer, infer_node_dims_of_controller, infer_node_dim_of_solver,
     infer_node_dim_of_learning, InferNext, Use, configure_external_rmp_inputs,
     build_external_feature_specs, compile, SolveNode, EndSolve, Refuse, Fail, Done
<1>4. Cardinality(Names)' = nodes
  BY <1>3, GraphStays
<1>5. todo' = todo => (IF Len(todo) = 2 THEN 2 * Cardinality(Names) + 5 ELSE 0)' = rest
  BY <1>4
<1> HIDE DEF nodes, rest
<1>6. CASE declare_graph_parameters
  <2>1. pc = "declare" /\ pc' \in {"begin", "refused"} /\ todo' = todo
    BY <1>6 DEF declare_graph_parameters, Refuse
  <2>2. TurnsLeft = rest + (2 * nodes + 5)
    BY <2>1 DEF TurnsLeft, nodes, rest
  <2>3. TurnsLeft' = rest + (2 * nodes + 4) \/ TurnsLeft' = rest + 0
    BY <1>4, <1>5, <2>1 DEF TurnsLeft
  <2>4. QED
    BY <1>1, <1>2, <2>2, <2>3
<1>7. ASSUME NEW checks_names \in BOOLEAN, Sort(checks_names)
      PROVE  TurnsLeft' < TurnsLeft
  <2>1. CASE BeginOrder(checks_names)
    <3>1. /\ pc = "begin" /\ todo' = todo
          /\ pc' = "refused" \/ (pc' = "sort" /\ order' = <<>>)
      BY <2>1 DEF BeginOrder, Refuse
    <3>2. TurnsLeft = rest + (2 * nodes + 4)
      BY <3>1 DEF TurnsLeft, nodes, rest
    <3>3. TurnsLeft' = rest + (2 * nodes + 3 - 0) \/ TurnsLeft' = rest + 0
      BY <1>4, <1>5, <3>1 DEF TurnsLeft
    <3>4. QED
      BY <1>1, <1>2, <3>2, <3>3
  <2>2. CASE PopReady
    <3>1. /\ pc = "sort" /\ pc' = "sort" /\ todo' = todo
          /\ \E n : order' = Append(order, n)
      BY <2>2 DEF PopReady
    <3>2. order \in Seq(Names)
      BY DEF SizesInv, IInv, OrderIsPlain
    <3>3. Len(order') = Len(order) + 1
      BY <3>1, <3>2
    <3>4. TurnsLeft = rest + (2 * nodes + 3 - Len(order))
      BY <3>1 DEF TurnsLeft, nodes, rest
    <3>5. TurnsLeft' = rest + (2 * nodes + 3 - Len(order'))
      BY <1>4, <1>5, <3>1 DEF TurnsLeft
    <3>6. QED
      BY <1>1, <1>2, <3>3, <3>4, <3>5
  <2>3. CASE EndOrder
    <3>1. /\ pc = "sort" /\ todo' = todo
          /\ pc' = "refused" \/ (pc' = "infer" /\ dims' = RootAlone)
      BY <2>3 DEF EndOrder, Refuse
    <3>2. TurnsLeft = rest + (2 * nodes + 3 - Len(order))
      BY <3>1 DEF TurnsLeft, nodes, rest
    <3>3. Cardinality(DOMAIN RootAlone) = 1
      BY FS_Singleton DEF RootAlone
    <3>4. TurnsLeft' = rest + (nodes + 3 - 1) \/ TurnsLeft' = rest + 0
      BY <1>4, <1>5, <3>1, <3>3 DEF TurnsLeft
    <3>5. QED
      BY <1>1, <1>2, <3>2, <3>4
  <2>4. QED
    BY <1>7, <2>1, <2>2, <2>3 DEF Sort
<1>8. ASSUME NEW points, InferNext(points)
      PROVE  TurnsLeft' < TurnsLeft
  <2>1. pc = "infer" /\ todo' = todo
    BY <1>8 DEF InferNext, Refuse
  <2>2. PICK k \in 0..Len(order) :
            DOMAIN dims = Upto(k) /\ Cardinality(DOMAIN dims) = k + 1
    BY <2>1, CountsFit
  <2>3. Cardinality(DOMAIN dims) - 1 = k
    BY <1>1, <2>2
  <2>4. TurnsLeft = rest + (nodes + 3 - (k + 1))
    BY <2>1, <2>2 DEF TurnsLeft, nodes, rest
  <2>5. CASE pc' = "refused"
    <3>1. TurnsLeft' = rest + 0
      BY <1>4, <1>5, <2>1, <2>5 DEF TurnsLeft
    <3>2. QED
      BY <1>1, <1>2, <2>1, <2>4, <3>1
  <2>6. CASE pc' = "use"
    <3>1. TurnsLeft' = rest + 1
      BY <1>4, <1>5, <2>1, <2>6 DEF TurnsLeft
    <3>2. QED
      BY <1>1, <1>2, <2>1, <2>4, <3>1
  <2>7. CASE /\ k < Len(order) /\ pc' = "infer"
             /\ dims' = Extended(dims, order[k + 1],
                                 InferDim(order[k + 1], dims, points))
    <3>1. Upto(k + 1) = Upto(k) \cup {order[k + 1]}
      BY <1>1, <2>7, NextNode DEF SizesInv
    <3>2. DOMAIN dims' = Upto(k + 1)
      BY <2>2, <2>7, <3>1 DEF Extended
    <3>3. k + 1 \in 0..Len(order)
      BY <1>1, <2>7
    <3>4. Cardinality(DOMAIN dims') = k + 2
      BY <1>1, <3>2, <3>3, PrefixCounted DEF SizesInv
    <3>5. TurnsLeft' = rest + (nodes + 3 - (k + 2))
      BY <1>4, <1>5, <2>1, <2>7, <3>4 DEF TurnsLeft
    <3>6. QED
      BY <1>1, <1>2, <2>4, <3>5
  <2>8. QED
    BY <1>8, <2>3, <2>5, <2>6, <2>7 DEF InferNext, Refuse
<1>9. CASE Use /\ todo # <<>>
  <2>1. TurnsLeft = rest + 1
    <3>1. pc = "use"
      BY <1>9 DEF Use, configure_external_rmp_inputs, build_external_feature_specs,
         compile
    <3>2. QED
      BY <3>1 DEF TurnsLeft, nodes, rest
  <2>2. CASE pc' = "refused" /\ todo' = todo
    <3>1. TurnsLeft' = rest + 0
      BY <1>4, <1>5, <2>2 DEF TurnsLeft
    <3>2. QED
      BY <1>2, <2>1, <3>1
  <2>3. CASE Done
    <3>1. \/ Len(todo) = 2 /\ Len(todo') = 1 /\ pc' = "declare"
          \/ Len(todo) = 1 /\ Len(todo') = 0 /\ pc' = "idle"
      <4>1. \/ /\ todo \in {<<"controller", "solver">>, <<"solver", "learning">>}
               /\ todo' \in {<<"solver">>, <<"learning">>}
            \/ todo \in {<<"solver">>, <<"learning">>} /\ todo' = <<>>
        <5>1. Reader \in Readers /\ todo' = Tail(todo)
          BY <1>9, <2>3 DEF Done, Use, configure_external_rmp_inputs,
             build_external_feature_specs, compile, Readers
        <5>2. QED
          BY <1>9, <5>1, Turns DEF Readers
      <4>2. \A a, b : Len(<<a, b>>) = 2 /\ Len(<<a>>) = 1 /\ Len(<<>>) = 0 /\ <<a>> # <<>>
        OBVIOUS
      <4>3. QED
        BY <2>3, <4>1, <4>2 DEF Done
    <3>2. CASE Len(todo) = 2 /\ Len(todo') = 1 /\ pc' = "declare"
      <4>1. TurnsLeft' = 0 + (2 * nodes + 5)
        BY <1>4, <3>2 DEF TurnsLeft
      <4>2. rest = 2 * nodes + 5
        BY <3>2 DEF rest
      <4>3. QED
        BY <1>1, <2>1, <4>1, <4>2
    <3>3. CASE Len(todo) = 1 /\ Len(todo') = 0 /\ pc' = "idle"
      <4>1. TurnsLeft' = 0 + 0
        BY <3>3 DEF TurnsLeft
      <4>2. QED
        BY <1>2, <2>1, <4>1
    <3>4. QED
      BY <3>1, <3>2, <3>3
  <2>4. QED
    BY <1>9, <2>2, <2>3 DEF Use, configure_external_rmp_inputs,
       build_external_feature_specs, compile, Refuse
<1>10. CASE SolveNode
  <2>1. pc = "solve" /\ todo' = todo
    BY <1>10 DEF SolveNode, Fail
  <2>2. PICK k \in 0..Len(order) :
            DOMAIN cache = Upto(k) /\ Cardinality(DOMAIN cache) = k + 1
    BY <2>1, CountsFit
  <2>3. k < Len(order)
    <3>1. Cardinality(DOMAIN cache) - 1 < Len(order)
      BY <1>10 DEF SolveNode
    <3>2. QED
      BY <1>1, <2>2, <3>1
  <2>4. TurnsLeft = rest + (nodes + 2 - (k + 1))
    BY <2>1, <2>2 DEF TurnsLeft, nodes, rest
  <2>5. CASE pc' = "idle"
    <3>1. TurnsLeft' = rest + 0
      BY <1>4, <1>5, <2>1, <2>5 DEF TurnsLeft
    <3>2. QED
      BY <1>1, <1>2, <2>1, <2>3, <2>4, <3>1
  <2>6. CASE pc' = "solve" /\ DOMAIN cache' = DOMAIN cache \cup {order[k + 1]}
    <3>1. Upto(k + 1) = Upto(k) \cup {order[k + 1]}
      BY <1>1, <2>3, NextNode DEF SizesInv
    <3>2. k + 1 \in 0..Len(order)
      BY <1>1, <2>3
    <3>3. Cardinality(DOMAIN cache') = k + 2
      <4>1. DOMAIN cache' = Upto(k + 1)
        BY <2>2, <2>6, <3>1
      <4>2. Cardinality(Upto(k + 1)) = (k + 1) + 1
        BY <3>2, PrefixCounted DEF SizesInv
      <4>3. QED
        BY <4>1, <4>2
    <3>4. TurnsLeft' = rest + (nodes + 2 - (k + 2))
      BY <1>4, <1>5, <2>1, <2>6, <3>3 DEF TurnsLeft
    <3>5. QED
      BY <1>1, <1>2, <2>4, <3>4
  <2>7. QED
    BY <1>10, <2>1, <2>2, <2>5, <2>6 DEF SolveNode, Fail, Extended
<1>11. CASE EndSolve
  <2>1. pc = "solve" /\ pc' = "idle" /\ todo' = todo
    BY <1>11 DEF EndSolve
  <2>2. PICK k \in 0..Len(order) :
            DOMAIN cache = Upto(k) /\ Cardinality(DOMAIN cache) = k + 1
    BY <2>1, CountsFit
  <2>3. TurnsLeft = rest + (nodes + 2 - (k + 1))
    BY <2>1, <2>2 DEF TurnsLeft, nodes, rest
  <2>4. TurnsLeft' = rest + 0
    BY <1>4, <1>5, <2>1 DEF TurnsLeft
  <2>5. QED
    BY <1>1, <1>2, <2>1, <2>3, <2>4
<1>12. CASE Order
  BY <1>7, <1>12 DEF Order, build_topological_order_of_controller,
     build_topological_order_of_solver, build_topological_order_of_learning
<1>13. CASE Infer
  BY <1>8, <1>13 DEF Infer, infer_node_dims_of_controller,
     infer_node_dim_of_solver, infer_node_dim_of_learning
<1>14. QED
  BY <1>6, <1>9, <1>10, <1>11, <1>12, <1>13 DEF Read, Solve

\* Whatever the graph, its readers and every solve() take a bounded number of
\* turns, and where one of their loops has not ended there is a next turn.
THEOREM LoopsTakeBoundedTurns == Spec => []TurnOrEnd /\ TurnsRunOut
<1>1. SizesInv => TurnOrEnd
  BY TurnsAreThere
<1>2. SizesInv /\ [Next]_vars => [Read \/ Solve => TurnsLeft' < TurnsLeft]_vars
  BY TurnsAreTaken
<1>3. QED
  BY <1>1, <1>2, SizesAreInductive, PTL DEF Spec, TurnsRunOut

=============================================================================
