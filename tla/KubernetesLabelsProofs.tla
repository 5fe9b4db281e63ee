----------------------- MODULE KubernetesLabelsProofs -----------------------
(***************************************************************************)
(* Proofs about KubernetesLabels, for any set of instances and switches,   *)
(* any fabric, any reports and any number of executions.                   *)
(*                                                                         *)
(* The walk of the graph visits every vertex that is below a waiting one,  *)
(* so that at its end no label is missing (Complete), and every path that  *)
(* waits is one of the graph (PathOK), so that no label is wrong (Sound).  *)
(* What executions have left on a node is then, if they agree, a part of   *)
(* the chain of switches above the node in the fabric (NestInv).           *)
(***************************************************************************)
EXTENDS KubernetesLabels, ThreeTierGraphProofs, FiniteSetTheorems

\* A path of getTreeNodeLabels that is still to be visited.
Waiting(path) == \E n \in 1..Len(stack) : path \in stack[n]

\* A path leads up in the graph, and up in the fabric if the reports agree.
PathOK(path) ==
    /\ path \in Seq(Vertices)
    /\ Len(path) > 0
    /\ \A j \in 1..(Len(path) - 1) : path[j + 1] \in Parents /\ path[j] \in children[path[j + 1]]
    /\ faithful /\ path[1] \in Switches =>
           \A j \in 2..Len(path) : path[j] \in Switches /\ Tier[path[1]] < Tier[path[j]]

\* Labels name switches above the node, and the block of its domain.
Sound ==
    /\ \A i \in Requested : \A k \in 1..3 :
           nodeMap[i][k] = None \/ \E p \in Above(i, k) : nodeMap[i][k] = checkLabel(p)
    /\ \A i \in Requested : \A a \in AcceleratorOf(i) : nodeMap[i][0] = ToBlocks(a)

\* A set of visits, each of a vertex at a depth, that is closed under the calls
\* the visits make.
Closed(C) ==
    \A v \in Parents, n \in Nat : <<v, n>> \in C => \A w \in children[v] : <<w, n + 1>> \in C

Visits == SUBSET (Vertices \X Nat)

\* The walk from the root visits i at a depth of k or more.
Reached(i, k) ==
    \A C \in Visits :
        Closed(C) /\ (\A v \in forest : <<v, 0>> \in C) => \E n \in Nat : n >= k /\ <<i, n>> \in C

\* So do the paths that wait, if the label is not computed yet.
Complete ==
    \A C \in Visits :
        Closed(C) /\ (\A p : Waiting(p) => <<p[1], Len(p) - 1>> \in C) =>
            \A i \in Requested, k \in 1..3 :
                Reached(i, k) =>
                    nodeMap[i][k] # None \/ \E n \in Nat : n >= k /\ <<i, n>> \in C

\* No label is missing.
Full == \A i \in Requested, k \in 1..3 : nodeMap[i][k] = None => Above(i, k) = {}

LabelsTypeOK ==
    /\ stage \in {"graph", "walk", "apply", "done", "failed", "crashed"}
    /\ stack \in Seq(SUBSET Seq(Vertices))
    /\ nodeMap \in [Requested -> [Keys -> Values \cup Numbers \cup {None}]]
    /\ waiting \subseteq Requested
    /\ labels \in [Requested -> [Keys -> Values \cup Numbers \cup {None}]]
    /\ agreed \in BOOLEAN

WalkInv ==
    /\ stage \in {"walk", "apply", "done"} => phase = "built" /\ Sound
    /\ stage = "walk" => (\A path : Waiting(path) => PathOK(path)) /\ Complete
    /\ stage \in {"apply", "done"} => Full
    /\ stage = "crashed" => ~faithful

\* What is computed has been written to the nodes that do not wait.
WrittenInv ==
    stage \in {"apply", "done"} =>
        /\ stage = "done" => waiting = {}
        /\ \A i \in Requested \ waiting : \A k \in Keys :
               nodeMap[i][k] # None => labels[i][k] = nodeMap[i][k]

\* The switch above in the fabric, and its label.
Over(v) == IF v \in Instances \cup Switches THEN Up[v] ELSE None
LabelOf(v) == IF v = None THEN None ELSE checkLabel(v)

\* A block label comes with the spine label, and a spine label with the
\* datacenter label, that the fabric gives them.
Nested(l, i) ==
    LET block == Over(i)
        spine == Over(block)
        top   == Over(spine)
    IN  /\ \/ l[1] \in {None, NoTopology}
           \/ block # None /\ l[1] = checkLabel(block) /\ l[2] = LabelOf(spine)
        /\ \/ l[2] = None
           \/ spine # None /\ l[2] = checkLabel(spine) /\ l[3] = LabelOf(top)
        /\ l[3] \in {None, LabelOf(top)}

NestInv ==
    /\ phase = "built" /\ agreed => faithful
    /\ agreed => \A i \in Requested : Nested(labels[i], i)

LInv == GInv /\ GrowInv /\ LabelsTypeOK /\ WalkInv /\ WrittenInv /\ NestInv

----------------------------------------------------------------------------
(* The graph.                                                               *)

\* What the graph determines does not change while the graph does not.
LEMMA SameGraph ==
    ASSUME UNCHANGED graphVars
    PROVE  /\ GInv => GInv'
           /\ GrowInv => GrowInv'
           /\ \A i, k : Above(i, k)' = Above(i, k)
           /\ \A i : AcceleratorOf(i)' = AcceleratorOf(i)
           /\ \A a : ToBlocks(a)' = ToBlocks(a)
           /\ \A i, k : Reached(i, k)' <=> Reached(i, k)
           /\ \A C : Closed(C)' <=> Closed(C)
           /\ \A path : PathOK(path)' <=> PathOK(path)
<1>1. UNCHANGED <<i2n, children, forest, domains, phase, faithful>>
  BY DEF graphVars
<1>2. GInv => GInv'
  BY <1>1 DEF GInv, GraphTypeOK, Progress, NoNodeTwice, NoTopologyApart, FollowsUp, ReachesRoot,
              Below
<1>3. GrowInv => GrowInv'
  BY <1>1 DEF GrowInv, ReachesRoot
<1>4. /\ \A i, k : Above(i, k)' = Above(i, k)
      /\ \A i : AcceleratorOf(i)' = AcceleratorOf(i)
      /\ \A a : ToBlocks(a)' = ToBlocks(a)
  BY <1>1 DEF Above, ParentsOf, AcceleratorOf, ToBlocks
<1>5. \A C : Closed(C)' <=> Closed(C)
  BY <1>1 DEF Closed
<1>6. \A i, k : Reached(i, k)' <=> Reached(i, k)
  BY <1>1, <1>5 DEF Reached
<1>7. \A path : PathOK(path)' <=> PathOK(path)
  BY <1>1 DEF PathOK
<1> QED  BY <1>2, <1>3, <1>4, <1>5, <1>6, <1>7

----------------------------------------------------------------------------
(* The walk.                                                                *)

\* Putting an element in front of a sequence.
LEMMA InFront ==
    ASSUME NEW S, NEW x \in S, NEW seq \in Seq(S), NEW long, long = <<x>> \o seq
    PROVE  /\ long \in Seq(S) /\ Len(long) = Len(seq) + 1
           /\ long[1] = x
           /\ \A n \in 1..Len(seq) : long[n + 1] = seq[n]
<1>1. <<x>> \in Seq(S) /\ Len(<<x>>) = 1 /\ <<x>>[1] = x /\ Len(seq) \in Nat
  OBVIOUS
<1>2. long \in Seq(S) /\ Len(long) = Len(seq) + 1
  BY <1>1
<1>3. long[1] = x
  BY <1>1
<1>4. ASSUME NEW n \in 1..Len(seq) PROVE long[n + 1] = seq[n]
  BY <1>1
<1> QED  BY <1>2, <1>3, <1>4

\* The stack without one of the paths of the call at hand.
LEMMA StackLeft ==
    ASSUME NEW S, NEW st \in Seq(SUBSET S), st # <<>>, NEW path \in Head(st),
           NEW left, left = <<Head(st) \ {path}>> \o Tail(st)
    PROVE  /\ left \in Seq(SUBSET S) /\ Len(left) = Len(st) /\ Len(st) \in Nat \ {0}
           /\ left[1] = st[1] \ {path} /\ path \in st[1]
           /\ \A n \in 2..Len(st) : left[n] = st[n]
           /\ \A n \in 1..Len(st) : left[n] \subseteq st[n]
<1>1. Len(st) \in Nat \ {0} /\ Head(st) = st[1] /\ st[1] \in SUBSET S
  OBVIOUS
<1>2. /\ Tail(st) \in Seq(SUBSET S) /\ Len(Tail(st)) = Len(st) - 1
      /\ \A n \in 1..(Len(st) - 1) : Tail(st)[n] = st[n + 1]
  BY <1>1
<1> DEFINE one == <<Head(st) \ {path}>>
<1>3. one \in Seq(SUBSET S) /\ Len(one) = 1 /\ one[1] = st[1] \ {path}
  BY <1>1
<1> HIDE DEF one
<1>4. left = one \o Tail(st)
  BY DEF one
<1>5. left \in Seq(SUBSET S) /\ Len(left) = Len(st)
  BY <1>1, <1>2, <1>3, <1>4
<1>6. left[1] = st[1] \ {path}
  BY <1>1, <1>2, <1>3, <1>4
<1>7. ASSUME NEW n \in 2..Len(st) PROVE left[n] = st[n]
  <2>1. n - 1 \in 1..(Len(st) - 1) /\ left[n] = Tail(st)[n - 1]
    BY <1>1, <1>2, <1>3, <1>4
  <2> QED  BY <1>2, <2>1
<1>8. \A n \in 1..Len(st) : n = 1 \/ n \in 2..Len(st)
  BY <1>1
<1> QED  BY <1>1, <1>5, <1>6, <1>7, <1>8

\* The path that is visited does not wait any more, the others do.
LEMMA VisitPops ==
    ASSUME LabelsTypeOK, stack # <<>>, NEW path \in Head(stack),
           stack' = <<Head(stack) \ {path}>> \o Tail(stack)
    PROVE  /\ stack' \in Seq(SUBSET Seq(Vertices))
           /\ Waiting(path)
           /\ \A q : Waiting(q)' => Waiting(q)
           /\ \A q : Waiting(q) /\ q # path => Waiting(q)'
<1>1. stack \in Seq(SUBSET Seq(Vertices))
  BY DEF LabelsTypeOK
<1>2. /\ stack' \in Seq(SUBSET Seq(Vertices)) /\ Len(stack') = Len(stack)
      /\ Len(stack) \in Nat \ {0}
      /\ stack'[1] = stack[1] \ {path} /\ path \in stack[1]
      /\ \A n \in 2..Len(stack) : stack'[n] = stack[n]
  BY <1>1, StackLeft
<1> QED  BY <1>2 DEF Waiting

\* The paths of a further call in front of the stack.
LEMMA StackPush ==
    ASSUME NEW S, NEW left \in Seq(SUBSET S), NEW new \in SUBSET S,
           NEW all, all = <<new>> \o left
    PROVE  /\ all \in Seq(SUBSET S)
           /\ \A q : (\E n \in 1..Len(all) : q \in all[n]) <=>
                         q \in new \/ \E n \in 1..Len(left) : q \in left[n]
<1>1. /\ all \in Seq(SUBSET S) /\ Len(all) = Len(left) + 1 /\ Len(left) \in Nat
      /\ all[1] = new
      /\ \A n \in 1..Len(left) : all[n + 1] = left[n]
  <2> DEFINE T == SUBSET S
  <2>1. new \in T /\ left \in Seq(T)
    OBVIOUS
  <2> HIDE DEF T
  <2>2. /\ all \in Seq(T) /\ Len(all) = Len(left) + 1 /\ all[1] = new
        /\ \A n \in 1..Len(left) : all[n + 1] = left[n]
    BY <2>1, InFront
  <2> QED  BY <2>2 DEF T
<1>2. ASSUME NEW q, NEW n \in 1..Len(all), q \in all[n]
      PROVE  q \in new \/ \E m \in 1..Len(left) : q \in left[m]
  <2>1. CASE n = 1
    BY <1>1, <1>2, <2>1
  <2>2. CASE n # 1
    <3>1. n - 1 \in 1..Len(left) /\ q \in left[n - 1]
      BY <1>1, <1>2, <2>2
    <3> QED  BY <3>1
  <2> QED  BY <2>1, <2>2
<1>3. ASSUME NEW q, NEW n \in 1..Len(left), q \in left[n]
      PROVE  \E m \in 1..Len(all) : q \in all[m]
  <2>1. n + 1 \in 1..Len(all) /\ q \in all[n + 1]
    BY <1>1, <1>3
  <2> QED  BY <2>1
<1>4. ASSUME NEW q \in new PROVE \E m \in 1..Len(all) : q \in all[m]
  <2>1. 1 \in 1..Len(all)
    BY <1>1
  <2> QED  BY <1>1, <2>1
<1> QED  BY <1>1, <1>2, <1>3, <1>4

\* A vertex of the graph is replaced by the paths to those below it.
LEMMA VisitPushes ==
    ASSUME LabelsTypeOK, stack # <<>>, NEW path \in Head(stack), NEW new \in SUBSET Seq(Vertices),
           stack' = <<new>> \o (<<Head(stack) \ {path}>> \o Tail(stack))
    PROVE  /\ stack' \in Seq(SUBSET Seq(Vertices))
           /\ Waiting(path)
           /\ \A q : Waiting(q)' => Waiting(q) \/ q \in new
           /\ \A q : (Waiting(q) /\ q # path) \/ q \in new => Waiting(q)'
<1>1. stack \in Seq(SUBSET Seq(Vertices))
  BY DEF LabelsTypeOK
<1> DEFINE left == <<Head(stack) \ {path}>> \o Tail(stack)
<1>2. /\ left \in Seq(SUBSET Seq(Vertices)) /\ Len(left) = Len(stack)
      /\ Len(stack) \in Nat \ {0}
      /\ left[1] = stack[1] \ {path} /\ path \in stack[1]
      /\ \A n \in 2..Len(stack) : left[n] = stack[n]
      /\ \A n \in 1..Len(stack) : left[n] \subseteq stack[n]
  BY <1>1, StackLeft
<1>3. stack' = <<new>> \o left
  OBVIOUS
<1> HIDE DEF left
<1>4. /\ stack' \in Seq(SUBSET Seq(Vertices))
      /\ \A q : (\E n \in 1..Len(stack') : q \in stack'[n]) <=>
                    q \in new \/ \E n \in 1..Len(left) : q \in left[n]
  <2> DEFINE S == Seq(Vertices)
  <2>1. left \in Seq(SUBSET S) /\ new \in SUBSET S
    BY <1>2
  <2> HIDE DEF S
  <2>2. /\ stack' \in Seq(SUBSET S)
        /\ \A q : (\E n \in 1..Len(stack') : q \in stack'[n]) <=>
                      q \in new \/ \E n \in 1..Len(left) : q \in left[n]
    BY ONLY <1>3, <2>1, StackPush
  <2> QED  BY <2>2 DEF S
<1>5. \A q : (\E n \in 1..Len(left) : q \in left[n]) => Waiting(q)
  BY <1>2 DEF Waiting
<1>6. \A q : Waiting(q) /\ q # path => \E n \in 1..Len(left) : q \in left[n]
  BY <1>2 DEF Waiting
<1>7. \A q : Waiting(q)' <=> \E n \in 1..Len(stack') : q \in stack'[n]
  BY DEF Waiting
<1>8. Waiting(path)
  BY <1>2 DEF Waiting
<1> QED  BY <1>4, <1>5, <1>6, <1>7, <1>8

\* One step further down a path of the graph is a path of the graph.
LEMMA PathGrows ==
    ASSUME GInv, NEW path, PathOK(path), path[1] \in Parents, NEW w \in children[path[1]]
    PROVE  /\ <<w>> \o path \in Seq(Vertices)
           /\ (<<w>> \o path)[1] = w /\ Len(<<w>> \o path) = Len(path) + 1
           /\ PathOK(<<w>> \o path)
<1> USE GraphAssumption
<1>1. path \in Seq(Vertices) /\ Len(path) \in Nat \ {0} /\ w \in Vertices
  BY DEF PathOK, GInv, GraphTypeOK
<1> DEFINE long == <<w>> \o path
<1>3. /\ long \in Seq(Vertices) /\ Len(long) = Len(path) + 1 /\ long[1] = w
      /\ \A j \in 1..Len(path) : long[j + 1] = path[j]
  BY <1>1, InFront
<1> HIDE DEF long
<1>4. ASSUME NEW j \in 1..(Len(long) - 1)
      PROVE  long[j + 1] \in Parents /\ long[j] \in children[long[j + 1]]
  <2>1. CASE j = 1
    BY <1>1, <1>3, <2>1
  <2>2. CASE j # 1
    <3>1. j - 1 \in 1..(Len(path) - 1) /\ j \in 1..Len(path) /\ j - 1 \in 1..Len(path)
      BY <1>1, <1>3, <1>4, <2>2
    <3>2. long[j + 1] = path[j] /\ long[j] = path[j - 1] /\ path[j] = path[(j - 1) + 1]
      BY <1>3, <3>1
    <3> QED  BY <3>1, <3>2 DEF PathOK
  <2> QED  BY <2>1, <2>2
<1>5. ASSUME faithful, w \in Switches, NEW j \in 2..Len(long)
      PROVE  long[j] \in Switches /\ Tier[w] < Tier[long[j]]
  <2>1. path[1] \in Switches
    BY <1>5 DEF GInv, NoTopologyApart, Parents
  <2>2. Tier[w] < Tier[path[1]]
    <3>1. Up[w] = path[1] /\ path[1] # None
      BY <1>5, <2>1 DEF GInv, FollowsUp, Vertices, Parents
    <3> QED  BY <1>5, <3>1, FabricAssumption
  <2>3. j - 1 \in 1..Len(path) /\ long[j] = path[j - 1]
    BY <1>1, <1>3, <1>5
  <2>4. CASE j = 2
    BY <2>1, <2>2, <2>3, <2>4
  <2>5. CASE j # 2
    <3>1. j - 1 \in 2..Len(path)
      BY <1>1, <1>3, <1>5, <2>5
    <3>2. path[j - 1] \in Switches /\ Tier[path[1]] < Tier[path[j - 1]]
      BY <1>5, <2>1, <3>1 DEF PathOK
    <3>3. Tier[w] \in Nat /\ Tier[path[1]] \in Nat /\ Tier[path[j - 1]] \in Nat
      BY <1>5, <2>1, <3>2, FabricAssumption
    <3> QED  BY <2>2, <2>3, <3>2, <3>3
  <2> QED  BY <2>4, <2>5
<1>6. Len(long) > 0
  BY <1>1, <1>3
<1>7. PathOK(long)
  BY <1>3, <1>4, <1>5, <1>6 DEF PathOK
<1> QED  BY <1>3, <1>7 DEF long

\* Labels are values, and IDs with the same label are the same.
LEMMA LabelValues ==
    /\ \A v \in IDs : checkLabel(v) \in Values /\ checkLabel(v) # None
    /\ \A v, w \in IDs : checkLabel(v) = checkLabel(w) => v = w
    /\ \A p \in Parents : p \in IDs
    /\ \A v \in Switches : checkLabel(v) # NoTopology
<1> USE GraphAssumption, LabelsAssumption
<1>1. \A v \in IDs : checkLabel(v) \in Values /\ checkLabel(v) # None
  BY DEF checkLabel, Values
<1>2. LongIDs \subseteq IDs
  BY DEF IDs
<1>3. \A v, w \in IDs : checkLabel(v) = checkLabel(w) => v = w
  BY <1>2 DEF checkLabel
<1>4. \A v \in Switches : checkLabel(v) # NoTopology
  BY DEF checkLabel, IDs
<1> QED  BY <1>1, <1>3, <1>4 DEF IDs, Parents

\* Domains that have nodes have different numbers, from 1 on.
LEMMA BlockNumbers ==
    ASSUME NEW a \in Accelerators, domains[a] # {}
    PROVE  /\ ToBlocks(a) \in Numbers
           /\ \A b \in Accelerators : domains[b] # {} /\ ToBlocks(a) = ToBlocks(b) => a = b
<1> DEFINE Upto(d) == {c \in Accelerators : domains[c] # {} /\ Alphabet[c] <= Alphabet[d]}
<1>1. /\ IsFiniteSet(Accelerators) /\ \A c \in Accelerators : Alphabet[c] \in Nat
      /\ \A c, d \in Accelerators : Alphabet[c] = Alphabet[d] => c = d
  BY LabelsAssumption
<1>2. \A d \in Accelerators : Upto(d) \subseteq Accelerators /\ ToBlocks(d) = Cardinality(Upto(d))
  BY DEF ToBlocks
<1>3. \A d \in Accelerators : domains[d] # {} => d \in Upto(d)
  BY <1>1
<1>4. ASSUME NEW c \in Accelerators, NEW d \in Accelerators, domains[d] # {},
             Alphabet[c] < Alphabet[d]
      PROVE  Upto(c) \subseteq Upto(d) /\ Upto(c) # Upto(d)
  <2>1. Upto(c) \subseteq Upto(d)
    BY <1>1, <1>4
  <2>2. d \in Upto(d) /\ d \notin Upto(c)
    BY <1>1, <1>4
  <2> QED  BY <2>1, <2>2
<1> HIDE DEF Upto
<1>5. \A d \in Accelerators : /\ IsFiniteSet(Upto(d)) /\ Cardinality(Upto(d)) \in Nat
                              /\ Cardinality(Upto(d)) <= Cardinality(Accelerators)
  BY <1>1, <1>2, FS_Subset, FS_CardinalityType
<1>6. ToBlocks(a) \in Numbers
  <2>1. Cardinality(Upto(a)) # 0
    BY <1>3, <1>5, FS_EmptySet
  <2>2. Cardinality(Accelerators) \in Nat
    BY <1>1, FS_CardinalityType
  <2> QED  BY <1>2, <1>5, <2>1, <2>2 DEF Numbers
<1>7. ASSUME NEW c \in Accelerators, NEW d \in Accelerators, domains[d] # {},
             Alphabet[c] < Alphabet[d]
      PROVE  ToBlocks(c) # ToBlocks(d)
  <2>1. Cardinality(Upto(c)) < Cardinality(Upto(d))
    BY <1>4, <1>5, <1>7, FS_Subset
  <2> QED  BY <1>2, <1>5, <2>1
<1>8. ASSUME NEW b \in Accelerators, domains[b] # {}, ToBlocks(a) = ToBlocks(b) PROVE a = b
  BY <1>1, <1>7, <1>8
<1> QED  BY <1>6, <1>8

\* The vertices of a path are those above its first.
LEMMA PathAbove ==
    ASSUME NEW path, PathOK(path), NEW k \in 1..3, k < Len(path)
    PROVE  path[k + 1] \in Above(path[1], k) /\ path[k + 1] \in Parents
<1>1. \A j \in 1..(Len(path) - 1) : path[j + 1] \in Parents /\ path[j] \in children[path[j + 1]]
  BY DEF PathOK
<1>2. Len(path) \in Nat
  BY DEF PathOK
<1>3. path[2] \in Parents /\ path[1] \in children[path[2]]
  BY <1>1, <1>2
<1>4. path[2] \in ParentsOf({path[1]})
  BY <1>3 DEF ParentsOf
<1>5. CASE k = 1
  BY <1>3, <1>4, <1>5 DEF Above
<1>6. CASE k = 2
  <2>1. path[3] \in Parents /\ path[2] \in children[path[3]]
    BY <1>1, <1>2, <1>6
  <2>2. path[3] \in ParentsOf(ParentsOf({path[1]}))
    BY <1>4, <2>1 DEF ParentsOf
  <2> QED  BY <1>6, <2>1, <2>2 DEF Above
<1>7. CASE k = 3
  <2>1. path[3] \in Parents /\ path[2] \in children[path[3]]
    BY <1>1, <1>2, <1>7
  <2>2. path[3] \in ParentsOf(ParentsOf({path[1]}))
    BY <1>4, <2>1 DEF ParentsOf
  <2>3. path[4] \in Parents /\ path[3] \in children[path[4]]
    BY <1>1, <1>2, <1>7
  <2>4. path[4] \in ParentsOf(ParentsOf(ParentsOf({path[1]})))
    BY <2>2, <2>3 DEF ParentsOf
  <2> QED  BY <1>7, <2>3, <2>4 DEF Above
<1> QED  BY <1>5, <1>6, <1>7

\* The walk comes to a node: its labels are those of the path.
LEMMA VisitNode ==
    ASSUME LInv, stage = "walk", stack # <<>>, NEW path \in Head(stack),
           path[1] \in Requested,
           nodeMap' = [nodeMap EXCEPT ![path[1]] = pathLabels(@, path)],
           stack' = <<Head(stack) \ {path}>> \o Tail(stack),
           UNCHANGED <<graphVars, stage>>
    PROVE  WalkInv' /\ nodeMap' \in [Requested -> [Keys -> Values \cup Numbers \cup {None}]]
           /\ stack' \in Seq(SUBSET Seq(Vertices))
<1> USE GraphAssumption
<1> DEFINE v == path[1]
<1>1. /\ LabelsTypeOK /\ phase = "built" /\ Sound /\ Complete
      /\ \A q : Waiting(q) => PathOK(q)
      /\ nodeMap \in [Requested -> [Keys -> Values \cup Numbers \cup {None}]]
  BY DEF LInv, WalkInv, LabelsTypeOK
<1>2. /\ stack' \in Seq(SUBSET Seq(Vertices)) /\ Waiting(path) /\ PathOK(path)
      /\ \A q : Waiting(q)' => Waiting(q)
      /\ \A q : Waiting(q) /\ q # path => Waiting(q)'
  BY <1>1, VisitPops
<1>3. Len(path) \in Nat \ {0} /\ v \in Vertices
  BY <1>2 DEF PathOK
<1>4. \A k \in 1..3 : k < Len(path) =>
          /\ path[k + 1] \in Above(v, k)
          /\ checkLabel(path[k + 1]) \in Values /\ checkLabel(path[k + 1]) # None
  BY <1>2, PathAbove, LabelValues
<1>5. /\ \A i \in Requested : i # v => nodeMap'[i] = nodeMap[i]
      /\ nodeMap'[v] = pathLabels(nodeMap[v], path)
      /\ DOMAIN nodeMap' = Requested
  BY <1>1
<1>6. /\ \A k \in 1..3 : k < Len(path) => nodeMap'[v][k] = checkLabel(path[k + 1])
      /\ \A k \in Keys : ~(k > 0 /\ k < Len(path)) => nodeMap'[v][k] = nodeMap[v][k]
      /\ DOMAIN nodeMap'[v] = Keys
  BY <1>5 DEF pathLabels, Keys
<1>7. nodeMap' \in [Requested -> [Keys -> Values \cup Numbers \cup {None}]]
  <2>1. \A k \in Keys : nodeMap'[v][k] \in Values \cup Numbers \cup {None}
    BY <1>1, <1>4, <1>6 DEF Keys
  <2>2. nodeMap'[v] \in [Keys -> Values \cup Numbers \cup {None}]
    BY <1>5, <2>1 DEF pathLabels
  <2> QED  BY <1>1, <2>2
<1>8. Sound'
  <2>1. ASSUME NEW i \in Requested, NEW k \in 1..3
        PROVE  nodeMap'[i][k] = None \/ \E p \in Above(i, k) : nodeMap'[i][k] = checkLabel(p)
    <3>1. CASE i = v /\ k < Len(path)
      BY <1>4, <1>6, <3>1
    <3>2. CASE ~(i = v /\ k < Len(path))
      <4>1. nodeMap'[i][k] = nodeMap[i][k]
        BY <1>5, <1>6, <3>2 DEF Keys
      <4> QED  BY <1>1, <4>1 DEF Sound
    <3> QED  BY <3>1, <3>2
  <2>2. ASSUME NEW i \in Requested, NEW a \in AcceleratorOf(i)
        PROVE  nodeMap'[i][0] = ToBlocks(a)
    <3>1. nodeMap'[i][0] = nodeMap[i][0]
      BY <1>5, <1>6 DEF Keys
    <3> QED  BY <1>1, <3>1 DEF Sound
  <2> QED  BY <2>1, <2>2, SameGraph DEF Sound
<1>9. Complete'
  <2> SUFFICES ASSUME NEW C \in Visits, Closed(C), \A p : Waiting(p)' => <<p[1], Len(p) - 1>> \in C,
                      NEW i \in Requested, NEW k \in 1..3, Reached(i, k)
               PROVE  nodeMap'[i][k] # None \/ \E n \in Nat : n >= k /\ <<i, n>> \in C
    BY SameGraph DEF Complete, Visits
  <2> DEFINE D == C \cup {<<v, Len(path) - 1>>}
  <2>1. D \in Visits
    BY <1>3 DEF Visits
  <2>2. v \notin Parents
    BY DEF Parents
  <2>3. Closed(D)
    BY <2>2 DEF Closed
  <2>4. \A p : Waiting(p) => <<p[1], Len(p) - 1>> \in D
    BY <1>2
  <2>5. nodeMap[i][k] # None \/ \E n \in Nat : n >= k /\ <<i, n>> \in D
    BY <1>1, <2>1, <2>3, <2>4 DEF Complete
  <2>6. CASE i = v /\ k < Len(path)
    BY <1>4, <1>6, <2>6
  <2>7. CASE ~(i = v /\ k < Len(path))
    <3>1. nodeMap'[i][k] = nodeMap[i][k]
      BY <1>5, <1>6, <2>7 DEF Keys
    <3>2. ASSUME NEW n \in Nat, n >= k, <<i, n>> \in D PROVE <<i, n>> \in C
      BY <1>3, <2>7, <3>2
    <3> QED  BY <2>5, <3>1, <3>2
  <2> QED  BY <2>6, <2>7
<1>10. \A q : Waiting(q)' => PathOK(q)'
  BY <1>1, <1>2, SameGraph
<1>11. phase' = "built" /\ stage' = "walk"
  BY <1>1 DEF graphVars
<1> QED  BY <1>2, <1>7, <1>8, <1>9, <1>10, <1>11 DEF WalkInv

\* The walk comes to a switch: the vertices below it wait.
LEMMA VisitSwitch ==
    ASSUME LInv, stage = "walk", stack # <<>>, NEW path \in Head(stack),
           path[1] \in Parents,
           stack' = <<{<<w>> \o path : w \in children[path[1]]}>>
                        \o (<<Head(stack) \ {path}>> \o Tail(stack)),
           UNCHANGED <<graphVars, stage, nodeMap>>
    PROVE  WalkInv' /\ stack' \in Seq(SUBSET Seq(Vertices))
<1> USE GraphAssumption
<1> DEFINE v == path[1]
           new == {<<w>> \o path : w \in children[v]}
<1>1. /\ LabelsTypeOK /\ phase = "built" /\ Sound /\ Complete /\ GInv
      /\ \A q : Waiting(q) => PathOK(q)
  BY DEF LInv, WalkInv
<1>2. Waiting(path) /\ PathOK(path)
  <2>1. stack \in Seq(SUBSET Seq(Vertices))
    BY <1>1 DEF LabelsTypeOK
  <2>2. 1 \in 1..Len(stack) /\ Head(stack) = stack[1]
    BY <2>1
  <2>3. Waiting(path)
    BY <2>2 DEF Waiting
  <2> QED  BY <1>1, <2>3
<1>3. \A w \in children[v] : /\ <<w>> \o path \in Seq(Vertices)
                             /\ (<<w>> \o path)[1] = w /\ Len(<<w>> \o path) = Len(path) + 1
                             /\ PathOK(<<w>> \o path)
  BY <1>1, <1>2, PathGrows
<1>4. new \in SUBSET Seq(Vertices) /\ \A q \in new : PathOK(q)
  BY <1>3
<1>5. \A w \in children[v] : \E q \in new : q[1] = w /\ Len(q) = Len(path) + 1
  BY <1>3
<1>6. stack' = <<new>> \o (<<Head(stack) \ {path}>> \o Tail(stack))
  OBVIOUS
<1> HIDE DEF new
<1>7. /\ stack' \in Seq(SUBSET Seq(Vertices))
      /\ \A q : Waiting(q)' => Waiting(q) \/ q \in new
      /\ \A q : (Waiting(q) /\ q # path) \/ q \in new => Waiting(q)'
  BY <1>1, <1>4, <1>6, VisitPushes
<1>8. \A q : Waiting(q)' => PathOK(q)'
  BY <1>1, <1>4, <1>7, SameGraph
<1>9. Sound'
  BY <1>1, SameGraph DEF Sound
<1>10. Complete'
  <2> SUFFICES ASSUME NEW C \in Visits, Closed(C), \A p : Waiting(p)' => <<p[1], Len(p) - 1>> \in C,
                      NEW i \in Requested, NEW k \in 1..3, Reached(i, k)
               PROVE  nodeMap[i][k] # None \/ \E n \in Nat : n >= k /\ <<i, n>> \in C
    BY SameGraph DEF Complete, Visits
  <2>1. Len(path) \in Nat \ {0} /\ v \in Vertices
    BY <1>2 DEF PathOK
  <2> DEFINE D == C \cup {<<v, Len(path) - 1>>}
  <2>2. D \in Visits
    BY <2>1 DEF Visits
  <2>3. \A w \in children[v] : <<w, Len(path)>> \in C
    <3>1. ASSUME NEW w \in children[v] PROVE <<w, Len(path)>> \in C
      <4>1. PICK q \in new : q[1] = w /\ Len(q) = Len(path) + 1
        BY <1>5
      <4>2. <<q[1], Len(q) - 1>> \in C
        BY <1>7
      <4>3. Len(q) - 1 = Len(path)
        BY <2>1, <4>1
      <4> QED  BY <4>1, <4>2, <4>3
    <3> QED  BY <3>1
  <2>4. Closed(D)
    <3>1. ASSUME NEW u \in Parents, NEW n \in Nat, <<u, n>> \in D, NEW w \in children[u]
          PROVE  <<w, n + 1>> \in D
      <4>1. CASE <<u, n>> \in C
        BY <3>1, <4>1 DEF Closed
      <4>2. CASE u = v /\ n = Len(path) - 1
        <5>1. n + 1 = Len(path)
          BY <2>1, <4>2
        <5> QED  BY <2>3, <3>1, <4>2, <5>1
      <4> QED  BY <3>1, <4>1, <4>2
    <3> QED  BY <3>1 DEF Closed
  <2>5. \A p : Waiting(p) => <<p[1], Len(p) - 1>> \in D
    BY <1>7
  <2>6. nodeMap[i][k] # None \/ \E n \in Nat : n >= k /\ <<i, n>> \in D
    BY <1>1, <2>2, <2>4, <2>5 DEF Complete
  <2>7. i # v
    BY DEF Parents
  <2> QED  BY <2>6, <2>7
<1>11. phase' = "built" /\ stage' = "walk"
  BY <1>1 DEF graphVars
<1> QED  BY <1>7, <1>8, <1>9, <1>10, <1>11 DEF WalkInv

\* A path of the call at hand waits.
LEMMA HeadWaits ==
    ASSUME LabelsTypeOK, stack # <<>>, NEW path \in Head(stack)
    PROVE  Waiting(path)
<1>1. stack \in Seq(SUBSET Seq(Vertices))
  BY DEF LabelsTypeOK
<1>2. 1 \in 1..Len(stack) /\ Head(stack) = stack[1]
  BY <1>1
<1> QED  BY <1>2 DEF Waiting

\* A switch is above itself only if the reports do not agree.
LEMMA VisitAgain ==
    ASSUME GInv, NEW path, PathOK(path), path[1] \in Parents,
           NEW j \in 2..Len(path), path[j] = path[1]
    PROVE  ~faithful
<1> USE GraphAssumption
<1>1. Len(path) \in Nat /\ 1 \in 1..(Len(path) - 1)
  BY DEF PathOK
<1>2. path[2] \in Parents /\ path[1] \in children[path[2]]
  BY <1>1 DEF PathOK
<1>3. path[1] \in Switches
  BY <1>2 DEF GInv, NoTopologyApart, Parents
<1>4. ASSUME faithful PROVE FALSE
  <2>1. Tier[path[1]] < Tier[path[j]]
    BY <1>3, <1>4 DEF PathOK
  <2>2. Tier[path[1]] \in Nat
    BY <1>3, FabricAssumption
  <2> QED  BY <2>1, <2>2
<1> QED  BY <1>4

\* A call that has nothing left to visit returns.
LEMMA ReturnStep ==
    ASSUME LInv, Return
    PROVE  WalkInv' /\ stack' \in Seq(SUBSET Seq(Vertices))
<1>1. /\ LabelsTypeOK /\ phase = "built" /\ Sound /\ Complete /\ stage = "walk"
      /\ \A q : Waiting(q) => PathOK(q)
      /\ stack \in Seq(SUBSET Seq(Vertices)) /\ stack # <<>> /\ Head(stack) = {}
      /\ stack' = Tail(stack) /\ UNCHANGED <<graphVars, stage, nodeMap>>
  BY DEF LInv, WalkInv, Return, LabelsTypeOK
<1>2. /\ stack' \in Seq(SUBSET Seq(Vertices)) /\ Len(stack') = Len(stack) - 1
      /\ Len(stack) \in Nat \ {0}
      /\ stack[1] = {} /\ \A n \in 1..(Len(stack) - 1) : stack'[n] = stack[n + 1]
  BY <1>1
<1>3. ASSUME NEW q, Waiting(q)' PROVE Waiting(q)
  <2>1. PICK n \in 1..Len(stack') : q \in stack'[n]
    BY <1>3 DEF Waiting
  <2>2. n + 1 \in 1..Len(stack) /\ q \in stack[n + 1]
    BY <1>2, <2>1
  <2> QED  BY <2>2 DEF Waiting
<1>4. ASSUME NEW q, Waiting(q) PROVE Waiting(q)'
  <2>1. PICK n \in 1..Len(stack) : q \in stack[n]
    BY <1>4 DEF Waiting
  <2>2. n # 1
    BY <1>2, <2>1
  <2>3. n - 1 \in 1..Len(stack') /\ stack'[n - 1] = stack[(n - 1) + 1] /\ (n - 1) + 1 = n
    BY <1>2, <2>2
  <2> QED  BY <2>1, <2>3 DEF Waiting
<1>5. \A q : Waiting(q)' => PathOK(q)'
  BY <1>1, <1>3, SameGraph
<1>6. Sound'
  BY <1>1, SameGraph DEF Sound
<1>7. Complete'
  <2> SUFFICES ASSUME NEW C \in Visits, Closed(C), \A p : Waiting(p)' => <<p[1], Len(p) - 1>> \in C,
                      NEW i \in Requested, NEW k \in 1..3, Reached(i, k)
               PROVE  nodeMap[i][k] # None \/ \E n \in Nat : n >= k /\ <<i, n>> \in C
    BY <1>1, SameGraph DEF Complete, Visits
  <2>1. \A p : Waiting(p) => <<p[1], Len(p) - 1>> \in C
    BY <1>4
  <2> QED  BY <1>1, <2>1 DEF Complete
<1>8. phase' = "built" /\ stage' = "walk"
  BY <1>1 DEF graphVars
<1> QED  BY <1>2, <1>5, <1>6, <1>7, <1>8 DEF WalkInv

\* The first call: every vertex below the root waits, and every node has its
\* domain.
LEMMA WalkBegins ==
    ASSUME LInv, getBlockNodeLabels, stage' = "walk"
    PROVE  WalkInv' /\ nodeMap' \in [Requested -> [Keys -> Values \cup Numbers \cup {None}]]
           /\ stack' \in Seq(SUBSET Seq(Vertices))
<1> USE GraphAssumption
<1>1. /\ GInv /\ phase = "built" /\ UNCHANGED graphVars
      /\ ~\E i \in Requested : \E a, b \in AcceleratorOf(i) : a # b
      /\ nodeMap' = [i \in Requested |->
                        [k \in Keys |-> IF k = 0 /\ AcceleratorOf(i) # {}
                                        THEN ToBlocks(CHOOSE a \in AcceleratorOf(i) : TRUE)
                                        ELSE None]]
      /\ stack' = <<{<<v>> : v \in forest}>>
  BY DEF LInv, getBlockNodeLabels
<1>2. forest \subseteq Vertices
  BY <1>1 DEF GInv, GraphTypeOK
<1>3. ASSUME NEW i \in Requested
      PROVE  /\ \A k \in 1..3 : nodeMap'[i][k] = None
             /\ \A a \in AcceleratorOf(i) : nodeMap'[i][0] = ToBlocks(a)
             /\ nodeMap'[i] \in [Keys -> Values \cup Numbers \cup {None}]
  <2> DEFINE c == CHOOSE a \in AcceleratorOf(i) : TRUE
  <2>1. nodeMap'[i] = [k \in Keys |-> IF k = 0 /\ AcceleratorOf(i) # {} THEN ToBlocks(c) ELSE None]
    BY <1>1
  <2>2. AcceleratorOf(i) # {} => c \in AcceleratorOf(i)
    OBVIOUS
  <2>3. AcceleratorOf(i) # {} => ToBlocks(c) \in Numbers
    BY <2>2, BlockNumbers DEF AcceleratorOf
  <2>4. \A a \in AcceleratorOf(i) : a = c
    BY <1>1, <2>2
  <2> HIDE DEF c
  <2>5. \A k \in 1..3 : nodeMap'[i][k] = None
    BY <2>1 DEF Keys
  <2>6. \A a \in AcceleratorOf(i) : nodeMap'[i][0] = ToBlocks(a)
    BY <2>1, <2>4 DEF Keys
  <2>7. nodeMap'[i] \in [Keys -> Values \cup Numbers \cup {None}]
    BY <2>1, <2>3
  <2> QED  BY <2>5, <2>6, <2>7
<1>4. nodeMap' \in [Requested -> [Keys -> Values \cup Numbers \cup {None}]]
  <2>1. nodeMap' = [i \in Requested |-> nodeMap'[i]]
    BY <1>1
  <2> QED  BY <1>3, <2>1
<1>5. Sound'
  <2>1. /\ \A i : AcceleratorOf(i)' = AcceleratorOf(i)
        /\ \A a : ToBlocks(a)' = ToBlocks(a)
    BY <1>1, SameGraph
  <2> QED  BY <1>3, <2>1 DEF Sound
<1>6. \A v \in Vertices : <<v>> \in Seq(Vertices) /\ Len(<<v>>) = 1 /\ <<v>>[1] = v
  OBVIOUS
<1> DEFINE roots == {<<v>> : v \in forest}
<1>7. /\ roots \in SUBSET Seq(Vertices) /\ stack' = <<roots>>
      /\ \A v \in forest : <<v>> \in roots
      /\ \A q \in roots : q \in Seq(Vertices) /\ Len(q) = 1
  BY <1>1, <1>2, <1>6
<1> HIDE DEF roots
<1>8. stack' \in Seq(SUBSET Seq(Vertices)) /\ Len(stack') = 1 /\ stack'[1] = roots
  BY <1>7
<1>9. \A q : Waiting(q)' <=> q \in roots
  BY <1>8 DEF Waiting
<1>10. \A q : Waiting(q)' => PathOK(q)'
  <2>1. ASSUME NEW q \in roots PROVE PathOK(q)
    <3>1. q \in Seq(Vertices) /\ Len(q) = 1
      BY <1>7
    <3> QED  BY <3>1 DEF PathOK
  <2> QED  BY <1>1, <1>9, <2>1, SameGraph
<1>11. Complete'
  <2> SUFFICES ASSUME NEW C \in Visits, Closed(C), \A p : Waiting(p)' => <<p[1], Len(p) - 1>> \in C,
                      NEW i \in Requested, NEW k \in 1..3, Reached(i, k)
               PROVE  \E n \in Nat : n >= k /\ <<i, n>> \in C
    BY <1>1, SameGraph DEF Complete, Visits
  <2>1. ASSUME NEW v \in forest PROVE <<v, 0>> \in C
    <3>1. <<(<<v>>)[1], Len(<<v>>) - 1>> \in C
      BY <1>7, <1>9
    <3>2. (<<v>>)[1] = v /\ Len(<<v>>) - 1 = 0
      BY <1>2, <1>6
    <3> QED  BY <3>1, <3>2
  <2> QED  BY <2>1 DEF Reached
<1>12. phase' = "built"
  BY <1>1 DEF graphVars
<1> QED  BY <1>4, <1>5, <1>8, <1>10, <1>11, <1>12 DEF WalkInv

\* The walk visits every vertex that leads to the root.
LEMMA RootVisits ==
    ASSUME NEW C \in Visits, Closed(C), \A v \in forest : <<v, 0>> \in C,
           NEW q \in Parents, ReachesRoot(q)
    PROVE  \E n \in Nat : <<q, n>> \in C
<1>1. ASSUME NEW p \in Parents, NEW n \in Nat, <<p, n>> \in C, NEW w \in children[p]
      PROVE  n + 1 \in Nat /\ <<w, n + 1>> \in C
  BY <1>1 DEF Closed
<1>2. ASSUME NEW p \in Parents, \E n \in Nat : <<p, n>> \in C, NEW w \in children[p]
      PROVE  \E n \in Nat : <<w, n>> \in C
  BY <1>1, <1>2
<1>3. \A v \in forest : \E n \in Nat : <<v, n>> \in C
  OBVIOUS
<1> QED  BY <1>2, <1>3 DEF ReachesRoot

\* The walk visits an instance below each vertex that is above the instance.
LEMMA AboveReached ==
    ASSUME GInv, GrowInv, NEW i \in Requested, NEW k \in 1..3, NEW q \in Above(i, k)
    PROVE  Reached(i, k)
<1> SUFFICES ASSUME NEW C \in Visits, Closed(C), \A v \in forest : <<v, 0>> \in C
             PROVE  \E n \in Nat : n >= k /\ <<i, n>> \in C
  BY DEF Reached
<1>1. ASSUME NEW p \in Parents, NEW w \in children[p]
      PROVE  \E n \in Nat : <<p, n>> \in C /\ <<w, n + 1>> \in C
  <2>1. PICK n \in Nat : <<p, n>> \in C
    BY RootVisits DEF GrowInv
  <2> QED  BY <2>1 DEF Closed
<1>2. CASE k = 1
  <2>1. q \in Parents /\ i \in children[q]
    BY <1>2 DEF Above, ParentsOf
  <2>2. PICK n \in Nat : <<i, n + 1>> \in C
    BY <1>1, <2>1
  <2>3. n + 1 \in Nat /\ n + 1 >= k
    BY <1>2
  <2> QED  BY <2>2, <2>3
<1>3. CASE k = 2
  <2>1. PICK a \in Parents : q \in Parents /\ i \in children[a] /\ a \in children[q]
    BY <1>3 DEF Above, ParentsOf
  <2>2. PICK n \in Nat : <<a, n + 1>> \in C
    BY <1>1, <2>1
  <2>3. n + 1 \in Nat /\ (n + 1) + 1 \in Nat /\ (n + 1) + 1 >= k
    BY <1>3
  <2>4. <<i, (n + 1) + 1>> \in C
    BY <2>1, <2>2, <2>3 DEF Closed
  <2> QED  BY <2>3, <2>4
<1>4. CASE k = 3
  <2>1. PICK b \in ParentsOf(ParentsOf({i})) : q \in Parents /\ b \in children[q]
    BY <1>4 DEF Above, ParentsOf
  <2>2. PICK a \in Parents : b \in Parents /\ i \in children[a] /\ a \in children[b]
    BY <2>1 DEF ParentsOf
  <2>3. PICK n \in Nat : <<b, n + 1>> \in C
    BY <1>1, <2>1
  <2>4. /\ n + 1 \in Nat /\ (n + 1) + 1 \in Nat /\ ((n + 1) + 1) + 1 \in Nat
        /\ ((n + 1) + 1) + 1 >= k
    BY <1>4
  <2>5. <<a, (n + 1) + 1>> \in C
    BY <2>2, <2>3, <2>4 DEF Closed
  <2>6. <<i, ((n + 1) + 1) + 1>> \in C
    BY <2>2, <2>4, <2>5 DEF Closed
  <2> QED  BY <2>4, <2>6
<1> QED  BY <1>2, <1>3, <1>4

\* When nothing waits, no label is missing.
LEMMA WalkEnds ==
    ASSUME LInv, stage = "walk", stack = <<>>
    PROVE  Full
<1>1. GInv /\ GrowInv /\ Complete
  BY DEF LInv, WalkInv
<1>2. \A p : ~Waiting(p)
  BY DEF Waiting
<1>3. {} \in Visits /\ Closed({})
  BY DEF Visits, Closed
<1>4. ASSUME NEW i \in Requested, NEW k \in 1..3, nodeMap[i][k] = None, NEW q \in Above(i, k)
      PROVE  FALSE
  <2>1. Reached(i, k)
    BY <1>1, AboveReached
  <2> QED  BY <1>1, <1>2, <1>3, <1>4, <2>1 DEF Complete
<1> QED  BY <1>4 DEF Full

----------------------------------------------------------------------------
(* The labels.                                                              *)

\* If the reports agree, the labels of a node are those of a node without a
\* place, or the whole chain of switches above it in the fabric.
LEMMA ChainLabels ==
    ASSUME GInv, GrowInv, phase = "built", faithful, Sound, Full, NEW i \in Requested
    PROVE  LET n == nodeMap[i]
           IN  \/ n[1] \in {None, NoTopology} /\ n[2] = None /\ n[3] = None
               \/ /\ Over(i) # None /\ n[1] = checkLabel(Over(i))
                  /\ n[2] = LabelOf(Over(Over(i)))
                  /\ n[3] = LabelOf(Over(Over(Over(i))))
<1> USE GraphAssumption
<1>1. /\ children \in [Parents -> SUBSET Vertices] /\ i \in Instances /\ i \in Vertices
      /\ \A p \in Parents : p \in Switches \/ p = NoTopology
      /\ \A p \in Switches : p \in Parents /\ p # NoTopology /\ p # None
      /\ NoTopology \in Parents
      /\ \A p \in Parents : NoTopology \notin children[p]
      /\ children[NoTopology] \subseteq Instances \cup {NoInstance}
      /\ NoInstance \notin Parents
  BY DEF GInv, GraphTypeOK, Parents, Vertices, NoTopologyApart
<1>2. /\ \A p \in Switches : \A c \in children[p] : Up[c] = p
      /\ \A t \in forest \ {NoTopology} : Up[t] = None
  BY DEF GInv, FollowsUp
<1>3. \A k \in 1..3 : nodeMap[i][k] = None => Above(i, k) = {}
  BY DEF Full
<1>4. \A k \in 1..3 : nodeMap[i][k] = None \/ \E p \in Above(i, k) : nodeMap[i][k] = checkLabel(p)
  BY DEF Sound
<1>5. \A S, p : p \in ParentsOf(S) <=> p \in Parents /\ \E c \in S : c \in children[p]
  BY DEF ParentsOf
<1>6. /\ Above(i, 1) = ParentsOf({i})
      /\ Above(i, 2) = ParentsOf(Above(i, 1))
      /\ Above(i, 3) = ParentsOf(Above(i, 2))
  BY DEF Above
\* A switch with something below it has its switch above it, if any.
<1>7. ASSUME NEW s \in Switches, children[s] # {}
      PROVE  /\ Over(s) = Up[s]
             /\ Over(s) = None => ParentsOf({s}) = {}
             /\ Over(s) # None => Over(s) \in Switches /\ ParentsOf({s}) = {Over(s)}
  <2>1. Over(s) = Up[s] /\ Up[s] \in Switches \cup {None}
    BY FabricAssumption DEF Over
  <2>2. \A p \in ParentsOf({s}) : p \in Switches /\ Up[s] = p
    BY <1>1, <1>2, <1>5
  <2>3. s \in forest \/ \E a \in Parents : s \in children[a]
    BY <1>1, <1>7 DEF GrowInv, ReachesRoot
  <2>4. s \in forest => Up[s] = None
    BY <1>1, <1>2
  <2>5. Up[s] # None => ParentsOf({s}) # {}
    BY <1>5, <2>3, <2>4
  <2> QED  BY <1>1, <2>1, <2>2, <2>5
<1>8. /\ nodeMap[i][1] = None \/ \E p \in Above(i, 1) : nodeMap[i][1] = checkLabel(p)
      /\ nodeMap[i][2] = None \/ \E p \in Above(i, 2) : nodeMap[i][2] = checkLabel(p)
      /\ nodeMap[i][3] = None \/ \E p \in Above(i, 3) : nodeMap[i][3] = checkLabel(p)
      /\ nodeMap[i][1] = None => Above(i, 1) = {}
      /\ nodeMap[i][2] = None => Above(i, 2) = {}
      /\ nodeMap[i][3] = None => Above(i, 3) = {}
  BY <1>3, <1>4
<1>9. CASE i \in children[NoTopology]
  <2>1. \A p \in Above(i, 1) : p = NoTopology
    <3>1. ASSUME NEW p \in Above(i, 1) PROVE p = NoTopology
      <4>1. p \in Parents /\ i \in children[p] /\ p # TreeRoot /\ NoTopology # TreeRoot
        BY <1>1, <1>5, <1>6 DEF Vertices
      <4>2. Below(i, p) /\ Below(i, NoTopology)
        BY <1>9, <4>1 DEF Below
      <4> QED  BY <1>1, <4>1, <4>2 DEF GInv, NoNodeTwice
    <3> QED  BY <3>1
  <2>2. Above(i, 2) = {}
    BY <1>1, <1>5, <1>6, <2>1
  <2>3. Above(i, 3) = {}
    BY <1>5, <1>6, <2>2
  <2>4. checkLabel(NoTopology) = NoTopology
    BY LabelsAssumption DEF checkLabel
  <2> QED  BY <1>8, <2>1, <2>2, <2>3, <2>4
<1>10. CASE i \notin children[NoTopology] /\ Above(i, 1) = {}
  <2>1. Above(i, 2) = {}
    BY <1>5, <1>6, <1>10
  <2>2. Above(i, 3) = {}
    BY <1>5, <1>6, <2>1
  <2> QED  BY <1>8, <1>10, <2>1, <2>2
<1>11. CASE i \notin children[NoTopology] /\ Above(i, 1) # {}
  <2> DEFINE b == Over(i)
             s == Over(b)
             t == Over(s)
  <2>1. b = Up[i]
    BY <1>1 DEF Over
  <2>2. \A p \in Above(i, 1) : p \in Switches /\ p = b /\ i \in children[p]
    BY <1>1, <1>2, <1>5, <1>6, <1>11, <2>1
  <2>3. Above(i, 1) = {b} /\ b \in Switches /\ children[b] # {} /\ b # None
    BY <1>1, <1>11, <2>2
  <2>4. nodeMap[i][1] = checkLabel(b)
    BY <1>8, <2>3
  <2>5. Above(i, 2) = ParentsOf({b})
    BY <1>6, <2>3
  <2> HIDE DEF b
  <2>6. CASE s = None
    <3>1. Above(i, 2) = {}
      BY <1>7, <2>3, <2>5, <2>6
    <3>2. Above(i, 3) = {}
      BY <1>5, <1>6, <3>1
    <3>3. nodeMap[i][2] = None /\ nodeMap[i][3] = None
      BY <1>8, <3>1, <3>2
    <3>4. t = None
      <4>1. None \notin Instances \cup Switches
        BY DEF Vertices, Parents
      <4> QED  BY <2>6, <4>1 DEF Over
    <3> QED  BY <2>3, <2>4, <2>6, <3>3, <3>4 DEF LabelOf, b
  <2>7. CASE s # None
    <3>1. s \in Switches /\ Above(i, 2) = {s}
      BY <1>7, <2>3, <2>5, <2>7
    <3>2. b \in children[s]
      BY <1>5, <2>5, <3>1
    <3>3. nodeMap[i][2] = checkLabel(s)
      BY <1>8, <3>1
    <3>4. Above(i, 3) = ParentsOf({s})
      BY <1>6, <3>1
    <3> HIDE DEF s
    <3>5. nodeMap[i][3] = LabelOf(t)
      <4>1. CASE t = None
        BY <1>7, <1>8, <3>1, <3>2, <3>4, <4>1 DEF LabelOf
      <4>2. CASE t # None
        <5>1. Above(i, 3) = {t}
          BY <1>7, <3>1, <3>2, <3>4, <4>2
        <5> QED  BY <1>8, <4>2, <5>1 DEF LabelOf
      <4> QED  BY <4>1, <4>2
    <3> QED  BY <2>3, <2>4, <2>7, <3>3, <3>5 DEF LabelOf, b, s
  <2> QED  BY <2>6, <2>7
<1> QED  BY <1>9, <1>10, <1>11

\* Such labels leave on a node what they find, or what fits to it.
LEMMA MergeNested ==
    ASSUME NEW old, NEW new, NEW i, Nested(old, i),
           \/ new[1] \in {None, NoTopology} /\ new[2] = None /\ new[3] = None
           \/ /\ Over(i) # None /\ new[1] = checkLabel(Over(i))
              /\ new[2] = LabelOf(Over(Over(i)))
              /\ new[3] = LabelOf(Over(Over(Over(i))))
    PROVE  Nested(MergeNodeLabels(old, new), i)
<1> USE GraphAssumption
<1> DEFINE m == MergeNodeLabels(old, new)
<1>1. /\ m[1] = IF new[1] # None THEN new[1] ELSE old[1]
      /\ m[2] = IF new[2] # None THEN new[2] ELSE old[2]
      /\ m[3] = IF new[3] # None THEN new[3] ELSE old[3]
  BY DEF MergeNodeLabels, Keys
<1> DEFINE block == Over(i)
           spine == Over(block)
           top   == Over(spine)
<1>2. /\ \A v : Over(v) \in Switches \cup {None}
      /\ Over(None) = None
  BY FabricAssumption DEF Over, Vertices, Parents
<1>3. \A v \in Switches : checkLabel(v) # None /\ v # None
  BY LabelValues DEF Vertices, Parents
<1>4. \A v : LabelOf(v) = IF v = None THEN None ELSE checkLabel(v)
  BY DEF LabelOf
<1>5. /\ \/ old[1] \in {None, NoTopology}
         \/ block # None /\ old[1] = checkLabel(block) /\ old[2] = LabelOf(spine)
      /\ \/ old[2] = None
         \/ spine # None /\ old[2] = checkLabel(spine) /\ old[3] = LabelOf(top)
      /\ old[3] \in {None, LabelOf(top)}
  BY DEF Nested
<1>6. block \in Switches \cup {None} /\ spine \in Switches \cup {None} /\ top \in Switches \cup {None}
      /\ (spine = None => top = None)
  BY <1>2
<1>7. \/ new[1] \in {None, NoTopology} /\ new[2] = None /\ new[3] = None
      \/ /\ block # None /\ new[1] = checkLabel(block)
         /\ new[2] = LabelOf(spine) /\ new[3] = LabelOf(top)
  OBVIOUS
<1> HIDE DEF m, block, spine, top
<1>8. /\ \/ m[1] \in {None, NoTopology}
         \/ block # None /\ m[1] = checkLabel(block) /\ m[2] = LabelOf(spine)
      /\ \/ m[2] = None
         \/ spine # None /\ m[2] = checkLabel(spine) /\ m[3] = LabelOf(top)
      /\ m[3] \in {None, LabelOf(top)}
  BY <1>1, <1>3, <1>4, <1>5, <1>6, <1>7
<1> QED  BY <1>8 DEF Nested, m, block, spine, top

\* Writing the labels of a node.
LEMMA AddLabelsStep ==
    ASSUME LInv, NEW i \in Requested, AddNodeLabels(i)
    PROVE  /\ labels' \in [Requested -> [Keys -> Values \cup Numbers \cup {None}]]
           /\ WrittenInv' /\ NestInv'
<1>1. /\ LabelsTypeOK /\ GInv /\ GrowInv /\ phase = "built" /\ Sound /\ Full
      /\ stage = "apply" /\ stage' = "apply"
      /\ WrittenInv /\ NestInv
  BY DEF LInv, WalkInv, AddNodeLabels
<1>2. /\ labels' = [labels EXCEPT ![i] = MergeNodeLabels(labels[i], nodeMap[i])]
      /\ waiting' = waiting \ {i} /\ nodeMap' = nodeMap /\ agreed' = agreed
      /\ faithful' = faithful /\ phase' = phase
  BY DEF AddNodeLabels, graphVars
<1>3. /\ labels \in [Requested -> [Keys -> Values \cup Numbers \cup {None}]]
      /\ nodeMap \in [Requested -> [Keys -> Values \cup Numbers \cup {None}]]
  BY <1>1 DEF LabelsTypeOK
<1>4. /\ labels'[i] = MergeNodeLabels(labels[i], nodeMap[i])
      /\ \A j \in Requested : j # i => labels'[j] = labels[j]
  BY <1>2, <1>3
<1>5. \A k \in Keys : labels'[i][k] = IF nodeMap[i][k] # None THEN nodeMap[i][k] ELSE labels[i][k]
  BY <1>4 DEF MergeNodeLabels
<1>6. labels' \in [Requested -> [Keys -> Values \cup Numbers \cup {None}]]
  <2>1. \A k \in Keys : nodeMap[i][k] \in Values \cup Numbers \cup {None} /\ labels[i][k] \in Values \cup Numbers \cup {None}
    BY <1>3
  <2>2. MergeNodeLabels(labels[i], nodeMap[i]) \in [Keys -> Values \cup Numbers \cup {None}]
    BY <2>1 DEF MergeNodeLabels
  <2> QED  BY <1>2, <1>3, <2>2
<1>7. WrittenInv'
  <2>1. ASSUME NEW j \in Requested \ waiting', NEW k \in Keys, nodeMap[j][k] # None
        PROVE  labels'[j][k] = nodeMap[j][k]
    <3>1. CASE j = i
      BY <1>5, <2>1, <3>1
    <3>2. CASE j # i
      BY <1>1, <1>2, <1>4, <2>1, <3>2 DEF WrittenInv
    <3> QED  BY <3>1, <3>2
  <2> QED  BY <1>1, <1>2, <2>1 DEF WrittenInv
<1>8. NestInv'
  <2>1. ASSUME agreed PROVE Nested(labels'[i], i)
    <3>1. faithful /\ Nested(labels[i], i)
      BY <1>1, <2>1 DEF NestInv
    <3> QED  BY <1>1, <1>4, <3>1, ChainLabels, MergeNested
  <2>2. ASSUME agreed, NEW j \in Requested PROVE Nested(labels'[j], j)
    BY <1>1, <1>4, <2>1, <2>2 DEF NestInv
  <2> QED  BY <1>1, <1>2, <2>2 DEF NestInv
<1> QED  BY <1>6, <1>7, <1>8

----------------------------------------------------------------------------
(* The specification.                                                       *)

\* No labels fit to any fabric.
LEMMA NoLabelsNested == \A i : Nested(NoLabels, i)
BY DEF Nested, NoLabels, Keys

\* The first execution.
LEMMA LabelsInitInv == LabelsInit => LInv
<1> SUFFICES ASSUME LabelsInit PROVE LInv
  OBVIOUS
<1>1. GInv /\ GrowInv
  BY GraphInitInv, GraphInitGrow DEF LabelsInit
<1>2. NoLabels \in [Keys -> Values \cup Numbers \cup {None}]
  BY DEF NoLabels
<1>3. LabelsTypeOK
  BY <1>2 DEF LabelsInit, LabelsTypeOK
<1>4. WalkInv /\ WrittenInv
  BY DEF LabelsInit, WalkInv, WrittenInv
<1>5. NestInv
  BY NoLabelsNested DEF LabelsInit, GraphInit, NestInv
<1> QED  BY <1>1, <1>3, <1>4, <1>5 DEF LInv

\* A step that leaves the graph and the labels alone, and does not begin an
\* execution, keeps what is known of them.
LEMMA KeptByWalk ==
    ASSUME LInv, UNCHANGED <<graphVars, labels, agreed>>
    PROVE  GInv' /\ GrowInv' /\ NestInv'
<1>1. GInv' /\ GrowInv'
  BY SameGraph DEF LInv
<1>2. NestInv'
  BY DEF LInv, NestInv, graphVars
<1> QED  BY <1>1, <1>2

\* A visit of the walk.
LEMMA VisitStep ==
    ASSUME LInv, stack # <<>>, NEW path \in Head(stack), getTreeNodeLabels(path)
    PROVE  LInv'
<1>1. /\ LabelsTypeOK /\ GInv /\ stage = "walk"
      /\ UNCHANGED <<graphVars, names, counts, waiting, labels, round, agreed>>
      /\ \A q : Waiting(q) => PathOK(q)
  BY DEF LInv, WalkInv, getTreeNodeLabels
<1>2. GInv' /\ GrowInv' /\ NestInv'
  BY <1>1, KeptByWalk
<1>3. PathOK(path)
  BY <1>1, HeadWaits
<1>4. Head(path) = path[1]
  BY <1>3 DEF PathOK
<1>5. CASE /\ path[1] \in Requested
           /\ nodeMap' = [nodeMap EXCEPT ![path[1]] = pathLabels(@, path)]
           /\ stack' = <<Head(stack) \ {path}>> \o Tail(stack)
           /\ UNCHANGED stage
  <2>1. WalkInv' /\ nodeMap' \in [Requested -> [Keys -> Values \cup Numbers \cup {None}]]
        /\ stack' \in Seq(SUBSET Seq(Vertices))
    BY <1>1, <1>5, VisitNode
  <2>2. LabelsTypeOK'
    BY <1>1, <1>5, <2>1 DEF LabelsTypeOK
  <2>3. WrittenInv'
    BY <1>1, <1>5 DEF WrittenInv
  <2> QED  BY <1>2, <2>1, <2>2, <2>3 DEF LInv
<1>6. CASE /\ path[1] \in Parents
           /\ \E j \in 2..Len(path) : path[j] = path[1]
           /\ stage' = "crashed" /\ stack' = <<>>
           /\ UNCHANGED nodeMap
  <2>1. ~faithful'
    BY <1>1, <1>3, <1>6, VisitAgain DEF graphVars
  <2>2. LabelsTypeOK'
    <3>1. <<>> \in Seq(SUBSET Seq(Vertices))
      OBVIOUS
    <3> QED  BY <1>1, <1>6, <3>1 DEF LabelsTypeOK
  <2>3. WalkInv' /\ WrittenInv'
    BY <1>6, <2>1 DEF WalkInv, WrittenInv
  <2> QED  BY <1>2, <2>2, <2>3 DEF LInv
<1>7. CASE /\ path[1] \in Parents
           /\ stack' = <<{<<w>> \o path : w \in children[path[1]]}>>
                           \o (<<Head(stack) \ {path}>> \o Tail(stack))
           /\ UNCHANGED <<stage, nodeMap>>
  <2>1. WalkInv' /\ stack' \in Seq(SUBSET Seq(Vertices))
    BY <1>1, <1>7, VisitSwitch
  <2>2. LabelsTypeOK'
    BY <1>1, <1>7, <2>1 DEF LabelsTypeOK
  <2>3. WrittenInv'
    BY <1>1, <1>7 DEF WrittenInv
  <2> QED  BY <1>2, <2>1, <2>2, <2>3 DEF LInv
<1> QED  BY <1>4, <1>5, <1>6, <1>7 DEF getTreeNodeLabels

\* The walk keeps its invariant as the graph and the computed labels stay.
LEMMA KeptByApply ==
    ASSUME LInv, UNCHANGED <<graphVars, nodeMap>>,
           stage \in {"walk", "apply", "done"}, stage' \in {"apply", "done"}, Full
    PROVE  WalkInv'
<1>1. phase = "built" /\ Sound
  BY DEF LInv, WalkInv
<1>2. phase' = "built"
  BY <1>1 DEF graphVars
<1>3. Sound'
  BY <1>1, SameGraph DEF Sound
<1>4. Full'
  BY SameGraph DEF Full
<1> QED  BY <1>2, <1>3, <1>4 DEF WalkInv

\* Reports and the end of them: nothing is written, and the graph grows.
LEMMA ReportStep ==
    ASSUME LInv, stage = "graph", GInv', GrowInv', NestInv',
           UNCHANGED <<stage, stack, nodeMap, waiting, labels>>, agreed' \in BOOLEAN
    PROVE  LInv'
<1>1. LabelsTypeOK'
  BY DEF LInv, LabelsTypeOK
<1>2. WalkInv' /\ WrittenInv'
  BY DEF WalkInv, WrittenInv
<1> QED  BY <1>1, <1>2 DEF LInv

\* The next execution begins with an empty graph.
LEMMA NextRoundStep == ASSUME LInv, NextRound PROVE LInv'
<1>1. GraphInit'
  BY DEF NextRound, GraphInit
<1>2. GInv'
  <2> USE GraphAssumption DEF GraphInit
  <2>1. GraphTypeOK'
    BY <1>1 DEF GraphTypeOK
  <2>2. Progress'
    BY <1>1 DEF Progress, Parents
  <2>3. NoNodeTwice' /\ NoTopologyApart' /\ FollowsUp'
    BY <1>1 DEF NoNodeTwice, Below, NoTopologyApart, FollowsUp, Parents
  <2> QED  BY <2>1, <2>2, <2>3 DEF GInv
<1>3. GrowInv'
  BY <1>1 DEF GraphInit, GrowInv
<1>4. NoLabels \in [Keys -> Values \cup Numbers \cup {None}]
  BY DEF NoLabels
<1>5. LabelsTypeOK'
  <2>1. <<>> \in Seq(SUBSET Seq(Vertices))
    OBVIOUS
  <2> QED  BY <1>4, <2>1 DEF LInv, LabelsTypeOK, NextRound
<1>6. WalkInv' /\ WrittenInv'
  BY DEF NextRound, WalkInv, WrittenInv
<1>7. NestInv'
  BY DEF LInv, NestInv, NextRound
<1> QED  BY <1>2, <1>3, <1>5, <1>6, <1>7 DEF LInv

\* Every step keeps the invariant.
LEMMA LabelsStep == LInv /\ [LabelsNext]_labelsVars => LInv'
<1> SUFFICES ASSUME LInv, [LabelsNext]_labelsVars PROVE LInv'
  OBVIOUS
<1>0. LabelsTypeOK /\ GInv /\ GrowInv /\ NestInv /\ WalkInv /\ WrittenInv
  BY DEF LInv
<1>1. ASSUME NEW r \in InputReports, UseReport(r) PROVE LInv'
  <2>1. r \in Reports
    BY LabelsAssumption
  <2>2. GInv' /\ GrowInv'
    BY <1>0, <1>1, <2>1, AddReportInv, AddReportGrow DEF UseReport
  <2>3. NestInv'
    BY <1>0, <1>1 DEF UseReport, AddReport, NestInv
  <2>4. agreed' \in BOOLEAN
    BY <1>0, <1>1 DEF UseReport, LabelsTypeOK
  <2> QED  BY <1>1, <2>2, <2>3, <2>4, ReportStep DEF UseReport
<1>2. ASSUME NEW r \in InputReports, SkipReport(r) PROVE LInv'
  <2>1. GInv' /\ GrowInv' /\ NestInv'
    BY <1>2, KeptByWalk DEF SkipReport
  <2>2. agreed' \in BOOLEAN
    BY <1>0, <1>2 DEF SkipReport, LabelsTypeOK
  <2> QED  BY <1>2, <2>1, <2>2, ReportStep DEF SkipReport
<1>3. CASE EndReports
  <2>1. GInv' /\ GrowInv'
    BY <1>0, <1>3, AddMissingInv, AddMissingGrow DEF EndReports
  <2>2. agreed' = (agreed /\ faithful) /\ faithful' = faithful /\ labels' = labels
    BY <1>3 DEF EndReports, AddMissing
  <2>3. NestInv'
    BY <1>0, <2>2 DEF NestInv
  <2>4. agreed' \in BOOLEAN
    BY <2>2
  <2> QED  BY <1>3, <2>1, <2>3, <2>4, ReportStep DEF EndReports
<1>4. CASE getBlockNodeLabels
  <2>1. GInv' /\ GrowInv' /\ NestInv' /\ UNCHANGED <<waiting, labels, agreed>>
    BY <1>4, KeptByWalk DEF getBlockNodeLabels
  <2>2. CASE stage' = "walk"
    <3>1. WalkInv' /\ nodeMap' \in [Requested -> [Keys -> Values \cup Numbers \cup {None}]]
          /\ stack' \in Seq(SUBSET Seq(Vertices))
      BY <1>4, <2>2, WalkBegins
    <3>2. LabelsTypeOK' /\ WrittenInv'
      BY <1>0, <2>1, <2>2, <3>1 DEF LabelsTypeOK, WrittenInv
    <3> QED  BY <2>1, <3>1, <3>2 DEF LInv
  <2>3. CASE stage' = "failed" /\ UNCHANGED <<nodeMap, stack>>
    <3>1. LabelsTypeOK'
      BY <1>0, <2>1, <2>3 DEF LabelsTypeOK
    <3>2. WalkInv' /\ WrittenInv'
      BY <2>3 DEF WalkInv, WrittenInv
    <3> QED  BY <2>1, <3>1, <3>2 DEF LInv
  <2> QED  BY <1>4, <2>2, <2>3 DEF getBlockNodeLabels
<1>5. ASSUME NEW path \in (IF stack = <<>> THEN {} ELSE Head(stack)), getTreeNodeLabels(path)
      PROVE  LInv'
  <2>1. stack # <<>> /\ path \in Head(stack)
    BY <1>5 DEF getTreeNodeLabels
  <2> QED  BY <1>5, <2>1, VisitStep
<1>6. CASE Return
  <2>1. GInv' /\ GrowInv' /\ NestInv' /\ UNCHANGED <<stage, nodeMap, waiting, labels, agreed>>
    BY <1>6, KeptByWalk DEF Return
  <2>2. WalkInv' /\ stack' \in Seq(SUBSET Seq(Vertices))
    BY <1>6, ReturnStep
  <2>3. LabelsTypeOK' /\ WrittenInv'
    BY <1>0, <1>6, <2>1, <2>2 DEF Return, LabelsTypeOK, WrittenInv
  <2> QED  BY <2>1, <2>2, <2>3 DEF LInv
<1>7. CASE BeginApply
  <2>1. GInv' /\ GrowInv' /\ NestInv' /\ UNCHANGED <<graphVars, stack, nodeMap, labels, agreed>>
    BY <1>7, KeptByWalk DEF BeginApply
  <2>2. WalkInv'
    BY <1>7, WalkEnds, KeptByApply DEF BeginApply
  <2>3. LabelsTypeOK'
    BY <1>0, <1>7, <2>1 DEF BeginApply, LabelsTypeOK
  <2>4. WrittenInv'
    BY <1>7 DEF BeginApply, WrittenInv
  <2> QED  BY <2>1, <2>2, <2>3, <2>4 DEF LInv
<1>8. CASE LabellingFails
  <2>1. GInv' /\ GrowInv' /\ NestInv' /\ UNCHANGED <<stack, nodeMap, waiting, labels, agreed>>
    BY <1>8, KeptByWalk DEF LabellingFails
  <2>2. LabelsTypeOK'
    BY <1>0, <1>8, <2>1 DEF LabellingFails, LabelsTypeOK
  <2>3. WalkInv' /\ WrittenInv'
    BY <1>8 DEF LabellingFails, WalkInv, WrittenInv
  <2> QED  BY <2>1, <2>2, <2>3 DEF LInv
<1>9. CASE GenerateOutput
  <2>1. GInv' /\ GrowInv' /\ NestInv' /\ UNCHANGED <<stack, nodeMap, waiting, labels, agreed>>
    BY <1>9, KeptByWalk DEF GenerateOutput
  <2>2. WalkInv'
    BY <1>0, <1>9, KeptByApply DEF GenerateOutput, WalkInv
  <2>3. LabelsTypeOK'
    BY <1>0, <1>9, <2>1 DEF GenerateOutput, LabelsTypeOK
  <2>4. WrittenInv'
    BY <1>0, <1>9 DEF GenerateOutput, WrittenInv
  <2> QED  BY <2>1, <2>2, <2>3, <2>4 DEF LInv
<1>10. CASE NextRound
  BY <1>10, NextRoundStep
<1>11. ASSUME NEW i \in Requested, AddNodeLabels(i) PROVE LInv'
  <2>1. /\ labels' \in [Requested -> [Keys -> Values \cup Numbers \cup {None}]]
        /\ WrittenInv' /\ NestInv'
    BY <1>11, AddLabelsStep
  <2>2. UNCHANGED <<graphVars, stage, stack, nodeMap, agreed>> /\ stage = "apply"
        /\ waiting' \subseteq waiting
    BY <1>11 DEF AddNodeLabels
  <2>3. GInv' /\ GrowInv'
    BY <1>0, <2>2, SameGraph
  <2>4. WalkInv'
    BY <1>0, <2>2, KeptByApply DEF WalkInv
  <2>5. LabelsTypeOK'
    BY <1>0, <2>1, <2>2 DEF LabelsTypeOK
  <2> QED  BY <2>1, <2>3, <2>4, <2>5 DEF LInv
<1>12. CASE UNCHANGED labelsVars
  <2>1. UNCHANGED <<graphVars, stage, stack, nodeMap, waiting, labels, agreed>>
    BY <1>12 DEF labelsVars, labelVars
  <2>2. GInv' /\ GrowInv' /\ NestInv'
    BY <2>1, KeptByWalk
  <2>3. LabelsTypeOK' /\ WrittenInv'
    BY <1>0, <2>1 DEF LabelsTypeOK, WrittenInv
  <2>4. \A q : Waiting(q)' <=> Waiting(q)
    BY <2>1 DEF Waiting
  <2>5. /\ Sound => Sound'
        /\ Full => Full'
        /\ Complete => Complete'
    BY <2>1, <2>4, SameGraph DEF Sound, Full, Complete, Visits
  <2>6. WalkInv'
    BY <1>0, <2>1, <2>4, <2>5, SameGraph DEF WalkInv, graphVars
  <2> QED  BY <2>2, <2>3, <2>6 DEF LInv
<1> QED  BY <1>1, <1>2, <1>3, <1>4, <1>5, <1>6, <1>7, <1>8, <1>9, <1>10, <1>11, <1>12
         DEF LabelsNext

\* The invariant of the executions of the Kubernetes engine.
THEOREM LabelsInvariance == LabelsSpec => []LInv
BY LabelsInitInv, LabelsStep, PTL DEF LabelsSpec

\* An execution that is answered with OK leaves on every node the labels of the
\* switches above it in the graph, and accelerator labels that tell the domains
\* apart, however the walk visits the maps and whatever the reports say.
THEOREM LabelsAreCurrent == LabelsSpec => []LabelsCurrent
<1>1. ASSUME LInv, stage = "done" PROVE LabelsCurrent
  <2>1. /\ Sound /\ Full /\ waiting = {}
        /\ \A i \in Requested : \A k \in Keys : nodeMap[i][k] # None => labels[i][k] = nodeMap[i][k]
    BY <1>1 DEF LInv, WalkInv, WrittenInv
  <2>2. ASSUME NEW i \in Requested, NEW k \in 1..3, Above(i, k) # {}
        PROVE  labels[i][k] \in {checkLabel(p) : p \in Above(i, k)}
    <3>1. nodeMap[i][k] # None
      BY <2>1, <2>2 DEF Full
    <3>2. PICK p \in Above(i, k) : nodeMap[i][k] = checkLabel(p)
      BY <2>1, <3>1 DEF Sound
    <3>3. labels[i][k] = checkLabel(p)
      BY <2>1, <3>1, <3>2 DEF Keys
    <3> QED  BY <3>3
  <2>3. ASSUME NEW i \in Requested, NEW a \in AcceleratorOf(i)
        PROVE  labels[i][0] = ToBlocks(a) /\ a \in Accelerators /\ domains[a] # {}
    <3>1. a \in Accelerators /\ domains[a] # {}
      BY DEF AcceleratorOf
    <3>2. nodeMap[i][0] = ToBlocks(a)
      BY <2>1 DEF Sound
    <3>3. ToBlocks(a) # None
      BY <3>1, BlockNumbers, LabelsAssumption
    <3> QED  BY <2>1, <3>1, <3>2, <3>3 DEF Keys
  <2>4. ASSUME NEW i \in Requested, NEW j \in Requested, NEW a \in AcceleratorOf(i),
               NEW b \in AcceleratorOf(j)
        PROVE  labels[i][0] = labels[j][0] <=> a = b
    BY <2>3, BlockNumbers
  <2> QED  BY <2>2, <2>4 DEF LabelsCurrent
<1>2. LInv => LabelsCurrent
  BY <1>1 DEF LabelsCurrent
<1> QED  BY <1>2, LabelsInvariance, PTL

\* If all executions were told of the same fabric, the labels show one
\* hierarchy at any time, although they are written node by node and executions
\* end half way.
THEOREM LabelsAreNested == LabelsSpec => []LabelsNest
<1>1. ASSUME LInv, agreed, NEW i \in Requested, NEW j \in Requested, NEW k \in 1..2,
             labels[i][k] = labels[j][k], labels[i][k] \notin {None, NoTopology}
      PROVE  labels[i][k + 1] = labels[j][k + 1]
  <2>1. Nested(labels[i], i) /\ Nested(labels[j], j)
    BY <1>1 DEF LInv, NestInv
  <2>2. \A v : Over(v) # None => Over(v) \in IDs
    BY FabricAssumption DEF Over, IDs
  <2>3. \A v, w \in IDs : checkLabel(v) = checkLabel(w) => v = w
    BY LabelValues
  <2>4. CASE k = 1
    <3>1. /\ Over(i) # None /\ labels[i][1] = checkLabel(Over(i))
          /\ labels[i][2] = LabelOf(Over(Over(i)))
      BY <1>1, <2>1, <2>4 DEF Nested
    <3>2. /\ Over(j) # None /\ labels[j][1] = checkLabel(Over(j))
          /\ labels[j][2] = LabelOf(Over(Over(j)))
      BY <1>1, <2>1, <2>4 DEF Nested
    <3>3. Over(i) = Over(j)
      BY <1>1, <2>2, <2>3, <2>4, <3>1, <3>2
    <3> QED  BY <2>4, <3>1, <3>2, <3>3
  <2>5. CASE k = 2
    <3> DEFINE s == Over(Over(i))
               t == Over(Over(j))
    <3>1. s # None /\ labels[i][2] = checkLabel(s) /\ labels[i][3] = LabelOf(Over(s))
      BY <1>1, <2>1, <2>5 DEF Nested
    <3>2. t # None /\ labels[j][2] = checkLabel(t) /\ labels[j][3] = LabelOf(Over(t))
      BY <1>1, <2>1, <2>5 DEF Nested
    <3>3. s = t
      BY <1>1, <2>2, <2>3, <2>5, <3>1, <3>2
    <3> QED  BY <2>5, <3>1, <3>2, <3>3
  <2> QED  BY <2>4, <2>5
<1>2. LInv => LabelsNest
  BY <1>1 DEF LabelsNest
<1> QED  BY <1>2, LabelsInvariance, PTL

\* If the reports agree, the walk never meets a switch above itself, in a graph
\* of any size: it does not overflow the stack.
THEOREM CrashesOnConflict == LabelsSpec => []CrashNeedsConflict
<1>1. LInv => CrashNeedsConflict
  BY DEF LInv, WalkInv, CrashNeedsConflict
<1> QED  BY <1>1, LabelsInvariance, PTL
=============================================================================
