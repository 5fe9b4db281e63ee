------------------------ MODULE ThreeTierGraphProofs ------------------------
(***************************************************************************)
(* Proofs about ThreeTierGraph, for any set of instances and switches, any *)
(* fabric and any reports.                                                 *)
(***************************************************************************)
EXTENDS ThreeTierGraph, TLAPS

\* What is still in i2n has no place yet, and what has left it has one.
Progress ==
    /\ phase = "reports" => children[NoTopology] = {} /\ NoTopology \notin forest
    /\ phase = "reports" => \A i \in Instances : i \in i2n \/ i \notin Requested =>
           /\ i \notin forest
           /\ \A p \in Parents : i \notin children[p]
           /\ \A a \in Accelerators : i \notin domains[a]
    /\ \A i \in Requested \ i2n : ReachesRoot(i)
    /\ phase = "built" => \A i \in i2n : ReachesRoot(i)

\* NoTopology is a root and has only instances below it, and the node without
\* an instance ID is nowhere else.
NoTopologyApart ==
    /\ children[NoTopology] \subseteq Instances \cup {NoInstance}
    /\ NoInstance \notin forest /\ \A s \in Switches : NoInstance \notin children[s]
    /\ \A p \in Parents : NoTopology \notin children[p]

\* If the reports agree, every switch is where the fabric has it.
FollowsUp ==
    faithful =>
        /\ \A p \in Switches : \A c \in children[p] : Up[c] = p
        /\ \A t \in forest \ {NoTopology} : Up[t] = None

\* Every switch with something below it is in the tree.
GrowInv == \A p \in Parents : children[p] # {} => ReachesRoot(p)

\* Every switch in the tree has something below it.
FilledInv ==
    \A p \in Parents : p \in forest \/ (\E q \in Parents : p \in children[q]) => children[p] # {}

GInv == GraphTypeOK /\ Progress /\ NoNodeTwice /\ NoTopologyApart /\ FollowsUp

----------------------------------------------------------------------------
(* What one report adds.                                                    *)

\* The instance of a report has one place: below the first switch the report
\* names, or in the forest if it names none.
LEMMA InstanceLink ==
    ASSUME NEW r \in Reports, NEW i \in Instances
    PROVE  /\ \A p \in Parents : Link(r, i, p) => i = r.id /\ p \in Switches
           /\ \A p, q \in Parents : Link(r, i, p) /\ Link(r, i, q) => p = q
           /\ IsTop(r, i) => i = r.id /\ \A p \in Parents : ~Link(r, i, p)
<1> USE GraphAssumption
<1>1. \A k \in Present(r) : k \in 1..3 /\ r.sw[k] \in Switches /\ At(r, k) = r.sw[k]
  BY DEF Present, Reports, At
<1>2. At(r, 0) = r.id /\ r.id \in Instances
  BY DEF At, Reports
<1>3. \A j \in Steps(r) : At(r, j) = i => j = 0 /\ i = r.id
  BY <1>1, <1>2 DEF Steps
<1>4. \A p \in Parents : Link(r, i, p) => i = r.id /\ p \in Switches
  BY <1>1, <1>3 DEF Link
<1>5. ASSUME NEW p \in Parents, NEW q \in Parents, Link(r, i, p), Link(r, i, q)
      PROVE  p = q
  <2>1. PICK k \in Present(r) : NextTier(r, 0, k) /\ p = At(r, k)
    BY <1>3, <1>5 DEF Link
  <2>2. PICK m \in Present(r) : NextTier(r, 0, m) /\ q = At(r, m)
    BY <1>3, <1>5 DEF Link
  <2>3. k = m
    BY <1>1, <2>1, <2>2 DEF NextTier
  <2> QED  BY <2>1, <2>2, <2>3
<1>6. ASSUME IsTop(r, i), NEW p \in Parents, Link(r, i, p)
      PROVE  FALSE
  <2>1. \A k \in Present(r) : k <= 0
    BY <1>3, <1>6 DEF IsTop
  <2>2. \E k \in Present(r) : TRUE
    BY <1>6 DEF Link
  <2> QED  BY <1>1, <2>1, <2>2
<1>7. IsTop(r, i) => i = r.id
  BY <1>3 DEF IsTop
<1> QED  BY <1>4, <1>5, <1>6, <1>7

\* A report only links to vertices of the graph, and never NoTopology.
LEMMA LinksInside ==
    ASSUME NEW r \in Reports
    PROVE  /\ \A c, p : Link(r, c, p) =>
                  c \in Instances \cup Switches /\ p \in Switches
           /\ \A t : IsTop(r, t) => t \in Instances \cup Switches
<1>1. \A k \in Present(r) : k \in 1..3 /\ r.sw[k] \in Switches /\ At(r, k) = r.sw[k]
  BY DEF Present, Reports, At
<1>2. \A j \in Steps(r) : At(r, j) \in Instances \cup Switches
  BY <1>1 DEF Steps, At, Reports
<1> QED  BY <1>1, <1>2 DEF Link, IsTop

\* The links of a report lead from its instance to its top.
LEMMA ReportReachesTop ==
    ASSUME NEW r \in Reports
    PROVE  \/ IsTop(r, r.id)
           \/ \E a \in Switches :
                 /\ Link(r, r.id, a)
                 /\ \/ IsTop(r, a)
                    \/ \E b \in Switches :
                          /\ Link(r, a, b)
                          /\ \/ IsTop(r, b)
                             \/ \E c \in Switches : Link(r, b, c) /\ IsTop(r, c)
<1>2. \A k \in Present(r) : k \in 1..3 /\ r.sw[k] \in Switches /\ At(r, k) = r.sw[k]
  BY DEF Present, Reports, At
<1>3. At(r, 0) = r.id /\ 0 \in Steps(r) /\ \A k \in Present(r) : k \in Steps(r)
  BY DEF At, Steps
<1>4. ASSUME NEW j \in Steps(r), NEW k \in Present(r), NextTier(r, j, k)
      PROVE  Link(r, At(r, j), r.sw[k])
  BY <1>2, <1>4 DEF Link
<1>5. ASSUME NEW j \in Steps(r), \A k \in Present(r) : k <= j
      PROVE  IsTop(r, At(r, j))
  BY <1>5 DEF IsTop
<1>6. \A j \in Steps(r) : j = 0 \/ j \in Present(r)
  BY DEF Steps
<1>8. ASSUME NEW j \in Steps(r)
      PROVE  \/ IsTop(r, At(r, j))
             \/ \E k \in Present(r) : Link(r, At(r, j), r.sw[k]) /\ j < k
  <2>1. CASE \A k \in Present(r) : k <= j
    BY <1>5, <2>1
  <2>2. CASE \E k \in Present(r) : ~(k <= j)
    <3>1. \E k \in Present(r) : NextTier(r, j, k)
      BY <1>2, <1>6, <2>2 DEF NextTier
    <3>2. PICK k \in Present(r) : NextTier(r, j, k)
      BY <3>1
    <3>3. j < k
      BY <3>2 DEF NextTier
    <3> QED  BY <1>4, <3>2, <3>3
  <2> QED  BY <2>1, <2>2
<1>9. CASE ~IsTop(r, r.id)
  <2>1. PICK k \in Present(r) : Link(r, r.id, r.sw[k]) /\ 0 < k
    BY <1>3, <1>8, <1>9
  <2>2. CASE ~IsTop(r, r.sw[k])
    <3>1. PICK l \in Present(r) : Link(r, r.sw[k], r.sw[l]) /\ k < l
      BY <1>2, <1>3, <1>8, <2>2
    <3>2. CASE ~IsTop(r, r.sw[l])
      <4>1. PICK m \in Present(r) : Link(r, r.sw[l], r.sw[m]) /\ l < m
        BY <1>2, <1>3, <1>8, <3>2
      <4>2. m = 3
        BY <1>2, <2>1, <3>1, <4>1
      <4>3. IsTop(r, r.sw[m])
        BY <1>2, <1>3, <1>5, <4>2
      <4> QED  BY <1>2, <2>1, <3>1, <4>1, <4>3
    <3> QED  BY <1>2, <2>1, <3>1, <3>2
  <2> QED  BY <1>2, <2>1, <2>2
<1> QED  BY <1>9

----------------------------------------------------------------------------
(* The invariant.                                                           *)

\* The graph without a vertex satisfies the invariant.
LEMMA GraphInitInv == GraphInit => GInv
<1> SUFFICES ASSUME GraphInit PROVE GInv
  OBVIOUS
<1> USE GraphAssumption DEF GraphInit
<1>1. GraphTypeOK
  BY DEF GraphTypeOK
<1>2. Progress
  BY DEF Progress, Parents
<1>3. NoNodeTwice
  BY DEF NoNodeTwice, Below
<1>4. NoTopologyApart
  BY DEF NoTopologyApart, Parents
<1>5. FollowsUp
  BY DEF FollowsUp, Parents
<1> QED  BY <1>1, <1>2, <1>3, <1>4, <1>5 DEF GInv

\* The graph only grows, so that what has a place keeps it.
LEMMA ReachesRootGrows ==
    ASSUME GraphTypeOK, NEW v \in Vertices, ReachesRoot(v),
           forest \subseteq forest',
           \A p \in Parents : children[p] \subseteq children'[p]
    PROVE  ReachesRoot(v)'
BY DEF ReachesRoot, GraphTypeOK

\* One more report keeps the invariant.
LEMMA AddReportInv == ASSUME GInv, NEW r \in Reports, AddReport(r) PROVE GInv'
<1> USE GraphAssumption
<1>1. /\ phase = "reports" /\ phase' = "reports"
      /\ r.id \in i2n /\ i2n' = i2n \ {r.id} /\ i2n \subseteq Requested \cup {NoInstance}
      /\ children \in [Parents -> SUBSET Vertices] /\ forest \subseteq Vertices
      /\ domains \in [Accelerators -> SUBSET Requested]
  BY DEF GInv, GraphTypeOK, AddReport, Wanted, Remaining
<1>1a. r.id \in Requested
  BY <1>1 DEF Reports
<1>2. /\ children' \in [Parents -> SUBSET Vertices]
      /\ \A p \in Parents : \A c \in Vertices :
             c \in children'[p] <=> c \in children[p] \/ Link(r, c, p)
  BY <1>1 DEF AddReport
<1>3. /\ forest' \subseteq Vertices
      /\ \A t \in Vertices : t \in forest' <=> t \in forest \/ IsTop(r, t)
  BY <1>1 DEF AddReport, Roots
<1>4. /\ domains' \in [Accelerators -> SUBSET Requested]
      /\ \A a \in Accelerators : \A i \in Instances :
             i \in domains'[a] <=> i \in domains[a] \/ (a = r.accel /\ i = r.id)
  BY <1>1, <1>1a DEF AddReport
<1>5. r.id \in Instances /\ r.id \in Vertices
  BY DEF Reports, Vertices
<1>6. NoTopology \in Parents /\ NoTopology \in Vertices
  BY DEF Parents, Vertices
<1>7. /\ \A c \in Vertices : c \in Instances \/ c = NoInstance \/ c \in Parents
      /\ \A p \in Parents : p \in Switches \/ p = NoTopology
      /\ \A i \in Instances : i \in Vertices
      /\ \A s \in Switches : s \in Parents /\ s \in Vertices
  BY DEF Parents, Vertices
<1>8. GraphTypeOK'
  <2>1. faithful' \in BOOLEAN
    BY DEF AddReport
  <2> QED  BY <1>1, <1>2, <1>3, <1>4, <2>1 DEF GraphTypeOK
<1>9. /\ \A i \in Instances : i \in i2n \/ i \notin Requested =>
             /\ i \notin forest
             /\ \A p \in Parents : i \notin children[p]
             /\ \A a \in Accelerators : i \notin domains[a]
      /\ children[NoTopology] = {} /\ NoTopology \notin forest
      /\ \A i \in Requested \ i2n : ReachesRoot(i)
  BY <1>1 DEF GInv, Progress
<1>10. Progress'
  <2>1. children'[NoTopology] = {} /\ NoTopology \notin forest'
    BY <1>2, <1>3, <1>6, <1>9, LinksInside
  <2>2. ASSUME NEW i \in Instances, i \in i2n' \/ i \notin Requested
        PROVE  /\ i \notin forest'
               /\ \A p \in Parents : i \notin children'[p]
               /\ \A a \in Accelerators : i \notin domains'[a]
    <3>1. i # r.id /\ (i \in i2n \/ i \notin Requested)
      BY <1>1, <2>2
    <3>2. \A p \in Parents : ~Link(r, i, p)
      BY <3>1, InstanceLink
    <3>3. ~IsTop(r, i)
      BY <3>1, InstanceLink
    <3> QED  BY <1>2, <1>3, <1>4, <1>7, <1>9, <3>1, <3>2, <3>3
  <2>3. ReachesRoot(r.id)'
    <3>1. \A c \in Vertices : \A p \in Parents : Link(r, c, p) => c \in children'[p]
      BY <1>2
    <3>2. \A t \in Vertices : IsTop(r, t) => t \in forest'
      BY <1>3
    <3>3. \/ r.id \in forest'
          \/ \E a \in Switches :
                /\ r.id \in children'[a]
                /\ \/ a \in forest'
                   \/ \E b \in Switches :
                         /\ a \in children'[b]
                         /\ \/ b \in forest'
                            \/ \E c \in Switches : b \in children'[c] /\ c \in forest'
      BY <1>5, <1>7, <3>1, <3>2, ReportReachesTop
    <3> QED  BY <1>7, <3>3 DEF ReachesRoot
  <2>4. ASSUME NEW i \in Requested \ i2n PROVE ReachesRoot(i)'
    <3>1. \A p \in Parents : children[p] \subseteq children'[p]
      BY <1>1, <1>2
    <3>2. forest \subseteq forest'
      BY <1>1, <1>3
    <3> QED  BY <1>7, <1>9, <3>1, <3>2, ReachesRootGrows DEF GInv
  <2>5. \A i \in Requested \ i2n' : ReachesRoot(i)'
    BY <1>1, <2>3, <2>4
  <2> QED  BY <1>1, <2>1, <2>2, <2>5 DEF Progress
<1>11. NoNodeTwice'
  <2>1. ASSUME NEW i \in Instances, NEW p \in Parents \cup {TreeRoot},
               NEW q \in Parents \cup {TreeRoot}, Below(i, p)', Below(i, q)'
        PROVE  p = q
    <3>1. CASE i = r.id
      <4>1. \A s \in Parents : i \in children'[s] => Link(r, i, s)
        BY <1>1, <1>2, <1>7, <1>9, <3>1
      <4>2. i \in forest' => IsTop(r, i)
        BY <1>1, <1>3, <1>7, <1>9, <3>1
      <4> QED  BY <2>1, <4>1, <4>2, InstanceLink DEF Below
    <3>2. CASE i # r.id
      <4>1. \A s \in Parents : i \in children'[s] => i \in children[s]
        BY <1>2, <1>7, <3>2, InstanceLink
      <4>2. i \in forest' => i \in forest
        BY <1>3, <1>7, <3>2, InstanceLink
      <4>3. Below(i, p) /\ Below(i, q)
        BY <2>1, <4>1, <4>2 DEF Below
      <4> QED  BY <4>3 DEF GInv, NoNodeTwice
    <3> QED  BY <3>1, <3>2
  <2>2. ASSUME NEW a \in Accelerators, NEW b \in Accelerators,
               domains'[a] \cap domains'[b] # {}
        PROVE  a = b
    <3>1. PICK i \in Instances : i \in domains'[a] /\ i \in domains'[b]
      BY <1>4, <2>2
    <3>2. CASE i = r.id
      BY <1>1, <1>4, <1>9, <3>1, <3>2
    <3>3. CASE i # r.id
      <4>1. i \in domains[a] /\ i \in domains[b]
        BY <1>4, <3>1, <3>3
      <4> QED  BY <4>1 DEF GInv, NoNodeTwice
    <3> QED  BY <3>2, <3>3
  <2> QED  BY <2>1, <2>2 DEF NoNodeTwice
<1>12. NoTopologyApart'
  <2>1. \A p \in Parents : NoTopology \notin children'[p]
    BY <1>2, <1>6, LinksInside DEF GInv, NoTopologyApart
  <2>2. children'[NoTopology] = {}
    BY <1>2, <1>6, <1>9, LinksInside
  <2>3. NoInstance \in Vertices /\ NoInstance \notin Instances \cup Switches
    BY DEF Vertices, Parents
  <2>4. NoInstance \notin forest' /\ \A s \in Switches : NoInstance \notin children'[s]
    BY <1>2, <1>3, <1>7, <2>3, LinksInside DEF GInv, NoTopologyApart
  <2> QED  BY <2>1, <2>2, <2>4 DEF NoTopologyApart
<1>13. FollowsUp'
  <2> SUFFICES ASSUME faithful'
               PROVE  /\ \A p \in Switches : \A c \in children'[p] : Up[c] = p
                      /\ \A t \in forest' \ {NoTopology} : Up[t] = None
    BY DEF FollowsUp
  <2>1. faithful /\ Follows(r)
    BY DEF AddReport
  <2>2. \A c \in Vertices : /\ \A p \in Switches : Link(r, c, p) => Up[c] = p
                            /\ IsTop(r, c) => Up[c] = None
    BY <2>1 DEF Follows
  <2>3. /\ \A p \in Switches : \A c \in children[p] : Up[c] = p
        /\ \A t \in forest \ {NoTopology} : Up[t] = None
    BY <2>1 DEF GInv, FollowsUp
  <2> QED  BY <1>2, <1>3, <1>7, <2>2, <2>3
<1> QED  BY <1>8, <1>10, <1>11, <1>12, <1>13 DEF GInv

\* The switch for the instances without a report keeps the invariant.
LEMMA AddMissingInv == ASSUME GInv, AddMissing PROVE GInv'
<1> USE GraphAssumption
<1>1. /\ phase = "reports" /\ phase' = "built" /\ i2n' = i2n /\ i2n \subseteq Requested \cup {NoInstance}
      /\ children \in [Parents -> SUBSET Vertices] /\ forest \subseteq Vertices
      /\ domains \in [Accelerators -> SUBSET Requested]
      /\ domains' = domains /\ faithful' = faithful
  BY DEF GInv, GraphTypeOK, AddMissing
<1>2. /\ NoTopology \in Parents /\ NoTopology \in Vertices
      /\ \A p \in Parents : p \in Switches \/ p = NoTopology
      /\ \A i \in Instances : i \in Vertices
      /\ \A s \in Switches : s \in Parents /\ s # NoTopology
      /\ Requested \subseteq Vertices /\ NoInstance \in Vertices
  BY DEF Parents, Vertices
<1>3. /\ children' \in [Parents -> SUBSET Vertices]
      /\ children'[NoTopology] = i2n
      /\ \A p \in Parents : p # NoTopology => children'[p] = children[p]
  BY <1>1, <1>2 DEF AddMissing
<1>4. /\ forest' \subseteq Vertices
      /\ i2n = {} => forest' = forest
      /\ i2n # {} => forest' = forest \cup {NoTopology}
  BY <1>1, <1>2 DEF AddMissing
<1>5. /\ \A i \in i2n \cap Instances : i \notin forest /\ \A p \in Parents : i \notin children[p]
      /\ children[NoTopology] = {} /\ NoTopology \notin forest
      /\ \A i \in Requested \ i2n : ReachesRoot(i)
  BY <1>1 DEF GInv, Progress
<1>6. GraphTypeOK'
  BY <1>1, <1>3, <1>4 DEF GInv, GraphTypeOK
<1>7. Progress'
  <2>1. ASSUME NEW i \in i2n PROVE ReachesRoot(i)'
    BY <1>2, <1>3, <1>4 DEF ReachesRoot
  <2>2. ASSUME NEW i \in Requested \ i2n PROVE ReachesRoot(i)'
    <3>1. \A p \in Parents : children[p] \subseteq children'[p]
      BY <1>3, <1>5
    <3>2. forest \subseteq forest'
      BY <1>4
    <3>3. ReachesRoot(i) /\ i \in Vertices
      BY <1>2, <1>5
    <3> QED  BY <3>1, <3>2, <3>3, ReachesRootGrows DEF GInv
  <2> QED  BY <1>1, <2>1, <2>2 DEF Progress
<1>8. NoNodeTwice'
  <2>1. ASSUME NEW i \in Instances, NEW p \in Parents \cup {TreeRoot},
               NEW q \in Parents \cup {TreeRoot}, Below(i, p)', Below(i, q)'
        PROVE  p = q
    <3>1. i \in forest' => i \in forest
      BY <1>4
    <3>2. CASE i \in i2n
      BY <1>2, <1>3, <1>5, <2>1, <3>1, <3>2 DEF Below
    <3>3. CASE i \notin i2n
      <4>1. Below(i, p) /\ Below(i, q)
        BY <1>2, <1>3, <2>1, <3>1, <3>3 DEF Below
      <4> QED  BY <4>1 DEF GInv, NoNodeTwice
    <3> QED  BY <3>2, <3>3
  <2> QED  BY <1>1, <2>1 DEF GInv, NoNodeTwice
<1>9. NoTopologyApart'
  <2>1. NoInstance # NoTopology /\ NoTopology \notin i2n
    BY <1>1 DEF Parents
  <2> QED  BY <1>1, <1>2, <1>3, <1>4, <2>1 DEF GInv, NoTopologyApart
<1>10. FollowsUp'
  BY <1>1, <1>2, <1>3, <1>4 DEF GInv, FollowsUp
<1> QED  BY <1>6, <1>7, <1>8, <1>9, <1>10 DEF GInv

\* A switch that a report names leads to the top of the report.
LEMMA SwitchReachesTop ==
    ASSUME NEW r \in Reports, NEW c, NEW p, Link(r, c, p)
    PROVE  /\ p \in Switches
           /\ \/ IsTop(r, p)
              \/ \E a \in Switches :
                    /\ Link(r, p, a)
                    /\ IsTop(r, a) \/ \E b \in Switches : Link(r, a, b) /\ IsTop(r, b)
<1>1. \A k \in Present(r) : k \in 1..3 /\ r.sw[k] \in Switches /\ At(r, k) = r.sw[k]
                            /\ k \in Steps(r)
  BY DEF Present, Reports, At, Steps
<1>2. PICK k \in Present(r) : p = At(r, k) /\ k > 0
  BY <1>1 DEF Link
<1>3. ASSUME NEW j \in Present(r)
      PROVE  \/ IsTop(r, r.sw[j])
             \/ \E m \in Present(r) : Link(r, r.sw[j], r.sw[m]) /\ j < m
  <2>1. CASE \A m \in Present(r) : m <= j
    BY <1>1, <2>1 DEF IsTop
  <2>2. CASE \E m \in Present(r) : ~(m <= j)
    <3>1. PICK m \in Present(r) : NextTier(r, j, m)
      BY <1>1, <2>2 DEF NextTier
    <3>2. j < m /\ Link(r, r.sw[j], r.sw[m])
      BY <1>1, <3>1 DEF Link, NextTier
    <3> QED  BY <3>2
  <2> QED  BY <2>1, <2>2
<1>4. CASE ~IsTop(r, p)
  <2>1. PICK m \in Present(r) : Link(r, p, r.sw[m]) /\ k < m
    BY <1>1, <1>2, <1>3, <1>4
  <2>2. CASE ~IsTop(r, r.sw[m])
    <3>1. PICK n \in Present(r) : Link(r, r.sw[m], r.sw[n]) /\ m < n
      BY <1>3, <2>2
    <3>2. n = 3 /\ \A j \in Present(r) : ~(n < j)
      BY <1>1, <1>2, <2>1, <3>1
    <3>3. IsTop(r, r.sw[n])
      BY <1>3, <3>2
    <3>4. r.sw[m] \in Switches /\ r.sw[n] \in Switches
      BY <1>1
    <3> QED  BY <1>1, <1>2, <2>1, <3>1, <3>3, <3>4
  <2> QED  BY <1>1, <1>2, <2>1, <2>2
<1> QED  BY <1>1, <1>2, <1>4

\* A report puts every switch it names into the tree.
LEMMA AddReportGrow ==
    ASSUME GInv, GrowInv, NEW r \in Reports, AddReport(r)
    PROVE  GrowInv'
<1> USE GraphAssumption
<1>1. /\ children \in [Parents -> SUBSET Vertices] /\ forest \subseteq Vertices
      /\ \A s \in Switches : s \in Parents /\ s \in Vertices
      /\ \A p \in Parents : p \in Vertices
  BY DEF GInv, GraphTypeOK, Parents, Vertices
<1>2. /\ \A p \in Parents : \A c \in Vertices :
             c \in children'[p] <=> c \in children[p] \/ Link(r, c, p)
      /\ \A p \in Parents : children'[p] \subseteq Vertices /\ children[p] \subseteq children'[p]
  BY <1>1 DEF AddReport
<1>3. /\ \A t \in Vertices : t \in forest' <=> t \in forest \/ IsTop(r, t)
      /\ forest \subseteq forest'
  BY <1>1 DEF AddReport, Roots
<1>4. ASSUME NEW p \in Parents, children'[p] # {} PROVE ReachesRoot(p)'
  <2>1. CASE children[p] # {}
    BY <1>1, <1>2, <1>3, <2>1, ReachesRootGrows DEF GrowInv, GInv
  <2>2. CASE children[p] = {}
    <3>1. PICK c \in Vertices : Link(r, c, p)
      BY <1>2, <1>4, <2>2
    <3>2. \/ p \in forest'
          \/ \E a \in Switches :
                /\ p \in children'[a]
                /\ a \in forest' \/ \E b \in Switches : a \in children'[b] /\ b \in forest'
      BY <1>1, <1>2, <1>3, <3>1, SwitchReachesTop
    <3> QED  BY <1>1, <3>2 DEF ReachesRoot
  <2> QED  BY <2>1, <2>2
<1> QED  BY <1>4 DEF GrowInv

\* The switch for instances without a report is in the tree, too.
LEMMA AddMissingGrow == ASSUME GInv, GrowInv, AddMissing PROVE GrowInv'
<1> USE GraphAssumption
<1>1. /\ children \in [Parents -> SUBSET Vertices] /\ forest \subseteq Vertices
      /\ \A p \in Parents : p \in Vertices
      /\ NoTopology \in Parents /\ children[NoTopology] = {}
  BY DEF GInv, GraphTypeOK, Parents, Vertices, AddMissing, Progress
<1>2. /\ children'[NoTopology] = i2n
      /\ \A p \in Parents : p # NoTopology => children'[p] = children[p]
      /\ \A p \in Parents : children[p] \subseteq children'[p]
      /\ forest \subseteq forest' /\ (i2n # {} => NoTopology \in forest')
  BY <1>1 DEF AddMissing
<1>3. ASSUME NEW p \in Parents, children'[p] # {} PROVE ReachesRoot(p)'
  <2>1. CASE p = NoTopology
    BY <1>2, <1>3, <2>1 DEF ReachesRoot
  <2>2. CASE p # NoTopology
    BY <1>1, <1>2, <1>3, <2>2, ReachesRootGrows DEF GrowInv, GInv
  <2> QED  BY <2>1, <2>2
<1> QED  BY <1>3 DEF GrowInv

\* A graph without switches.
LEMMA GraphInitGrow == GraphInit => GrowInv
BY DEF GraphInit, GrowInv

\* A switch that a report names has something below it.
LEMMA SwitchHasChild ==
    ASSUME NEW r \in Reports, NEW c \in Switches, IsTop(r, c) \/ \E p : Link(r, c, p)
    PROVE  \E b \in Vertices : Link(r, b, c)
<1> USE GraphAssumption
<1>1. \A k \in Present(r) : k \in 1..3 /\ r.sw[k] \in Switches /\ At(r, k) = r.sw[k]
  BY DEF Present, Reports, At
<1>2. At(r, 0) = r.id /\ r.id \in Instances /\ 0 \in Steps(r)
  BY DEF At, Reports, Steps
<1>3. PICK j \in Steps(r) : c = At(r, j)
  BY DEF Link, IsTop
<1>4. j \in Present(r) /\ j \in 1..3
  BY <1>1, <1>2, <1>3 DEF Steps
<1>5. PICK m \in Steps(r) : NextTier(r, m, j)
  <2>1. \A k \in Present(r) : k \in Steps(r)
    BY DEF Steps
  <2>2. CASE ~\E k \in Present(r) : 0 < k /\ k < j
    BY <1>2, <1>4, <2>2 DEF NextTier
  <2>3. CASE \E k \in Present(r) : 0 < k /\ k < j
    <3>1. PICK k \in Present(r) : 0 < k /\ k < j
      BY <2>3
    <3>2. CASE ~\E l \in Present(r) : k < l /\ l < j
      BY <1>4, <2>1, <3>1, <3>2 DEF NextTier
    <3>3. CASE \E l \in Present(r) : k < l /\ l < j
      <4>1. PICK l \in Present(r) : k < l /\ l < j
        BY <3>3
      <4>2. l = 2 /\ j = 3
        <5>1. k \in 1..3 /\ l \in 1..3
          BY <1>1
        <5> QED  BY <1>4, <3>1, <4>1, <5>1
      <4>3. \A m \in Present(r) : ~(l < m /\ m < j)
        BY <1>1, <4>2
      <4> QED  BY <2>1, <4>1, <4>3 DEF NextTier
    <3> QED  BY <3>2, <3>3
  <2> QED  BY <2>2, <2>3
<1>6. Link(r, At(r, m), c)
  BY <1>3, <1>4, <1>5 DEF Link
<1> QED  BY <1>6, LinksInside DEF Vertices, Parents

\* Reports and the switch for instances without one keep it so.
LEMMA GraphStepFilled ==
    ASSUME GInv, FilledInv, (\E r \in Reports : AddReport(r)) \/ AddMissing
    PROVE  FilledInv'
<1> USE GraphAssumption
<1>1. /\ children \in [Parents -> SUBSET Vertices] /\ forest \subseteq Vertices
      /\ \A p \in Parents : p \in Vertices /\ (p \in Switches \/ p = NoTopology)
      /\ NoTopology \in Parents
  BY DEF GInv, GraphTypeOK, Parents, Vertices
<1>2. ASSUME NEW r \in Reports, AddReport(r) PROVE FilledInv'
  <2>1. \A p \in Parents : \A c \in Vertices :
            c \in children'[p] <=> c \in children[p] \/ Link(r, c, p)
    BY <1>1, <1>2 DEF AddReport
  <2>2. \A t \in Vertices : t \in forest' <=> t \in forest \/ IsTop(r, t)
    BY <1>1, <1>2 DEF AddReport, Roots
  <2>3. ASSUME NEW p \in Parents, p \in forest' \/ \E q \in Parents : p \in children'[q]
        PROVE  children'[p] # {}
    <3>1. CASE p \in forest \/ \E q \in Parents : p \in children[q]
      <4>1. PICK c \in Vertices : c \in children[p]
        BY <1>1, <3>1 DEF FilledInv
      <4> QED  BY <2>1, <4>1
    <3>2. CASE IsTop(r, p) \/ \E q \in Parents : Link(r, p, q)
      <4>1. p \in Switches
        BY <3>2, LinksInside, <1>1
      <4>2. PICK b \in Vertices : Link(r, b, p)
        BY <3>2, <4>1, SwitchHasChild
      <4> QED  BY <2>1, <4>2
    <3> QED  BY <1>1, <2>1, <2>2, <2>3, <3>1, <3>2
  <2> QED  BY <2>3 DEF FilledInv
<1>3. CASE AddMissing
  <2>1. /\ children'[NoTopology] = i2n /\ children[NoTopology] = {} /\ NoTopology \notin forest
        /\ \A p \in Parents : p # NoTopology => children'[p] = children[p]
        /\ \A p \in Parents : NoTopology \notin children[p]
        /\ i2n \subseteq Instances \cup {NoInstance}
        /\ \A p \in forest' : p \in forest \/ (p = NoTopology /\ i2n # {})
    BY <1>1, <1>3 DEF AddMissing, GInv, Progress, NoTopologyApart, GraphTypeOK
  <2>2. ASSUME NEW p \in Parents, p \in forest' \/ \E q \in Parents : p \in children'[q]
        PROVE  children'[p] # {}
    <3>1. CASE p = NoTopology
      BY <1>1, <2>1, <2>2, <3>1
    <3>2. CASE p # NoTopology
      <4>1. p \notin Instances \cup {NoInstance}
        BY <1>1, <3>2
      <4>2. p \in forest \/ \E q \in Parents : p \in children[q]
        BY <1>1, <2>1, <2>2, <3>2, <4>1
      <4> QED  BY <2>1, <3>2, <4>2 DEF FilledInv
    <3> QED  BY <3>1, <3>2
  <2> QED  BY <2>2 DEF FilledInv
<1> QED  BY <1>2, <1>3

\* The invariant holds whatever is reported (ToThreeTierGraph).
THEOREM GraphInvariance == GraphSpec => []GInv
<1>1. GInv /\ [GraphNext]_graphVars => GInv'
  <2> SUFFICES ASSUME GInv, [GraphNext]_graphVars PROVE GInv'
    OBVIOUS
  <2>1. ASSUME NEW r \in Reports, AddReport(r) PROVE GInv'
    BY <2>1, AddReportInv
  <2>2. CASE AddMissing
    BY <2>2, AddMissingInv
  <2>3. CASE UNCHANGED graphVars
    BY <2>3 DEF graphVars, GInv, GraphTypeOK, Progress, NoNodeTwice,
                NoTopologyApart, FollowsUp, ReachesRoot, Below
  <2> QED  BY <2>1, <2>2, <2>3 DEF GraphNext, FaithfulReports
<1> QED  BY <1>1, GraphInitInv, PTL DEF GraphSpec

\* No requested node is missing from the tree, whatever the reports say.
THEOREM NodesPlaced == GraphSpec => []EveryNodePlaced
<1>1. GInv => EveryNodePlaced
  BY DEF GInv, GraphTypeOK, Progress, EveryNodePlaced
<1> QED  BY <1>1, GraphInvariance, PTL

\* No node has two places or two accelerator domains, whatever the reports say.
THEOREM NodesPlacedOnce == GraphSpec => []NoNodeTwice
<1>1. GInv => NoNodeTwice
  BY DEF GInv
<1> QED  BY <1>1, GraphInvariance, PTL

\* Reports that agree on a fabric, of any size, give a tree.
THEOREM AgreeingReportsGiveTree == GraphSpec => []TreeIfFaithful
<1>1. GInv => TreeIfFaithful
  <2> SUFFICES ASSUME GInv, faithful
               PROVE  /\ \A v \in Vertices : \A p, q \in Parents \cup {TreeRoot} :
                             Below(v, p) /\ Below(v, q) => p = q
                      /\ \A s, p \in Switches : s \in children[p] => Tier[s] < Tier[p]
    BY DEF TreeIfFaithful
  <2> USE GraphAssumption
  <2>1. /\ \A p \in Switches : \A c \in children[p] : Up[c] = p
        /\ \A t \in forest \ {NoTopology} : Up[t] = None
    BY DEF GInv, FollowsUp
  <2>2. ASSUME NEW v \in Vertices, NEW p \in Parents \cup {TreeRoot},
               NEW q \in Parents \cup {TreeRoot}, Below(v, p), Below(v, q)
        PROVE  p = q
    <3>1. CASE v \in Instances
      BY <2>2, <3>1 DEF GInv, NoNodeTwice
    <3>2. CASE v \in Switches
      <4>1. v \notin children[NoTopology]
        BY <3>2 DEF GInv, NoTopologyApart, Parents
      <4> QED  BY <2>1, <2>2, <3>2, <4>1 DEF Below, Parents, Vertices
    <3>3. CASE v = NoTopology
      BY <2>2, <3>3 DEF Below, GInv, NoTopologyApart
    <3>4. CASE v = NoInstance
      <4>1. \A w \in Parents \cup {TreeRoot} : Below(v, w) => w = NoTopology
        BY <3>4 DEF Below, GInv, NoTopologyApart, Parents
      <4> QED  BY <2>2, <4>1
    <3> QED  BY <3>1, <3>2, <3>3, <3>4 DEF Vertices, Parents
  <2>3. \A s, p \in Switches : s \in children[p] => Tier[s] < Tier[p]
    BY <2>1, FabricAssumption DEF Vertices, Parents
  <2> QED  BY <2>2, <2>3
<1> QED  BY <1>1, GraphInvariance, PTL
=============================================================================
