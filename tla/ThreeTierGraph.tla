--------------------------- MODULE ThreeTierGraph ---------------------------
(***************************************************************************)
(* pkg/topology: the graph that ToThreeTierGraph (graph.go) and DomainMap  *)
(* (block.go) build from what a cloud provider reports of each instance:   *)
(* up to three switches above it, and its accelerator domain.              *)
(*                                                                         *)
(* Reports come in any order, name instances nobody asked for, name one    *)
(* twice and leave tiers out.  Nothing in the code asks whether the        *)
(* reports of two instances agree on the switches they share: Up and Tier  *)
(* describe a fabric, and the properties that need agreement assume that   *)
(* every report follows it.                                                *)
(***************************************************************************)
EXTENDS Naturals

CONSTANTS
    Instances,     \* instance IDs a report can be about
    Requested,     \* the instances of the request (cis); they have nodes
    NoInstance,    \* the empty instance ID, which no report is about
    Switches,      \* IDs of switches
    Accelerators,  \* IDs of accelerator domains
    None,          \* the empty string
    NoTopology,    \* the switch for instances without a report
    TreeRoot,      \* the root of the tree
    Up,            \* the fabric: the switch above an instance or a switch
    Tier,          \* the fabric: 1, 2, 3 for block, spine and datacenter
    AnyReports     \* whether reports may contradict the fabric

VARIABLES
    i2n,        \* requested instances that no report named yet
    children,   \* v.Vertices of the switches in `nodes' and of NoTopology
    forest,     \* the vertices below the root of the tree
    domains,    \* domainMap
    phase,      \* "reports", then "built"
    faithful    \* history: every report used so far follows the fabric

graphVars == <<i2n, children, forest, domains, phase, faithful>>

Parents  == Switches \cup {NoTopology}
Vertices == Instances \cup {NoInstance} \cup Parents

ASSUME GraphAssumption ==
    /\ Requested \subseteq Instances
    /\ Instances \cap Switches = {}
    /\ NoTopology \notin Instances \cup Switches
    /\ NoInstance \notin Instances \cup Parents
    /\ None \notin Vertices \cup Accelerators
    /\ TreeRoot \notin Vertices \cup {None}
    /\ AnyReports \in BOOLEAN

ASSUME FabricAssumption ==
    /\ Up \in [Instances \cup Switches -> Switches \cup {None}]
    /\ Tier \in [Switches -> 1..3]
    /\ \A s \in Switches : Up[s] # None => Tier[s] < Tier[Up[s]]

----------------------------------------------------------------------------
(* Reports: InstanceTopology, with the three switch IDs as a function.      *)

Reports == [id : Instances, sw : [1..3 -> Switches \cup {None}],
            accel : Accelerators \cup {None}]

Present(r) == {k \in 1..3 : r.sw[k] # None}

Steps(r) == {0} \cup Present(r)

At(r, k) == IF k = 0 THEN r.id ELSE r.sw[k]

\* Tier k is the next one above tier j that the report names.
NextTier(r, j, k) == j < k /\ ~\E m \in Present(r) : j < m /\ m < k

\* The report puts c directly below p.
Link(r, c, p) ==
    \E j \in Steps(r), k \in Present(r) :
        NextTier(r, j, k) /\ c = At(r, j) /\ p = At(r, k)

\* The report names nothing above t.
IsTop(r, t) ==
    \E j \in Steps(r) : (\A k \in Present(r) : k <= j) /\ t = At(r, j)

\* The report tells what the fabric is above its instance.
Follows(r) ==
    /\ \A k \in Present(r) : Tier[r.sw[k]] = k
    /\ \A c \in Vertices : /\ \A p \in Switches : Link(r, c, p) => Up[c] = p
                           /\ IsTop(r, c) => Up[c] = None

FaithfulReports == {r \in Reports : Follows(r)}

----------------------------------------------------------------------------

\* A node whose instance ID came out empty may be asked for, too.
GraphInit ==
    /\ i2n \in {Requested, Requested \cup {NoInstance}}
    /\ children = [p \in Parents |-> {}]
    /\ forest = {}
    /\ domains = [a \in Accelerators |-> {}]
    /\ phase = "reports"
    /\ faithful = TRUE

\* nodeName, ok := i2n[inst.InstanceID]
Wanted(r) == r.id \in i2n

\* Mutant: the instance stays.
RemainingAll(r) == i2n

\* delete(i2n, inst.InstanceID)
Remaining(r) == i2n \ {r.id}

\* Mutant: every switch of the report becomes a root.
RootsAll(r) == {At(r, k) : k \in Present(r)}

\* forest[instance.ID] after the loop over the switches
Roots(r) == {t \in Vertices : IsTop(r, t)}

\* Mutant: the top of the report is put below itself.
AddReportTopAgain(r) ==
    /\ phase = "reports"
    /\ Wanted(r)
    /\ i2n' = Remaining(r)
    /\ children' = [p \in Parents |->
                        children[p] \cup {c \in Vertices : Link(r, c, p) \/ (IsTop(r, c) /\ c = p)}]
    /\ forest' = forest \cup Roots(r)
    /\ domains' = [a \in Accelerators |->
                      IF a = r.accel THEN domains[a] \cup {r.id} ELSE domains[a]]
    /\ faithful' = (faithful /\ Follows(r))
    /\ UNCHANGED phase

\* One round of the loop over c.Instances.  A report about an instance that
\* was not asked for, or was reported before, changes nothing.
AddReport(r) ==
    /\ phase = "reports"
    /\ Wanted(r)
    /\ i2n' = Remaining(r)
    /\ children' = [p \in Parents |->
                        children[p] \cup {c \in Vertices : Link(r, c, p)}]
    /\ forest' = forest \cup Roots(r)
    /\ domains' = [a \in Accelerators |->
                      IF a = r.accel THEN domains[a] \cup {r.id} ELSE domains[a]]
    /\ faithful' = (faithful /\ Follows(r))
    /\ UNCHANGED phase

\* Mutant: the new switch is not made a root.
AddMissingNotRoot ==
    /\ phase = "reports"
    /\ phase' = "built"
    /\ children' = [children EXCEPT ![NoTopology] = i2n]
    /\ UNCHANGED <<i2n, forest, domains, faithful>>

\* The list ends: what is left in i2n goes below NoTopology.
AddMissing ==
    /\ phase = "reports"
    /\ phase' = "built"
    /\ children' = [children EXCEPT ![NoTopology] = i2n]
    /\ forest' = IF i2n = {} THEN forest ELSE forest \cup {NoTopology}
    /\ UNCHANGED <<i2n, domains, faithful>>

GraphNext ==
    \/ /\ i2n # {}
       /\ \E r \in (IF AnyReports THEN Reports ELSE FaithfulReports) : AddReport(r)
    \/ AddMissing

GraphSpec == GraphInit /\ [][GraphNext]_graphVars

----------------------------------------------------------------------------
(* Properties.                                                              *)

GraphTypeOK ==
    /\ i2n \subseteq Requested \cup {NoInstance}
    /\ children \in [Parents -> SUBSET Vertices]
    /\ forest \subseteq Vertices
    /\ domains \in [Accelerators -> SUBSET Requested]
    /\ phase \in {"reports", "built"}
    /\ faithful \in BOOLEAN

\* v is directly below p, which may be the root of the tree.
Below(v, p) == IF p = TreeRoot THEN v \in forest ELSE v \in children[p]

\* The root is reached from v in at most three steps up.
ReachesRoot(v) ==
    \/ v \in forest
    \/ \E a \in Parents : /\ v \in children[a]
                          /\ \/ a \in forest
                             \/ \E b \in Parents :
                                    /\ a \in children[b]
                                    /\ \/ b \in forest
                                       \/ \E c \in Parents \cap forest : b \in children[c]

\* Every requested instance is in the tree, however contradictory, partial or
\* repetitive the reports are: no node disappears from the cluster's topology,
\* not even one with the empty ID (the loop over c.Instances and the block for
\* i2n in ToThreeTierGraph).
EveryNodePlaced ==
    phase = "built" => \A i \in Requested \cup i2n : ReachesRoot(i)

\* No instance has two places in the tree or two accelerator domains, even if
\* it is reported twice with different switches: delete(i2n, ...) makes the
\* first report win.
NoNodeTwice ==
    /\ \A i \in Instances : \A p, q \in Parents \cup {TreeRoot} :
           Below(i, p) /\ Below(i, q) => p = q
    /\ \A a, b \in Accelerators : domains[a] \cap domains[b] # {} => a = b

\* If the reports agree, the graph is a tree: every vertex has one place and
\* tiers increase on the way up, so that there is no cycle.  initTree and
\* toTreeTopology need this to visit every switch once.
TreeIfFaithful ==
    faithful =>
        /\ \A v \in Vertices : \A p, q \in Parents \cup {TreeRoot} :
               Below(v, p) /\ Below(v, q) => p = q
        /\ \A s, p \in Switches : s \in children[p] => Tier[s] < Tier[p]
=============================================================================
