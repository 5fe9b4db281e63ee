-------------------------- MODULE KubernetesLabels --------------------------
(***************************************************************************)
(* From the reports of a provider to the labels of Kubernetes nodes: the   *)
(* names Normalize (pkg/topology/graph.go) gives to switches, the walk of  *)
(* the graph that computes labels, and the writing of them node by node    *)
(* (pkg/engines/k8s).                                                      *)
(*                                                                         *)
(* Rounds are executions of requests: each builds a graph of its own       *)
(* (ThreeTierGraph) and finds the labels earlier rounds have left.  The    *)
(* label keys are 0 for the accelerator and 1, 2, 3 for block, spine and   *)
(* datacenter (switchNetworkHierarchy).  The value of key 0 is the number  *)
(* in the name of a block, those of the others are IDs of switches.        *)
(***************************************************************************)
EXTENDS ThreeTierGraph, Sequences, FiniteSets

CONSTANTS
    InputReports,  \* what the provider may report
    Alphabet,      \* ranks of the accelerator domains as strings
    LongIDs,       \* IDs of switches of more than 63 characters
    Hash,          \* the hashes of these
    MaxRounds      \* bound: number of executions

VARIABLES
    stage,      \* "graph", "walk", "apply", "done", "failed" or "crashed"
    names,      \* Normalize: switches, from IDs to names (a band and a number)
    counts,     \* Normalize: bandCounts
    stack,      \* the calls of getTreeNodeLabels: in each, the paths to visit
    nodeMap,    \* the labels that were computed
    waiting,    \* nodes of nodeMap that are to be labelled
    labels,     \* the labels of the nodes in Kubernetes
    round,      \* number of the execution
    agreed      \* history: all reports of all rounds follow the fabric

labelVars  == <<stage, names, counts, stack, nodeMap, waiting, labels, round, agreed>>
labelsVars == <<graphVars, labelVars>>

Keys   == 0..3
IDs    == Switches \cup {NoTopology}
Values == (IDs \ LongIDs) \cup {Hash[v] : v \in LongIDs}
Numbers == 1..Cardinality(Accelerators)
NoLabels == [k \in Keys |-> None]
NoNames  == [v \in Switches \cup {None} |-> <<0, 0>>]

ASSUME LabelsAssumption ==
    /\ InputReports \subseteq Reports
    /\ IsFiniteSet(Accelerators) /\ Alphabet \in [Accelerators -> Nat]
    /\ \A a, b \in Accelerators : Alphabet[a] = Alphabet[b] => a = b
    /\ LongIDs \subseteq Switches
    /\ None \notin Values \cup Numbers
    /\ \A v \in LongIDs : Hash[v] \notin IDs /\ \A w \in LongIDs : Hash[v] = Hash[w] => v = w
    /\ MaxRounds \in Nat

\* Instances without an ID are left out: like any other without a report, they
\* would be labelled with NoTopology.
LabelsInit ==
    /\ GraphInit /\ i2n = Requested
    /\ stage = "graph"
    /\ names = NoNames
    /\ counts = [b \in 1..3 |-> 0]
    /\ stack = <<>>
    /\ nodeMap = [i \in Requested |-> NoLabels]
    /\ waiting = {}
    /\ labels = [i \in Requested |-> NoLabels]
    /\ round = 1
    /\ agreed = TRUE

----------------------------------------------------------------------------
(* Normalize.  It runs over all reports, in the order in which they are     *)
(* used afterwards, so that each report is named and used in one step.      *)

\* An ID that has no name gets the next one of its band, the empty one too.
named(st, r, b) ==
    LET id == r.sw[b]
    IN  IF st.names[id] # <<0, 0>> THEN st
        ELSE [names |-> [st.names EXCEPT ![id] = <<b, st.counts[b] + 1>>],
              counts |-> [st.counts EXCEPT ![b] = @ + 1]]

Normalize(r) ==
    LET st == [names |-> names, counts |-> counts]
        new == named(named(named(st, r, 1), r, 2), r, 3)
    IN  names' = new.names /\ counts' = new.counts

UseReport(r) ==
    /\ stage = "graph"
    /\ AddReport(r)
    /\ Normalize(r)
    /\ UNCHANGED <<stage, stack, nodeMap, waiting, labels, round, agreed>>

\* The report is about an instance that is not asked for or has had one.
SkipReport(r) ==
    /\ stage = "graph"
    /\ phase = "reports"
    /\ ~Wanted(r)
    /\ Normalize(r)
    /\ UNCHANGED <<graphVars, stage, stack, nodeMap, waiting, labels, round, agreed>>

EndReports ==
    /\ stage = "graph"
    /\ AddMissing
    /\ agreed' = (agreed /\ faithful)
    /\ UNCHANGED <<stage, names, counts, stack, nodeMap, waiting, labels, round>>

----------------------------------------------------------------------------
(* The labels.                                                              *)

\* Values of more than 63 characters are replaced by a hash.
checkLabel(v) == IF v \in LongIDs THEN Hash[v] ELSE v

AcceleratorOf(i) == {a \in Accelerators : i \in domains[a]}

\* ToBlocks calls the domains block001, block002, ... in the order of their
\* names.  These are short enough for checkLabel.
ToBlocks(a) == Cardinality({b \in Accelerators : domains[b] # {} /\ Alphabet[b] <= Alphabet[a]})

\* getBlockNodeLabels, then the first call of getTreeNodeLabels for the root,
\* whose ID is empty.
getBlockNodeLabels ==
    /\ stage = "graph"
    /\ phase = "built"
    /\ IF \E i \in Requested : \E a, b \in AcceleratorOf(i) : a # b
       THEN stage' = "failed" /\ UNCHANGED <<nodeMap, stack>>
       ELSE /\ stage' = "walk"
            /\ nodeMap' = [i \in Requested |->
                              [k \in Keys |-> IF k = 0 /\ AcceleratorOf(i) # {}
                                              THEN ToBlocks(CHOOSE a \in AcceleratorOf(i) : TRUE)
                                              ELSE None]]
            /\ stack' = <<{<<v>> : v \in forest}>>
    /\ UNCHANGED <<graphVars, names, counts, waiting, labels, round, agreed>>

\* Mutant: the labels count from the top of the path.
pathLabelsFromTop(old, path) ==
    [k \in Keys |-> IF k > 0 /\ k < Len(path) THEN checkLabel(path[Len(path) + 1 - k])
                    ELSE old[k]]

\* layers[1:] are the switches above the node, the nearest first.
pathLabels(old, path) ==
    [k \in Keys |-> IF k > 0 /\ k < Len(path) THEN checkLabel(path[k + 1]) ELSE old[k]]

\* One call of getTreeNodeLabels, for the vertex at the head of the path.  The
\* calls of a loop come in any order, as Go visits maps.  A vertex that is
\* above itself lets the recursion run until the stack overflows.
getTreeNodeLabels(path) ==
    /\ stage = "walk"
    /\ stack # <<>> /\ path \in Head(stack)
    /\ LET v    == Head(path)
           left == <<Head(stack) \ {path}>> \o Tail(stack)
       IN  \/ /\ v \in Requested
              /\ nodeMap' = [nodeMap EXCEPT ![v] = pathLabels(@, path)]
              /\ stack' = left
              /\ UNCHANGED stage
           \/ /\ v \in Parents
              /\ IF \E j \in 2..Len(path) : path[j] = v
                 THEN stage' = "crashed" /\ stack' = <<>>
                 ELSE stack' = <<{<<w>> \o path : w \in children[v]}>> \o left /\ UNCHANGED stage
              /\ UNCHANGED nodeMap
    /\ UNCHANGED <<graphVars, names, counts, waiting, labels, round, agreed>>

\* A loop has visited all it had to.
Return ==
    /\ stage = "walk"
    /\ stack # <<>> /\ Head(stack) = {}
    /\ stack' = Tail(stack)
    /\ UNCHANGED <<graphVars, stage, names, counts, nodeMap, waiting, labels, round, agreed>>

\* The labels are computed; every node is in nodeMap.
BeginApply ==
    /\ stage = "walk"
    /\ stack = <<>>
    /\ stage' = "apply"
    /\ waiting' = Requested
    /\ UNCHANGED <<graphVars, names, counts, stack, nodeMap, labels, round, agreed>>

\* Mutant: only labels that are missing are written.
MergeMissingLabels(old, new) == [k \in Keys |-> IF old[k] = None THEN new[k] ELSE old[k]]

\* maps.Copy(node.Labels, labels)
MergeNodeLabels(old, new) == [k \in Keys |-> IF new[k] # None THEN new[k] ELSE old[k]]

\* Get and Update of a node in one step: an Update of what has changed since
\* the Get is refused, and nobody else writes these labels.
AddNodeLabels(i) ==
    /\ stage = "apply"
    /\ i \in waiting
    /\ waiting' = waiting \ {i}
    /\ labels' = [labels EXCEPT ![i] = MergeNodeLabels(@, nodeMap[i])]
    /\ UNCHANGED <<graphVars, stage, names, counts, stack, nodeMap, round, agreed>>

\* The first node that cannot be labelled ends ApplyNodeLabels.
LabellingFails ==
    /\ stage = "apply"
    /\ waiting # {}
    /\ stage' = "failed"
    /\ UNCHANGED <<graphVars, names, counts, stack, nodeMap, waiting, labels, round, agreed>>

GenerateOutput ==
    /\ stage = "apply"
    /\ waiting = {}
    /\ stage' = "done"
    /\ UNCHANGED <<graphVars, names, counts, stack, nodeMap, waiting, labels, round, agreed>>

\* The next request, or the next attempt.
NextRound ==
    /\ stage \in {"done", "failed", "crashed"}
    /\ round < MaxRounds
    /\ round' = round + 1
    /\ stage' = "graph"
    /\ i2n' = Requested
    /\ children' = [p \in Parents |-> {}]
    /\ forest' = {}
    /\ domains' = [a \in Accelerators |-> {}]
    /\ phase' = "reports"
    /\ faithful' = TRUE
    /\ names' = NoNames
    /\ counts' = [b \in 1..3 |-> 0]
    /\ stack' = <<>>
    /\ nodeMap' = [i \in Requested |-> NoLabels]
    /\ waiting' = {}
    /\ UNCHANGED <<labels, agreed>>

LabelsNext ==
    \/ \E r \in InputReports : UseReport(r) \/ SkipReport(r)
    \/ EndReports \/ getBlockNodeLabels
    \/ \E path \in (IF stack = <<>> THEN {} ELSE Head(stack)) : getTreeNodeLabels(path)
    \/ Return \/ BeginApply \/ LabellingFails \/ GenerateOutput \/ NextRound
    \/ \E i \in Requested : AddNodeLabels(i)

LabelsSpec == LabelsInit /\ [][LabelsNext]_labelsVars

----------------------------------------------------------------------------
(* Properties.                                                              *)

ParentsOf(S) == {p \in Parents : children[p] \cap S # {}}

\* The vertices k steps above an instance.
Above(i, k) ==
    CASE k = 1 -> ParentsOf({i})
      [] k = 2 -> ParentsOf(ParentsOf({i}))
      [] k = 3 -> ParentsOf(ParentsOf(ParentsOf({i})))

\* After an execution that is answered with OK, the labels of every node name
\* switches that are that many steps above it in the graph of this execution,
\* and nodes for which it found a domain have the same accelerator label if and
\* only if they are in the same one; what an earlier execution wrote is left
\* only above the top of the graph, or if there is no domain
\* (getTreeNodeLabels, ToBlocks, MergeNodeLabels).
LabelsCurrent ==
    stage = "done" =>
        \A i \in Requested :
            /\ \A k \in 1..3 :
                   Above(i, k) # {} => labels[i][k] \in {checkLabel(p) : p \in Above(i, k)}
            /\ \A j \in Requested : \A a \in AcceleratorOf(i), b \in AcceleratorOf(j) :
                   labels[i][0] = labels[j][0] <=> a = b

\* The hierarchy that a scheduler reads from the labels is one, at any time:
\* nodes with the same block have the same spine, and nodes with the same spine
\* the same datacenter, if the provider always told the same story, and in
\* spite of executions that ended half way and of nodes that lost their place
\* (ApplyNodeLabels).
LabelsNest ==
    agreed =>
        \A i, j \in Requested : \A k \in 1..2 :
            labels[i][k] = labels[j][k] /\ labels[i][k] \notin {None, NoTopology}
                => labels[i][k + 1] = labels[j][k + 1]

\* The walk overflows the stack only if reports contradict each other
\* (getTreeNodeLabels).
CrashNeedsConflict == stage = "crashed" => ~faithful
=============================================================================
