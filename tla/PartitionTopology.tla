------------------------- MODULE PartitionTopology -------------------------
(***************************************************************************)
(* pkg/translate/yaml.go: a topology of its own for each Slurm partition,  *)
(* in one YAML document.  NewNetworkTopology is that of NetworkTopology;   *)
(* each partition then gets the part of the tree, or of the blocks, that   *)
(* its nodes are in.                                                       *)
(*                                                                         *)
(* A section of the `topologies' parameter is a record: the plugin, the    *)
(* block sizes, the nodes if they are given, the name of the partition in  *)
(* Slurm, and whether it is the default of the cluster.  A unit of the     *)
(* output has the switches of a tree or the nodes of blocks as its lines.  *)
(***************************************************************************)
EXTENDS NetworkTopology

CONSTANTS
    Sections,        \* values of the topologies parameter
    Discovered       \* what Slurm says of a partition: a set of node names

ASSUME SectionsAssumption ==
    \A sects \in Sections : \A t \in DOMAIN sects : sects[t].sizes \in Seq(Int)

VARIABLES
    topologies,  \* nt.config.Topologies
    todo,        \* names of topologies without a unit yet
    unit,        \* the name of the topology whose tree is written
    subtree,     \* the pruned tree for it
    units        \* the output

yamlVars      == <<topologies, todo, unit, subtree, units>>
partitionVars == <<topoVars, yamlVars>>

NoUnit == [plugin |-> "none", lines |-> <<>>, sizes |-> <<>>]

PartitionInit ==
    /\ TopoInit
    /\ topologies = <<>>
    /\ todo = {}
    /\ unit = None
    /\ subtree = [v \in All |-> <<>>]
    /\ units = <<>>

ClusterStep == TopoNext /\ UNCHANGED yamlVars

----------------------------------------------------------------------------
(* Parameters.                                                              *)

\* Only a flat default of the cluster does without nodes.
NeedsSlurm(sect) ==
    /\ sect.nodes = {}
    /\ ~(sect.default /\ sect.plugin = "flat" /\ sect.partition = None)

\* GetTranslateConfig for topologies.  A section without nodes or partition is
\* an error, and so is one whose partition Slurm does not show.
GetTopologies ==
    /\ phase = "built"
    /\ plugin' \in {"none", "tree"}
    /\ \E sects \in Sections :
           \/ /\ \A t \in DOMAIN sects : NeedsSlurm(sects[t]) => sects[t].partition # None
              /\ phase' = "topologies"
              /\ topologies' = [t \in DOMAIN sects |->
                                   [plugin |-> sects[t].plugin, sizes |-> sects[t].sizes,
                                    nodes  |-> IF NeedsSlurm(sects[t])
                                               THEN Discovered[sects[t].partition]
                                               ELSE sects[t].nodes]]
           \/ /\ \E t \in DOMAIN sects : NeedsSlurm(sects[t])
              /\ phase' = "rejected"
              /\ UNCHANGED topologies
    /\ UNCHANGED <<inputVars, blockSizes, pool, order, work, tree, infoVars, outVars,
                   todo, unit, subtree, units>>

\* What is wrong with a topology.
Invalid(spec) ==
    \/ spec.plugin \notin {"tree", "block", "flat"}
    \/ spec.plugin = "block" /\ Domains = {}
    \/ spec.plugin # "flat" /\ spec.nodes = {}

\* Validate: plugin and topologies exclude each other.
ValidateTopologies ==
    /\ phase = "topologies"
    /\ phase' = IF plugin # "none" \/ \E t \in DOMAIN topologies : Invalid(topologies[t])
                THEN "rejected" ELSE "initTree"
    /\ work' = <<TreeRoot>>
    /\ UNCHANGED <<inputVars, configVars, tree, infoVars, outVars, yamlVars>>

----------------------------------------------------------------------------
(* Units.                                                                   *)

\* toYamlTopology.
StartYaml ==
    /\ phase = "initBlocks"
    /\ work = <<>>
    /\ plugin = "none"
    /\ phase' = "yaml"
    /\ todo' = DOMAIN topologies
    /\ units' = [t \in DOMAIN topologies |-> NoUnit]
    /\ UNCHANGED <<inputVars, configVars, work, tree, infoVars, outVars, topologies, unit, subtree>>

flatUnit(t) ==
    /\ phase = "yaml"
    /\ t \in todo /\ topologies[t].plugin = "flat"
    /\ units' = [units EXCEPT ![t].plugin = "flat"]
    /\ todo' = todo \ {t}
    /\ UNCHANGED <<topoVars, topologies, unit, subtree>>

\* The nodes in nt.nodeInfo.
nodeInfo == {i \in Instances : \E v \in All : i \in ToSet(tree[v])}

\* The indices of the blocks of a partition, and its nodes in one of them.
\* Nodes that are not known or have no index are left out.
blockMap(spec) == {blockIndx[i] : i \in spec.nodes \cap nodeInfo} \ {0}

\* Mutant: all nodes of the block.
nodesOfBlockAll(spec, k) == {i \in nodeInfo : blockIndx[i] = k}

nodesOfBlock(spec, k) == {i \in spec.nodes \cap nodeInfo : blockIndx[i] = k}

\* getBlockTopologyUnit: blocks are numbered anew, in the order of indices.
getBlockTopologyUnit(t) ==
    /\ phase = "yaml"
    /\ t \in todo /\ topologies[t].plugin = "block"
    /\ LET spec  == topologies[t]
           indx  == SortedSet(blockMap(spec), [k \in DOMAIN blocks |-> k])
           rows == [k \in DOMAIN indx |-> nodesOfBlock(spec, indx[k])]
           sizes == [k \in DOMAIN indx |-> Cardinality(rows[k])]
       IN  units' = [units EXCEPT ![t] = [plugin |-> "block", lines |-> rows,
                                          sizes |-> getBlockSize(sizes, spec.sizes, FALSE)]]
    /\ todo' = todo \ {t}
    /\ UNCHANGED <<topoVars, topologies, unit, subtree>>

\* findRequiredNodes: what is on a path to one of the leaves.  A path has at
\* most three switches, below the root.
findRequiredNodes(leaves) ==
    LET down(S) == S \cup UNION {ToSet(tree[w]) : w \in S}
    IN  {v \in All : down(down(down(down({v})))) \cap leaves # {}}

\* Mutant: children are kept with their parent.
buildSubTreeAll(required, v) == IF v \in required THEN tree[v] ELSE <<>>

\* buildSubTree: the children of v that are required, if v is.
buildSubTree(required, v) ==
    LET kept == {k \in DOMAIN tree[v] : v \in required /\ tree[v][k] \in required}
        pos  == SortedSet(kept, [k \in DOMAIN tree[v] |-> k])
    IN  [n \in DOMAIN pos |-> tree[v][pos[n]]]

\* getTreeTopologyUnit: a node that is not known ends the output.
\* getPartitionTree prunes the tree.  If the empty ID of a node is in the tree,
\* dfs gets from the root to the root and never returns.
getTreeTopologyUnit(t) ==
    /\ phase = "yaml"
    /\ t \in todo /\ topologies[t].plugin = "tree"
    /\ \/ /\ topologies[t].nodes \subseteq nodeInfo
          /\ \A v \in All : NoInstance \notin ToSet(tree[v])
          /\ phase' = "subtree"
          /\ work' = <<TreeRoot>>
          /\ unit' = t
          /\ units' = [units EXCEPT ![t].plugin = "tree"]
          /\ \E required \in {findRequiredNodes(topologies[t].nodes)} :
                 subtree' = [v \in All |-> buildSubTree(required, v)]
       \/ /\ topologies[t].nodes \subseteq nodeInfo
          /\ \E v \in All : NoInstance \in ToSet(tree[v])
          /\ phase' = "endless"
          /\ UNCHANGED <<work, unit, units, subtree>>
       \/ /\ ~(topologies[t].nodes \subseteq nodeInfo)
          /\ phase' = "failed"
          /\ UNCHANGED <<work, unit, units, subtree>>
    /\ UNCHANGED <<inputVars, configVars, tree, infoVars, outVars, topologies, todo>>

\* One ID of the queue.  A vertex without children in the pruned tree is not a
\* key of it; the root, whose ID is empty, is not written.
WriteSwitch ==
    /\ phase = "subtree"
    /\ work # <<>>
    /\ LET v        == Head(work)
           nodes    == topologies[unit].nodes
           connects == subtree[v]
           leaves   == {w \in Kids(v) : Kids(w) = {} /\ w \in nodes}
           switches == {w \in Kids(v) : Kids(w) # {} /\ w \in ToSet(connects)}
       IN  /\ work' = Tail(work) \o connects
           /\ IF v # TreeRoot /\ connects # <<>> /\ leaves \cup switches # {}
              THEN units' = [units EXCEPT ![unit].lines =
                                Append(@, [switch |-> v, children |-> switches, nodes |-> leaves])]
              ELSE UNCHANGED units
    /\ UNCHANGED <<graphVars, configVars, tree, infoVars, outVars, topologies, todo, unit, subtree>>

EndUnit ==
    /\ phase = "subtree"
    /\ work = <<>>
    /\ phase' = "yaml"
    /\ todo' = todo \ {unit}
    /\ unit' = None
    /\ subtree' = [v \in All |-> <<>>]
    /\ UNCHANGED <<inputVars, configVars, work, tree, infoVars, outVars, topologies, units>>

\* All units are marshalled and written.
EndYaml ==
    /\ phase = "yaml"
    /\ todo = {}
    /\ phase' = "done"
    /\ UNCHANGED <<inputVars, configVars, work, tree, infoVars, outVars, yamlVars>>

PartitionNext ==
    \/ ClusterStep \/ GetTopologies \/ ValidateTopologies \/ StartYaml
    \/ \E t \in todo : flatUnit(t) \/ getBlockTopologyUnit(t) \/ getTreeTopologyUnit(t)
    \/ WriteSwitch \/ EndUnit \/ EndYaml

PartitionSpec == PartitionInit /\ [][PartitionNext]_partitionVars

----------------------------------------------------------------------------
(* Properties.                                                              *)

\* The topologies with a unit of the given plugin in a finished output.
Units(p) == {t \in DOMAIN units : phase = "done" /\ units[t].plugin = p}

\* The tree of a partition is the part of the cluster's tree that its nodes are
\* in: one line for each switch above them and none for others, with the same
\* connections, and every node of the partition that is on a switch is on the
\* line of that switch only (getTreeTopologyUnit, findRequiredNodes,
\* buildSubTree).
PartitionTreeExact ==
    faithful => \A t \in Units("tree") :
        LET rows == units[t].lines
            nodes  == topologies[t].nodes
            wanted == {s \in Parents : Under(s) \cap nodes # {}}
        IN  /\ Len(rows) = Cardinality(wanted)
            /\ {rows[k].switch : k \in DOMAIN rows} = wanted
            /\ \A k \in DOMAIN rows :
                   /\ rows[k].children = children[rows[k].switch] \cap wanted
                   /\ rows[k].nodes = children[rows[k].switch] \cap nodes

\* The blocks of a partition are the accelerator domains of the cluster, in the
\* order they have there, with the partition's nodes alone, and each has at
\* least the nodes of the base size (getBlockTopologyUnit).
PartitionBlocksExact ==
    \A t \in Units("block") :
        LET rows == units[t].lines
            nodes  == topologies[t].nodes
        IN  /\ {rows[k] : k \in DOMAIN rows} = {domains[a] \cap nodes : a \in Domains} \ {{}}
            /\ \A k, l \in DOMAIN rows : k < l =>
                   \E b, c \in DOMAIN blocks :
                       b < c /\ rows[k] \subseteq domains[blocks[b]]
                             /\ rows[l] \subseteq domains[blocks[c]]
            /\ \A k \in DOMAIN rows : 0 < units[t].sizes[1]
                                        /\ units[t].sizes[1] <= Cardinality(rows[k])
=============================================================================
