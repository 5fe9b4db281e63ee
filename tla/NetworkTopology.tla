-------------------------- MODULE NetworkTopology --------------------------
(***************************************************************************)
(* pkg/translate: the graph of ThreeTierGraph becomes the topology of the  *)
(* Slurm configuration, either a tree (tree.go) or blocks (block.go and    *)
(* fake.go).  NewNetworkTopology walks the graph twice, Generate walks the *)
(* result; each round of each loop is one action.  Where the code ranges   *)
(* over a map, any order may come up.                                      *)
(***************************************************************************)
EXTENDS ThreeTierGraph, BlockSizes

CONSTANTS
    Plugins,        \* values of the plugin parameter
    SizeRequests,   \* values of the block_sizes parameter
    PoolSizes,      \* numbers of fake nodes; 0 if fake nodes are not enabled
    Orders          \* orders the IDs may have as strings

VARIABLES
    plugin, blockSizes, pool,   \* nt.config
    order,      \* how sort.Strings orders IDs
    work,       \* the queue of initTree, toTreeTopology and toBlockTopology,
                \* the stack of initBlocks
    tree,       \* nt.tree
    blockID,    \* nt.nodeInfo: the block of a node
    blockIndx,  \* nt.nodeInfo: the index of the block of a node, 0 if nil
    blocks,     \* nt.blocks
    written,    \* the lines of a switch: how many name switches, how many nodes
    lines,      \* block lines: the block and its range of fake nodes
    index       \* fnc.index

configVars == <<plugin, blockSizes, pool, order>>
inputVars  == <<i2n, children, forest, domains, faithful>>
infoVars   == <<blockID, blockIndx, blocks>>
outVars    == <<written, lines, index>>
topoVars   == <<graphVars, configVars, work, tree, infoVars, outVars>>

All == Vertices \cup {TreeRoot}

\* v.Vertices
Kids(v) ==
    IF v = TreeRoot THEN forest ELSE IF v \in Parents THEN children[v] ELSE {}

SwitchesBelow(v) == {w \in Kids(v) : Kids(w) # {}}
NodesBelow(v)    == {w \in Kids(v) : Kids(w) = {}}

\* The key of a vertex in nt.tree and nt.vertices.  The ID of the root is the
\* empty string, and so is that of a node without an instance ID.
ID(v) == IF v = NoInstance THEN TreeRoot ELSE v

\* The blocks that DomainMap.ToBlocks makes.
Domains == {a \in Accelerators : domains[a] # {}}

\* What orders, pools and block sizes are.  The IDs of vertices are different
\* strings, and one of the two comes first, the empty one before all.
ASSUME TopoAssumption ==
    /\ IsFiniteSet(Vertices)
    /\ \A o \in Orders : /\ o \in [Vertices -> Nat]
                         /\ \A v, w \in Vertices : o[v] = o[w] => v = w
                         /\ \A v \in Vertices : o[NoInstance] <= o[v]
    /\ PoolSizes \subseteq Nat
    /\ \A sizes \in SizeRequests : sizes \in Seq(Int)

\* sort.Strings: the k-th element is the one with fewer than k smaller ones and
\* at least k that are not greater, counting repetitions.
Sorted(s, key) ==
    [k \in DOMAIN s |->
        CHOOSE x \in ToSet(s) :
            /\ Cardinality({j \in DOMAIN s : key[s[j]] < key[x]}) < k
            /\ k <= Cardinality({j \in DOMAIN s : key[s[j]] <= key[x]})]

\* The same for the keys of a map.
SortedSet(S, key) ==
    [k \in 1..Cardinality(S) |->
        CHOOSE x \in S : Cardinality({y \in S : key[y] < key[x]}) = k - 1]

NoLines == [switches |-> 0, nodes |-> 0]

TopoInit ==
    /\ GraphInit
    /\ plugin = "none"
    /\ blockSizes = <<>>
    /\ pool = 0
    /\ order \in Orders
    /\ work = <<>>
    /\ tree = [v \in All |-> <<>>]
    /\ blockID = [i \in Instances |-> None]
    /\ blockIndx = [i \in Instances |-> 0]
    /\ blocks = <<>>
    /\ written = [v \in All |-> NoLines]
    /\ lines = <<>>
    /\ index = 0

Build ==
    /\ phase = "reports"
    /\ GraphNext
    /\ UNCHANGED <<configVars, work, tree, infoVars, outVars>>

\* GetTranslateConfig: the parameters of the request.  Only the block plugin
\* looks at the sizes, and fake nodes are for it alone.  Asking Slurm for them
\* can fail.
GetTranslateConfig ==
    /\ phase = "built"
    /\ plugin' \in Plugins
    /\ blockSizes' \in IF plugin' = "block" THEN SizeRequests ELSE {<<>>}
    /\ pool' \in IF plugin' = "block" THEN PoolSizes ELSE {0}
    /\ phase' = "config" \/ (pool' > 0 /\ phase' = "rejected")
    /\ UNCHANGED <<inputVars, order, work, tree, infoVars, outVars>>

\* Validate: the plugin is known, the graph has a tree in any case, and blocks
\* if a report named an accelerator.
Validate ==
    /\ phase = "config"
    /\ phase' = IF plugin = "tree" \/ (plugin = "block" /\ Domains # {})
                THEN "initTree" ELSE "rejected"
    /\ work' = <<TreeRoot>>
    /\ UNCHANGED <<inputVars, configVars, tree, infoVars, outVars>>


\* initTree: the first vertex of the queue.  A vertex that is reached twice
\* lists its children twice.  A node without an instance ID finds the entry of
\* the root and adds nothing, not even to nt.nodeInfo.
initTree ==
    /\ phase = "initTree"
    /\ work # <<>>
    /\ \E s \in SetToSeqs(Kids(Head(work))) :
           /\ work' = Tail(work) \o s
           /\ tree' = [tree EXCEPT ![ID(Head(work))] = @ \o s]
    /\ UNCHANGED <<graphVars, configVars, infoVars, outVars>>

\* The end of initTree, and the block IDs with which initBlocks begins.
setBlockIDs ==
    /\ phase = "initTree"
    /\ work = <<>>
    /\ phase' = "initBlocks"
    /\ tree' = [v \in All |-> Sorted(tree[v], order)]
    /\ blockID' = [i \in Instances |->
                      IF \E a \in Domains : i \in domains[a]
                      THEN CHOOSE a \in Domains : i \in domains[a]
                      ELSE None]
    /\ work' = IF Domains = {} THEN <<>> ELSE <<TreeRoot>>
    /\ UNCHANGED <<inputVars, configVars, blockIndx, blocks, outVars>>

\* Mutant: only the node that was found gets the index.
markOneNode(v) ==
    /\ blocks' = Append(blocks, blockID[v])
    /\ blockIndx' = [blockIndx EXCEPT ![v] = Len(blocks) + 1]

\* markBlockNodes: the block of v is the next one, for all its nodes.
markBlockNodes(v) ==
    /\ blocks' = Append(blocks, blockID[v])
    /\ blockIndx' = [i \in Instances |->
                        IF i \in domains[blockID[v]] THEN Len(blocks) + 1
                        ELSE blockIndx[i]]

\* Mutant: a queue in the place of the stack.
enqueue(s) == Tail(work) \o s

\* The children, sorted, are put in front one by one.
push(s) == Reverse(s) \o Tail(work)

\* initBlocks: the first vertex of the stack.
initBlocks ==
    /\ phase = "initBlocks"
    /\ work # <<>>
    /\ LET v == Head(work)
       IN  /\ work' = push(SortedSet(Kids(v), order))
           /\ IF v \in Instances /\ blockID[v] # None /\ blockIndx[v] = 0
              THEN markBlockNodes(v)
              ELSE UNCHANGED <<blocks, blockIndx>>
    /\ UNCHANGED <<graphVars, configVars, tree, blockID, outVars>>

----------------------------------------------------------------------------
(* Generate.                                                                *)

\* Without topologies for partitions, the plugin decides.
StartOutput ==
    /\ phase = "initBlocks"
    /\ work = <<>>
    /\ plugin # "none"
    /\ phase' = plugin
    /\ work' = IF plugin = "tree" THEN <<TreeRoot>> ELSE blocks
    /\ UNCHANGED <<inputVars, configVars, tree, infoVars, outVars>>

\* writeVertex: a line for the switches directly below, a line for the nodes
\* directly below, and none for what has no ID.
writeVertex(v) ==
    written' = [written EXCEPT ![v] =
        [switches |-> IF v # TreeRoot /\ SwitchesBelow(v) # {} THEN @.switches + 1 ELSE @.switches,
         nodes    |-> IF v # TreeRoot /\ NodesBelow(v) # {} THEN @.nodes + 1 ELSE @.nodes]]

\* toTreeTopology: the first ID of the queue.  If that is the empty one of a
\* node, everything below the root is queued again, the node itself too: the
\* walk goes round for ever.
toTreeTopology ==
    /\ phase = "tree"
    /\ work # <<>>
    /\ writeVertex(Head(work))
    /\ IF Head(work) # TreeRoot /\ ID(Head(work)) = TreeRoot
       THEN phase' = "endless" /\ UNCHANGED work
       ELSE work' = Tail(work) \o tree[Head(work)] /\ UNCHANGED phase
    /\ UNCHANGED <<inputVars, configVars, tree, infoVars, lines, index>>

Size(a) == Cardinality(domains[a])

\* finalBlockSizes[0], also fnc.baseBlockSize
baseBlockSize ==
    getBlockSize([k \in DOMAIN blocks |-> Size(blocks[k])], blockSizes, pool > 0)[1]

\* Mutant: the index does not move on.
getFakeNodesAgain(count) ==
    /\ index + count <= pool
    /\ lines' = Append(lines, [block |-> Head(work), from |-> index, to |-> index + count])
    /\ UNCHANGED index

\* getFreeFakeNodes: fnc.nodes[start:end]
getFreeFakeNodes(count) ==
    /\ index + count <= pool
    /\ lines' = Append(lines, [block |-> Head(work), from |-> index, to |-> index + count])
    /\ index' = index + count

\* How many fake nodes the block needs.
Lacking(a) == IF pool > 0 /\ Size(a) < baseBlockSize THEN baseBlockSize - Size(a) ELSE 0

\* toBlockTopology: the next block, or the error when the fake nodes run out.
toBlockTopology ==
    /\ phase = "block"
    /\ work # <<>>
    /\ \/ /\ getFreeFakeNodes(Lacking(Head(work)))
          /\ work' = Tail(work)
          /\ UNCHANGED phase
       \/ /\ index + Lacking(Head(work)) > pool
          /\ phase' = "failed"
          /\ UNCHANGED <<work, lines, index>>
    /\ UNCHANGED <<inputVars, configVars, tree, infoVars, written>>

Finish ==
    /\ phase \in {"tree", "block"}
    /\ work = <<>>
    /\ phase' = "done"
    /\ UNCHANGED <<inputVars, configVars, work, tree, infoVars, outVars>>

TopoNext ==
    \/ Build \/ GetTranslateConfig \/ Validate \/ initTree \/ setBlockIDs \/ initBlocks
    \/ StartOutput \/ toTreeTopology \/ toBlockTopology \/ Finish

TopoSpec == TopoInit /\ [][TopoNext]_topoVars

----------------------------------------------------------------------------
(* Properties.                                                              *)

DoneWith(p) == phase = "done" /\ plugin = p

\* The tree output has every connection once: a switch with switches below it
\* has one line that names them, and a switch with nodes below it one line that
\* names these (initTree, toTreeTopology, writeVertex).
ConnectionsWrittenOnce ==
    DoneWith("tree") /\ faithful =>
        \A s \in Parents :
            /\ written[s].switches = IF SwitchesBelow(s) = {} THEN 0 ELSE 1
            /\ written[s].nodes = IF NodesBelow(s) = {} THEN 0 ELSE 1

\* The block output has one line for every accelerator domain, and the index of
\* a node is the position of the line of its block, which the per-partition
\* output relies on (initBlocks, markBlockNodes, toBlockTopology).
OneLinePerDomain ==
    DoneWith("block") =>
        /\ {lines[k].block : k \in DOMAIN lines} = Domains
        /\ Len(lines) = Cardinality(Domains)
        /\ \A k \in DOMAIN lines : \A i \in domains[lines[k].block] : blockIndx[i] = k

\* Every block line has at least as many nodes as the base size, counting fake
\* nodes, and no fake node is in two lines (toBlockTopology, getFreeFakeNodes).
BlocksFilled ==
    DoneWith("block") /\ baseBlockSize > 0 =>
        /\ \A k \in DOMAIN lines :
               Size(lines[k].block) + lines[k].to - lines[k].from >= baseBlockSize
        /\ \A k, l \in DOMAIN lines : k < l => lines[k].to <= lines[l].from

\* The instances below v; three tiers are below the root.
Under(v) ==
    LET below(S) == UNION {Kids(w) : w \in S}
        one == Kids(v)
        two == below(one)
        three == below(two)
    IN  (one \cup two \cup three) \cap Instances

\* Blocks that are near each other in the network are near each other in the
\* output: if the reports agree and no accelerator domain is split between a
\* switch and the rest, the lines of the blocks below the switch are
\* consecutive, as the block plugin aggregates consecutive lines (initBlocks:
\* "sort blocks according to the node appearance in the tree").
NeighboursAdjacent ==
    DoneWith("block") /\ faithful =>
        \A s \in Parents :
            (\A a \in Domains : domains[a] \subseteq Under(s) \/ domains[a] \cap Under(s) = {})
            => \A j, k, l \in DOMAIN blocks :
                   /\ j < k /\ k < l
                   /\ domains[blocks[j]] \subseteq Under(s)
                   /\ domains[blocks[l]] \subseteq Under(s)
                   => domains[blocks[k]] \subseteq Under(s)

=============================================================================
