--------------------------- MODULE FabricDiscovery ---------------------------
(***************************************************************************)
(* The providers that find the fabric themselves: infiniband-bm,           *)
(* infiniband-k8s and cw from ibnetdiscover (pkg/ib, providers/infiniband, *)
(* providers/cw), netq from the device list of a NetQ server               *)
(* (providers/netq).  Each builds levels of switches upwards from the      *)
(* nodes and gives the last level to the merger.                           *)
(*                                                                         *)
(* A fabric is a record: `conn' and `attach' give the switches and the     *)
(* hosts each switch is linked to; `cut' are the switches whose section of *)
(* the ibnetdiscover output is not followed by an empty line; `listed' are *)
(* the devices NetQ knows and `tier' the tiers it gives to switches, one   *)
(* higher than in the code, where -1 is a device that is not classified;   *)
(* `smi' are the lines nvidia-smi prints on a host, without repetitions,   *)
(* and `pods' counts the device-plugin pods on a host, both as they were   *)
(* when they were last asked for.  The test provider reads a model file    *)
(* instead, and its fabrics are models (ModelFiles).                       *)
(***************************************************************************)
EXTENDS SwitchMerger, ModelFiles

CONSTANTS
    Hosts,         \* names of nodes
    Requested,     \* the nodes of the request
    Switches,      \* IDs of switches
    Blocks,        \* names of capacity blocks
    NoID,          \* the empty cluster ID
    Providers,     \* which providers are asked
    Premises,      \* the premises NetQ knows, as sets of devices
    Fabrics        \* the fabrics each of them may meet

VARIABLES
    provider, fabric,   \* the request
    todo,       \* nodes or premises whose turn is to come
    visited,    \* nodeVisited
    seen,       \* the switches in the output that is read
    level,      \* the level that is built last (layer in netq.go)
    unused,     \* switches in no level yet (nodeMap in netq.go)
    found,      \* the nodes below each root vertex, by ID
    roots,      \* the keys of treeRoot.Vertices
    domains,    \* domainMap
    keys,       \* the keys of the root of the result
    missed      \* history: nodes on which ibnetdiscover gave nothing

inputVars  == <<provider, fabric>>
buildVars  == <<givenVars, seen, level, unused>>
resultVars == <<todo, visited, found, roots, domains, keys, missed>>
fabricVars == <<phase, inputVars, buildVars, resultVars, mergerVars>>

IsFabric(f) ==
    /\ f.conn \in [Switches -> SUBSET Switches]
    /\ f.attach \in [Switches -> SUBSET Hosts]
    /\ f.tier \in [Switches -> Nat]
    /\ f.listed \subseteq Ids
    /\ f.cut \subseteq Switches
    /\ \A h \in Hosts : \A l, m \in f.smi[h] : <<l[2], m[2]>> # NoID
    /\ \A r, s \in Switches : r \in f.conn[s] => s \in f.conn[r]

IsModel(m) ==
    /\ m.switches \in Seq([name : Switches, subs : SUBSET Switches, holds : SUBSET Blocks])
    /\ m.blocks \in Seq([name : Blocks, nodes : SUBSET Hosts, nvlink : BOOLEAN])

ASSUME FabricAssumption ==
    /\ Ids = Hosts \cup Switches
    /\ Hosts \cap Switches = {}
    /\ Requested \subseteq Hosts
    /\ \A p \in Providers \ {"test"} : \A f \in Fabrics[p] : IsFabric(f)
    /\ "test" \in Providers => \A m \in Fabrics["test"] : IsModel(m)
    /\ MaxTier > 0

OnPrem == {"infiniband-bm", "infiniband-k8s"}
Finished == {"done", "failed", "crashed"}

FabricInit ==
    /\ provider \in Providers
    /\ fabric \in Fabrics[provider]
    /\ phase = "start"
    /\ below = [v \in Ids |-> {}]
    /\ rank = [v \in Ids |-> 0]
    /\ cnt = 0
    /\ todo = {}
    /\ visited = {}
    /\ seen = {}
    /\ level = {}
    /\ unused = {}
    /\ found = [v \in Ids |-> {}]
    /\ roots = {}
    /\ domains = {}
    /\ keys = {}
    /\ missed = {}
    /\ MergerInit

----------------------------------------------------------------------------
(* Accelerator domains: pairs of a cluster ID and a node.                   *)

\* The values of a field that nvidia-smi prints on a host.
Values(h, field) == {l[2] : l \in {m \in fabric.smi[h] : m[1] = field}}

Ambiguous(h) == \E field \in {"ClusterUUID", "CliqueId"} : Cardinality(Values(h, field)) > 1
Lacking(h)   == \E field \in {"ClusterUUID", "CliqueId"} : Values(h, field) = {}

\* clusterUUID + "." + cliqueId
ClusterIDs(h) == Values(h, "ClusterUUID") \X Values(h, "CliqueId")

\* populateDomainsFromPdshOutput: a host with two values for a field is left
\* out (setID), one with a single field of the two is an error for all.
PdshHosts == {h \in Requested : fabric.smi[h] # {} /\ ~Ambiguous(h)}

PdshDomains == {d \in (UNION {ClusterIDs(h) : h \in PdshHosts}) \X PdshHosts :
                    d[1] \in ClusterIDs(d[2])}

\* Mutant: whatever goes wrong, the ID is empty.
AnnotatedOrEmpty(h) ==
    IF fabric.pods[h] = 1 /\ ClusterIDs(h) # {} THEN ClusterIDs(h) ELSE {NoID}

\* GetNodeAnnotations, with GetClusterID and parseClusterID, ran on each node
\* when the data broker started there: without a device plugin the ID is
\* empty, and of two values the last counts.
AnnotatedIDs(h) ==
    CASE fabric.pods[h] = 0 -> {NoID}
      [] fabric.pods[h] = 1 -> ClusterIDs(h)
      [] OTHER -> {}

\* The first steps of GenerateTopologyConfig of the two providers: more than
\* one region is refused; the domains are read from the hosts or from the
\* annotations of the nodes.  Any call may fail; if one failed when the data
\* broker started, the node has no annotation.
readDomains ==
    /\ phase = "start"
    /\ provider \in OnPrem
    /\ \/ /\ provider = "infiniband-bm"
          /\ \A h \in PdshHosts : ~Lacking(h)
          /\ domains' = PdshDomains
          /\ phase' = "nodes"
       \/ /\ provider = "infiniband-k8s"
          /\ \E annotated \in SUBSET {h \in Hosts : AnnotatedIDs(h) # {}} :
                 \E id \in [annotated -> UNION {AnnotatedIDs(h) : h \in annotated}] :
                     /\ \A h \in annotated : id[h] \in AnnotatedIDs(h)
                     /\ domains' = {<<id[h], h>> : h \in annotated}
          /\ phase' = "nodes"
       \/ /\ phase' = "failed"
          /\ UNCHANGED domains
    /\ todo' = Requested
    /\ UNCHANGED <<inputVars, buildVars, mergerVars, visited, found, roots, keys, missed>>

----------------------------------------------------------------------------
(* InfiniBand.                                                              *)

\* The switches that ibnetdiscover reaches from s.
Closed(C) == \A s \in C : fabric.conn[s] \subseteq C

Component(s) ==
    {r \in Switches : \A C \in SUBSET Switches : s \in C /\ Closed(C) => r \in C}

\* ParseIbnetdiscoverFile: a switch is stored at the empty line after it.
ParseIbnetdiscoverFile(S) == S \ fabric.cut

\* Mutant: every node counts as visited.
hcaAllHosts(S) == Hosts

\* The values of hca: the hosts in the output.
hcaHosts(S) == UNION {fabric.attach[s] : s \in S}

\* getIbTree: a node that an output has named already is skipped.
skipNode(n) ==
    /\ phase = "nodes"
    /\ n \in todo /\ n \in visited
    /\ todo' = todo \ {n}
    /\ UNCHANGED <<phase, inputVars, buildVars, mergerVars, visited, found, roots,
                   domains, keys, missed>>

\* ibnetdiscover fails on the node, or prints no topology.
missNode(n) ==
    /\ phase = "nodes"
    /\ n \in todo /\ n \notin visited
    /\ todo' = todo \ {n}
    /\ missed' = missed \cup {n}
    /\ UNCHANGED <<phase, inputVars, buildVars, mergerVars, visited, found, roots,
                   domains, keys>>

\* The first pass of buildTree: the switches with requested nodes.
findLeaves(S) ==
    LET leaves == {s \in S : fabric.attach[s] \cap Requested # {}}
    IN  /\ seen' = S
        /\ below' = [v \in Ids |-> IF v \in leaves THEN fabric.attach[v] \cap Requested ELSE {}]
        /\ rank' = [v \in Ids |-> IF v \in leaves THEN 1 ELSE 0]
        /\ level' = leaves
        /\ unused' = S \ leaves
        /\ cnt' = 1
        /\ phase' = "levels"

\* ibnetdiscover prints what is connected to a switch of the node.
discoverNode(n) ==
    /\ phase = "nodes"
    /\ n \in todo /\ n \notin visited
    /\ \E s \in Switches :
           /\ n \in fabric.attach[s]
           /\ findLeaves(ParseIbnetdiscoverFile(Component(s)))
           /\ visited' = visited \cup hcaHosts(Component(s))
    /\ todo' = todo \ {n}
    /\ UNCHANGED <<inputVars, mergerVars, found, roots, domains, keys, missed>>

\* The output cannot be scanned.
unreadableOutput ==
    /\ phase = "nodes"
    /\ \E n \in todo : n \notin visited
    /\ phase' = "failed"
    /\ UNCHANGED <<inputVars, buildVars, mergerVars, resultVars>>

\* cw runs ibnetdiscover where topograph runs.
discoverLocal ==
    /\ phase = "start"
    /\ provider = "cw"
    /\ \/ /\ \E s \in Switches : findLeaves(ParseIbnetdiscoverFile(Component(s)))
       \/ /\ phase' = "failed"
          /\ UNCHANGED buildVars
    /\ UNCHANGED <<inputVars, mergerVars, resultVars>>

\* Mutant: a switch that is in a level can be in another.
UpperAgain == {s \in seen : fabric.conn[s] \cap level # {}}

\* The switches one level up.
Upper == {s \in unused : fabric.conn[s] \cap level # {}}

\* buildTree: the next level, or the end.
buildTree ==
    /\ phase = "levels"
    /\ provider # "netq"
    /\ IF Upper = {}
       THEN /\ NewMerger(level)
            /\ UNCHANGED buildVars
       ELSE /\ cnt < MaxTier
            /\ cnt' = cnt + 1
            /\ below' = [v \in Ids |-> IF v \in Upper THEN fabric.conn[v] \cap level ELSE below[v]]
            /\ rank' = [v \in Ids |-> IF v \in Upper THEN cnt + 1 ELSE rank[v]]
            /\ level' = Upper
            /\ unused' = unused \ Upper
            /\ UNCHANGED <<phase, seen, mergerVars>>
    /\ UNCHANGED <<inputVars, resultVars>>

----------------------------------------------------------------------------
(* NetQ.                                                                    *)

\* getNetworkTree: the login returns the premises, or fails.
login ==
    /\ phase = "start"
    /\ provider = "netq"
    /\ \/ /\ phase' = "premises"
          /\ todo' = Premises
       \/ /\ phase' = "failed"
          /\ UNCHANGED todo
    /\ UNCHANGED <<inputVars, buildVars, mergerVars, visited, found, roots,
                   domains, keys, missed>>

\* tierMap: the zero value for a device that is not in the list, -1 for hosts.
tierMap(v) == CASE v \notin seen -> 1
                [] v \in Hosts -> 0
                [] OTHER -> fabric.tier[v]

\* linksUp[v][s]
linkedUp(v, s) ==
    /\ s \in Switches
    /\ IF v \in Hosts THEN v \in fabric.attach[s] ELSE v \in fabric.conn[s]
    /\ tierMap(v) < tierMap(s)

\* Mutant: switches of tier 0 are taken for nodes, too.
readPremisesLowTier(p) ==
    /\ phase = "premises"
    /\ p \in todo
    /\ todo' = todo \ {p}
    /\ phase' = "levels"
    /\ seen' = fabric.listed \cap p
    /\ unused' = {s \in fabric.listed \cap p \cap Switches : fabric.tier[s] > 1}
    /\ level' = fabric.listed \cap p \cap Requested
    /\ below' = [v \in Ids |-> {}]
    /\ rank' = [v \in Ids |-> 0]
    /\ cnt' = 0
    /\ UNCHANGED <<inputVars, mergerVars, visited, found, roots, domains, keys, missed>>

\* getPremisesTopology: the premises have not been viewed, a call fails, or
\* the devices and links are read (parseNetq up to the loop).
readPremises(p) ==
    /\ phase = "premises"
    /\ p \in todo
    /\ todo' = todo \ {p}
    /\ \/ UNCHANGED <<phase, buildVars>>
       \/ phase' = "failed" /\ UNCHANGED buildVars
       \/ /\ phase' = "levels"
          /\ seen' = fabric.listed \cap p
          /\ unused' = {s \in fabric.listed \cap p \cap Switches : fabric.tier[s] > 0}
          /\ level' = fabric.listed \cap p \cap Requested
          /\ below' = [v \in Ids |-> {}]
          /\ rank' = [v \in Ids |-> 0]
          /\ cnt' = 0
    /\ UNCHANGED <<inputVars, mergerVars, visited, found, roots, domains, keys, missed>>

nextLayer == {s \in Switches : \E v \in level : linkedUp(v, s)}

\* parseNetq: one round of the loop.  A switch that is in no list or in a
\* layer already is a nil pointer, and the write to its Vertices panics.
nextNetqLayer ==
    /\ phase = "levels"
    /\ provider = "netq"
    /\ IF ~(nextLayer \subseteq unused)
       THEN phase' = "crashed" /\ UNCHANGED <<buildVars, mergerVars>>
       ELSE IF nextLayer = {}
       THEN NewMerger(level) /\ UNCHANGED buildVars
       ELSE /\ cnt < MaxTier
            /\ cnt' = cnt + 1
            /\ below' = [v \in Ids |-> IF v \in nextLayer THEN {w \in level : linkedUp(w, v)}
                                       ELSE below[v]]
            /\ rank' = [v \in Ids |-> IF v \in nextLayer THEN cnt + 1 ELSE rank[v]]
            /\ level' = nextLayer
            /\ unused' = unused \ nextLayer
            /\ UNCHANGED <<phase, seen, mergerVars>>
    /\ UNCHANGED <<inputVars, resultVars>>

----------------------------------------------------------------------------
(* The result.                                                              *)

\* The vertices below v in the graph f, with v, and the nodes among them.
Reached(f, v) ==
    {w \in Ids : \A C \in SUBSET Ids : v \in C /\ (\A u \in C : f[u] \subseteq C) => w \in C}

NodesUnder(f, v) == Reached(f, v) \cap Hosts

\* rootMap[v.ID] = v, treeRoot.Vertices[node.ID] = node
AddTop == [v \in Ids |-> IF v \in TopTier THEN NodesUnder(nodes, v) ELSE found[v]]

\* The top tier is added to the roots, and the loop goes on.
addRoots ==
    /\ phase = "merged"
    /\ roots' = roots \cup TopTier
    /\ found' = AddTop
    /\ phase' = CASE provider = "netq" -> "premises"
                  [] provider = "cw" -> "result"
                  [] OTHER -> "nodes"
    /\ UNCHANGED <<inputVars, buildVars, mergerVars, todo, visited, domains, keys, missed>>

\* The loop ends.  NetQ needs a root.  getIbTree makes another merger and takes
\* its top tier without merging: the roots.
endLoop ==
    /\ phase \in {"nodes", "premises"}
    /\ todo = {}
    /\ phase' = IF provider = "netq" /\ roots = {} THEN "failed" ELSE "result"
    /\ UNCHANGED <<inputVars, buildVars, mergerVars, resultVars>>

\* The NVLink domains the server reports.
parseComputeNodes == {d \in (UNION {Values(h, "ClusterUUID") : h \in Hosts}) \X Hosts :
                          d[1] \in Values(d[2], "ClusterUUID")}

\* toGraph, or the end of GenerateTopologyConfig.  NetQ goes on without blocks
\* if they cannot be read (getNvlDomains), cw does not wrap the tree.
makeResult ==
    /\ phase = "result"
    /\ phase' = "done"
    /\ \/ /\ provider \in OnPrem
          /\ keys' = {"tree", "block"}
          /\ UNCHANGED domains
       \/ /\ provider = "netq"
          /\ keys' = {"tree", "block"}
          /\ domains' = parseComputeNodes
       \/ /\ provider = "netq"
          /\ keys' = {"tree"}
          /\ UNCHANGED domains
       \/ /\ provider = "cw"
          /\ keys' = roots
          /\ UNCHANGED domains
    /\ UNCHANGED <<inputVars, buildVars, mergerVars, todo, visited, found, roots, missed>>

\* Loader of the test provider, with NewModelFromFile and ToGraph; what
\* GenerateTopologyConfig returns.
loadModel ==
    /\ phase = "start"
    /\ provider = "test"
    /\ IF setNodeMapFails(fabric)
       THEN phase' = "failed" /\ UNCHANGED <<found, roots, domains, keys>>
       ELSE /\ phase' = "done"
            /\ roots' = modelRoots(fabric)
            /\ LET graph == [v \in Ids |-> IF v \in Names(fabric)
                                           THEN subVertices(fabric, v) ELSE {}]
               IN  found' = [v \in Ids |-> IF v \in roots' THEN NodesUnder(graph, v) ELSE {}]
            /\ domains' = blockVertices(fabric)
            /\ keys' = {"tree"} \cup (IF \E k \in DOMAIN fabric.blocks : fabric.blocks[k].nvlink
                                      THEN {"block"} ELSE {})
    /\ UNCHANGED <<inputVars, buildVars, mergerVars, todo, visited, missed>>

MergerStep == MergerNext /\ UNCHANGED <<inputVars, seen, level, unused, resultVars>>

FabricNext ==
    \/ readDomains \/ discoverLocal \/ unreadableOutput \/ login \/ buildTree \/ nextNetqLayer
    \/ loadModel \/ MergerStep \/ addRoots \/ endLoop \/ makeResult
    \/ \E n \in Hosts : skipNode(n) \/ missNode(n) \/ discoverNode(n)
    \/ \E p \in Premises : readPremises(p)

FabricSpec == FabricInit /\ [][FabricNext]_fabricVars

\* The providers are sequential code, and each call of theirs returns.
FairFabricSpec == FabricSpec /\ WF_fabricVars(FabricNext)

----------------------------------------------------------------------------
(* Properties.                                                              *)

\* d gives for each switch of C how many links away is one with requested nodes;
\* MaxTier stands for too many, or none.
IsDistance(C, d) ==
    \A s \in C :
        /\ d[s] = 0 <=> fabric.attach[s] \cap Requested # {}
        /\ \A r \in fabric.conn[s] \cap C : d[s] <= d[r] + 1
        /\ d[s] \in 1..(MaxTier - 1) => \E r \in fabric.conn[s] \cap C : d[r] = d[s] - 1

\* Every switch that is not among the farthest has one behind it.
BalancedBy(C, d) ==
    \A s, t \in C :
        d[s] < d[t] /\ d[t] < MaxTier => \E r \in C : d[r] = d[s] + 1 /\ s \in fabric.conn[r]

Balanced(C) == \E d \in [C -> 0..MaxTier] : IsDistance(C, d) /\ BalancedBy(C, d)

InTree == UNION {found[r] : r \in roots}

\* A node disappears from the tree only for a reason: ibnetdiscover told
\* nothing on it, a switch of it was lost when parsing, or its fabric is not
\* balanced, in which case buildTree returns the last level alone.  One node
\* is enough to discover a fabric, whatever the order of the nodes and
\* whichever other nodes fail (getIbTree, buildTree, Merger).
DiscoveredKept ==
    phase = "done" /\ provider \in OnPrem =>
        \A h \in Requested \ missed :
            LET homes == {s \in Switches : h \in fabric.attach[s]}
            IN  \/ h \in InTree
                \/ homes = {} \/ homes \cap fabric.cut # {}
                \/ \E s \in homes : ~Balanced(ParseIbnetdiscoverFile(Component(s)))

\* A model that is accepted has a node below exactly one root if a switch
\* holds its block, and below none if no switch does, although the check for
\* cycles looks only at switches above a block.  The exception: of the blocks
\* of one name, which nothing refuses, only the nodes of the first are in the
\* tree (setNodeMap, ToGraph).
ModelKept ==
    phase = "done" /\ provider = "test" =>
        \A h \in Hosts :
            LET held == \E k \in DOMAIN fabric.blocks :
                            /\ h \in fabric.blocks[k].nodes
                            /\ First(fabric, k)
                            /\ cbmap(fabric, fabric.blocks[k].name) # {}
            IN  Cardinality({r \in roots : h \in found[r]}) = IF held THEN 1 ELSE 0

\* The InfiniBand providers infiniband-bm and infiniband-k8s lose no node that
\* they have heard of, and the test provider none of a model file, but for the
\* reasons given above.
NodesKept == DiscoveredKept /\ ModelKept

\* A device list in which links name listed devices and skip no tier that a
\* listed device has does not bring the server down, whichever numbers the
\* tiers have: in the list of the repository hosts have -1, leaves 1 and
\* spines 2 (parseNetq).
OrderlyListIsSafe ==
    (\A v \in seen, s \in Switches :
         linkedUp(v, s) =>
             /\ s \in seen
             /\ \A u \in seen : ~(tierMap(v) < tierMap(u) /\ tierMap(u) < tierMap(s)))
    => phase # "crashed"

\* Two nodes are in one accelerator domain only if nvidia-smi prints the same
\* cluster and clique on both, except in the domain with the empty ID, where
\* all nodes without a device plugin meet (populateDomainsFromPdshOutput,
\* GetClusterID).
DomainsShareClique ==
    provider \in OnPrem =>
        \A d, e \in domains :
            d[1] = e[1] =>
                \/ ClusterIDs(d[2]) \cap ClusterIDs(e[2]) # {}
                \/ d[1] = NoID /\ fabric.pods[d[2]] = 0 /\ fabric.pods[e[2]] = 0

\* Discovery ends, with a result or an error: levels use up the switches and
\* traverse finds the nodes at the bottom (buildTree, parseNetq, traverse).
DiscoveryEnds == <>(phase \in Finished)
=============================================================================
