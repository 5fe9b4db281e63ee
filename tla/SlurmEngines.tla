---------------------------- MODULE SlurmEngines ----------------------------
(***************************************************************************)
(* pkg/engines/slurm and pkg/engines/slinky: which nodes a request is      *)
(* about, what is written for them, and how it gets to Slurm: through a    *)
(* file and a reconfiguration, or through a ConfigMap that others write as *)
(* well.  The cluster changes while an engine works, calls fail, and       *)
(* topograph may be killed between any two steps.                          *)
(*                                                                         *)
(* The provider and the translation in between are modelled elsewhere      *)
(* (ThreeTierGraph, NetworkTopology): every instance that is asked for has *)
(* a place in the output, if it has an ID, so that a configuration is the  *)
(* set of hosts in it, and the block sizes.  `shape' gives the sizes of    *)
(* the accelerator domains that the provider reports.  A node stands for   *)
(* its instance ID.                                                        *)
(***************************************************************************)
EXTENDS BlockSizes, HostLists

CONSTANTS
    Nodes,       \* nodes of Kubernetes, or of Slurm
    NodeOrder,   \* the order in which Slurm lists them
    Pods,        \* slurmd pods; a pod stands for its Slurm host name as well
    PodNode,     \* the node of a pod
    Region,      \* the region of a node
    Bootstrap,   \* the region, instance and host of a cluster without pods
    NoInstance,  \* the empty instance ID
    BadNumber,   \* an entry of block_sizes that is not a number
    None,        \* no ConfigMap, no configuration, no answer
    Damaged,     \* a file that is truncated
    Scenarios    \* requests, and the clusters they meet

VARIABLES
    request,    \* the engine and its parameters
    shape,      \* sizes of the accelerator domains
    naming,     \* the names of the nodes
    up,         \* nodes that are registered
    annotated,  \* nodes with instance and region annotations
    ready,      \* pods that are ready
    cm,         \* the ConfigMap
    file,       \* the topology file
    loaded,     \* the configuration slurmctld works with
    changes,    \* bound: how many changes from outside are to come
    execs,      \* bound: how many executions are to come
    pc,         \* what the engine does next
    listed,     \* nodes it has read
    tagged,     \* those of them that had annotations
    i2n,        \* i2n of slurm: pairs of an instance and a node
    cis,        \* compute instances: triples of region, instance and host
    config,     \* the output
    cmRead,     \* the ConfigMap as it was read
    steady,     \* history: nodes, or usable pods, that were there all the time
    seen,       \* history: nodes, or ready pods, that were there at any time
    theirs,     \* history: what others wrote to the ConfigMap last
    lost        \* history: others deleted the ConfigMap after it was written

scenarioVars == <<request, shape, naming>>
worldVars    == <<up, annotated, ready>>
boundVars    == <<changes, execs>>
targetVars   == <<cm, file, loaded>>
readVars     == <<listed, tagged, i2n, cis, cmRead>>
historyVars  == <<steady, seen, theirs, lost>>
engineVars   == <<scenarioVars, worldVars, boundVars, targetVars, pc, readVars, config,
                  historyVars>>

Idle == {"done", "failed", "killed"}

\* Pods that are ready on nodes that are registered and annotated.
Usable == {p \in ready : PodNode[p] \in up \cap annotated}

\* What the engine has to find, as long as it stays.
Wanted == IF request.engine = "slurm" THEN up ELSE Usable

\* What the engine may find.
Present == IF request.engine = "slurm" THEN up ELSE ready

EnginesInit ==
    /\ \E s \in Scenarios :
           /\ request = s.request
           /\ shape = s.shape
           /\ naming = s.naming
           /\ up = s.up
           /\ annotated = s.annotated
           /\ ready = s.ready
           /\ cm = s.cm
           /\ changes = s.changes
           /\ execs = s.execs
    /\ file = None
    /\ loaded = None
    /\ pc = "load"
    /\ listed = {}
    /\ tagged = {}
    /\ i2n = {}
    /\ cis = {}
    /\ config = None
    /\ cmRead = None
    /\ steady = Wanted
    /\ seen = Present
    /\ theirs = IF cm = None THEN None ELSE cm.others
    /\ lost = FALSE

----------------------------------------------------------------------------
(* The world outside.                                                       *)

Disturbed == changes > 0 /\ changes' = changes - 1

\* A node joins or leaves.  What only slinky looks at: the data broker
\* annotates a node, a pod becomes ready or stops being so.
ClusterChanges ==
    /\ Disturbed
    /\ \/ \E n \in Nodes : /\ up' = SymDiff(up, {n})
                           /\ annotated' = annotated \ {n}
                           /\ UNCHANGED ready
       \/ \E n \in up \ annotated : /\ request.engine = "slinky"
                                      /\ annotated' = annotated \cup {n}
                                      /\ UNCHANGED <<up, ready>>
       \/ \E p \in Pods : /\ request.engine = "slinky"
                          /\ ready' = SymDiff(ready, {p})
                          /\ UNCHANGED <<up, annotated>>
    /\ UNCHANGED <<scenarioVars, targetVars, execs, pc, readVars, config, theirs, lost>>
    /\ steady' = steady \cap Wanted'
    /\ seen' = seen \cup Present'

\* Somebody else creates the ConfigMap, writes another key of it, or deletes
\* it.  Every write gives it a version it never had.
OthersWrite ==
    /\ request.engine = "slinky"
    /\ Disturbed
    /\ \/ /\ cm' = [version |-> <<"others", changes>>,
                    data    |-> IF cm = None THEN None ELSE cm.data,
                    others  |-> changes]
          /\ theirs' = changes
          /\ UNCHANGED lost
       \/ /\ cm # None
          /\ cm' = None
          /\ theirs' = None
          /\ lost' = TRUE
    /\ UNCHANGED <<scenarioVars, worldVars, file, loaded, execs, pc, readVars, config, steady, seen>>

\* slurmctld is restarted, and reads the file.
SlurmRestarts ==
    /\ request.engine = "slurm"
    /\ Disturbed
    /\ loaded' = file
    /\ UNCHANGED <<scenarioVars, worldVars, cm, file, execs, pc, readVars, config, historyVars>>

----------------------------------------------------------------------------
(* GetComputeInstances.                                                     *)

\* The parts of the state an engine only reads.
Outside == <<scenarioVars, worldVars, boundVars>>

\* Loader: slinky checks its parameters at once, slurm in the end.
LoadEngine ==
    /\ pc = "load"
    /\ pc' = IF request.engine = "slinky" /\ ~request.valid THEN "failed" ELSE "start"
    /\ UNCHANGED <<Outside, targetVars, readVars, config, historyVars>>

\* GetNodeList of slurm, GetNodes of slinky.  slurm is done with the instances
\* if there are no nodes.
ListNodes ==
    /\ pc = "start"
    /\ pc' = IF request.engine = "slinky" THEN "pods"
             ELSE IF up = {} THEN "topology" ELSE "instances"
    /\ listed' = up
    /\ tagged' = up \cap annotated
    /\ UNCHANGED <<Outside, targetVars, i2n, cis, cmRead, config, historyVars>>

\* Pdsh: the nodes whose names pdsh finds in the list it gets.
Pdsh(names, nodes) ==
    LET at == {i \in DOMAIN NodeOrder : NodeOrder[i] \in nodes}
    IN  {n \in nodes : names[n] \in Expand(Compact([i \in at |-> names[NodeOrder[i]]]))}

\* What pdsh prints for a node: its ID, the empty ID if its metadata service
\* fails, or no line.  A node that is gone or not asked does not answer.
Answers(n) == IF n \in up \cap Pdsh(naming, listed) THEN {n, NoInstance, None} ELSE {None}

\* Instances2NodeMap with ParsePdshOutput: a map by instance ID, in which the
\* last of the nodes with an empty ID stays.
Instances2NodeMap ==
    /\ pc = "instances"
    /\ pc' = "regions"
    /\ \E ans \in [listed -> Nodes \cup {NoInstance, None}] :
           /\ \A n \in listed : ans[n] \in Answers(n)
           /\ LET mute == {n \in listed : ans[n] = NoInstance}
                  good == {n \in listed : ans[n] = n}
              IN  /\ \E last \in SUBSET mute :
                         /\ Cardinality(last) = IF mute = {} THEN 0 ELSE 1
                         /\ i2n' = {<<n, n>> : n \in good} \cup {<<NoInstance, n>> : n \in last}
                  /\ steady' = steady \ (Pdsh(naming, listed) \ good)
    /\ UNCHANGED <<Outside, targetVars, listed, tagged, cis, cmRead, config, seen, theirs, lost>>

\* Mutant: every region keeps its last instance.
aggregateLast(known) ==
    {<<Region[h[2]], h[1], h[2]>> :
        h \in {g \in i2n : /\ g[2] \in known
                           /\ g = CHOOSE f \in i2n : f[2] \in known /\ Region[f[2]] = Region[g[2]]}}

\* aggregateComputeInstances: nodes whose region is not known are left out.
aggregateComputeInstances(known) ==
    {<<Region[h[2]], h[1], h[2]>> : h \in {g \in i2n : g[2] \in known}}

\* GetInstancesRegions: a second pdsh, which some nodes may not answer.
GetInstancesRegions ==
    /\ pc = "regions"
    /\ pc' = "topology"
    /\ \E known \in SUBSET (up \cap Pdsh(naming, listed)) :
           /\ cis' = aggregateComputeInstances(known)
           /\ steady' = steady \ (Pdsh(naming, listed) \ known)
    /\ UNCHANGED <<Outside, targetVars, listed, tagged, i2n, cmRead, config, seen, theirs, lost>>

\* nodeMap: the last of these pods in the list gives the node its host name.
nodeMap(n) == {p \in ready : PodNode[p] = n}

\* SlinkyEngine.GetComputeInstances after the pods are listed.  Without pods
\* there is one dummy host; a node with a pod but without annotations is an
\* error.
ListPods ==
    /\ pc = "pods"
    /\ LET hosting == {n \in Nodes : nodeMap(n) # {}}
           failure == hosting # {} /\ ~(hosting \cap listed \subseteq tagged)
       IN  \E host \in [hosting -> Pods] :
               /\ \A n \in hosting : host[n] \in nodeMap(n)
               /\ pc' = IF failure THEN "failed" ELSE "topology"
               /\ cis' = IF failure THEN {}
                         ELSE IF hosting = {} THEN {<<Bootstrap, Bootstrap, Bootstrap>>}
                         ELSE {<<Region[n], n, host[n]>> : n \in hosting \cap listed}
    /\ UNCHANGED <<Outside, targetVars, listed, tagged, i2n, cmRead, config, historyVars>>

----------------------------------------------------------------------------
(* GenerateOutput.                                                          *)

\* The provider has a topology with all instances.
GenerateTopologyConfig ==
    /\ pc = "topology"
    /\ pc' = "translate"
    /\ UNCHANGED <<Outside, targetVars, readVars, config, historyVars>>

\* getBlockSizes: one bad entry, and the parameter is ignored.
getBlockSizes(entries) == IF BadNumber \in ToSet(entries) THEN <<>> ELSE entries

\* Only GenerateOutputParams of slurm has a default.
Plugin ==
    IF request.plugin = "" /\ request.engine = "slurm" THEN "tree" ELSE request.plugin

\* Fake nodes are for blocks only.
UseFake == Plugin = "block" /\ request.fake

\* getParams, GetTranslateConfig and Validate: unknown plugins are rejected, and
\* blocks if there are none.
Valid == request.valid /\ (Plugin = "tree" \/ (Plugin = "block" /\ shape # <<>>))

\* An instance with the empty ID is below the root of the tree, whose ID is
\* empty as well; it is in no block, as no report is about it.
Unending == Plugin = "tree" /\ \E ci \in cis : ci[2] = NoInstance
Placed   == {ci \in cis : ci[2] # NoInstance}

\* NewNetworkTopology and Generate.  toTreeTopology goes round for ever if it
\* comes to the root again.
Translate ==
    /\ pc = "translate"
    /\ \/ /\ Valid /\ ~Unending
          /\ config' = [hosts |-> {ci[3] : ci \in Placed},
                        sizes |-> IF Plugin = "tree" THEN <<>>
                                  ELSE getBlockSize(shape, getBlockSizes(request.sizes), UseFake)]
          /\ pc' = IF request.engine = "slinky" THEN "get"
                   ELSE IF request.path THEN "create" ELSE "done"
       \/ /\ Valid /\ Unending
          /\ pc' = "endless"
          /\ UNCHANGED config
       \/ /\ ~Valid
          /\ pc' = "failed"
          /\ UNCHANGED config
    /\ UNCHANGED <<Outside, targetVars, readVars, historyVars>>

\* files.Create truncates the file first.
CreateFile ==
    /\ pc = "create"
    /\ pc' = "write"
    /\ file' = Damaged
    /\ UNCHANGED <<Outside, cm, loaded, readVars, config, historyVars>>

\* Mutant: the end of the output is not waited for.
WriteFileLate ==
    /\ pc = "write"
    /\ pc' = IF request.reconfigure THEN "reconfigure" ELSE "done"
    /\ UNCHANGED <<Outside, targetVars, readVars, config, historyVars>>

WriteFile ==
    /\ pc = "write"
    /\ pc' = IF request.reconfigure THEN "reconfigure" ELSE "done"
    /\ file' = config
    /\ UNCHANGED <<Outside, cm, loaded, readVars, config, historyVars>>

\* scontrol reconfigure
reconfigure ==
    /\ pc = "reconfigure"
    /\ pc' = "done"
    /\ loaded' = file
    /\ UNCHANGED <<Outside, cm, file, readVars, config, historyVars>>

\* UpdateTopologyConfigmap reads the ConfigMap.
GetConfigMap ==
    /\ pc = "get"
    /\ pc' = IF cm = None THEN "createCM" ELSE "update"
    /\ cmRead' = cm
    /\ UNCHANGED <<Outside, targetVars, listed, tagged, i2n, cis, config, historyVars>>

Ours(others) == [version |-> <<"engine", changes, execs>>, data |-> config, others |-> others]

\* Mutant: the data of the ConfigMap is replaced.
UpdateReplaces ==
    /\ pc = "update"
    /\ IF cm = cmRead
       THEN pc' = "done" /\ cm' = Ours(None) /\ lost' = FALSE
       ELSE pc' = "failed" /\ UNCHANGED <<cm, lost>>
    /\ UNCHANGED <<Outside, file, loaded, readVars, config, steady, seen, theirs>>

\* Update: keys and annotations are added to what was read.  The API server
\* refuses a version that is not the current one, and nothing is tried again.
UpdateConfigMap ==
    /\ pc = "update"
    /\ IF cm # None /\ cm.version = cmRead.version
       THEN pc' = "done" /\ cm' = Ours(cmRead.others) /\ lost' = FALSE
       ELSE pc' = "failed" /\ UNCHANGED <<cm, lost>>
    /\ UNCHANGED <<Outside, file, loaded, readVars, config, steady, seen, theirs>>

\* Mutant: a ConfigMap that is there by now is taken for the one to create.
CreateIfMissing ==
    /\ pc = "createCM"
    /\ pc' = "done"
    /\ lost' = FALSE
    /\ cm' = IF cm = None THEN Ours(None) ELSE cm
    /\ UNCHANGED <<Outside, file, loaded, readVars, config, steady, seen, theirs>>

\* Create fails if somebody else created it in the meantime.
CreateConfigMap ==
    /\ pc = "createCM"
    /\ IF cm = None
       THEN pc' = "done" /\ cm' = Ours(None) /\ lost' = FALSE
       ELSE pc' = "failed" /\ UNCHANGED <<cm, lost>>
    /\ UNCHANGED <<Outside, file, loaded, readVars, config, steady, seen, theirs>>

----------------------------------------------------------------------------
(* Errors, crashes and the next execution.                                  *)

\* A call returns an error, or topograph is killed.  Neither undoes anything.
\* Nothing else ends a walk without an end.
Interrupted ==
    /\ pc \notin Idle
    /\ pc' = "killed" \/ (pc # "endless" /\ pc' = "failed")
    /\ UNCHANGED <<Outside, targetVars, readVars, config, historyVars>>

\* The next attempt, or the next request, starts from nothing.
NextExecution ==
    /\ pc \in Idle
    /\ execs > 0
    /\ execs' = execs - 1
    /\ pc' = "load"
    /\ listed' = {}
    /\ tagged' = {}
    /\ i2n' = {}
    /\ cis' = {}
    /\ cmRead' = None
    /\ config' = None
    /\ steady' = Wanted
    /\ seen' = Present
    /\ UNCHANGED <<scenarioVars, worldVars, changes, targetVars, theirs, lost>>

EngineStep ==
    \/ LoadEngine \/ ListNodes \/ Instances2NodeMap \/ GetInstancesRegions \/ ListPods
    \/ GenerateTopologyConfig \/ Translate
    \/ CreateFile \/ WriteFile \/ reconfigure
    \/ GetConfigMap \/ UpdateConfigMap \/ CreateConfigMap

EnginesNext ==
    \/ ClusterChanges \/ OthersWrite \/ SlurmRestarts
    \/ EngineStep
    \/ Interrupted \/ NextExecution

EnginesSpec == EnginesInit /\ [][EnginesNext]_engineVars

----------------------------------------------------------------------------
(* What the constants are.                                                  *)

\* The configurations that scenarios can lead to, and the ConfigMaps.
Configs ==
    [hosts : SUBSET (Nodes \cup Pods \cup {Bootstrap}),
     sizes : {<<>>} \cup {getBlockSize(s.shape, getBlockSizes(s.request.sizes), fake) :
                             s \in Scenarios, fake \in BOOLEAN}]

Versions == ({"others"} \X Nat) \cup ({"engine"} \X Nat \X Nat)

ConfigMaps ==
    [version : Versions, data : Configs \cup {None}, others : Nat \cup {None}]

\* In a scenario nodes, their names, pods and ConfigMap are what they are called, an
\* accelerator domain has a node, block sizes that can be parsed are integers,
\* and the version of the ConfigMap is not one that others are still to write.
IsScenario(s) ==
    /\ s.request.engine \in {"slurm", "slinky"}
    /\ getBlockSizes(s.request.sizes) \in Seq(Int)
    /\ s.shape \in Seq(Nat \ {0})
    /\ \A n \in Nodes : IsHost(s.naming[n])
    /\ s.up \subseteq Nodes
    /\ s.annotated \subseteq Nodes
    /\ s.ready \subseteq Pods
    /\ s.changes \in Nat
    /\ s.execs \in Nat
    /\ s.cm # None => /\ s.cm \in ConfigMaps
                      /\ \A c \in 1..s.changes : s.cm.version # <<"others", c>>

ASSUME EnginesAssumption ==
    /\ PodNode \in [Pods -> Nodes]
    /\ NodeOrder \in Seq(Nodes) /\ ToSet(NodeOrder) = Nodes
    /\ Nodes \cap Pods = {}
    /\ NoInstance \notin Nodes \cup {Bootstrap}
    /\ None \notin Nodes \cup ConfigMaps
    /\ \A s \in Scenarios : IsScenario(s)

----------------------------------------------------------------------------
(* Properties.                                                              *)

\* The hosts that are configured are those of the cluster, although it changes
\* while it is read.  A node that stays registered and answers with its
\* instance and its region is among those slurm reports done, and one that has
\* a pod which is usable all the time is, under the name of one of its pods,
\* among those of slinky: no change elsewhere costs it its place.  None is one
\* that was never there while the execution went on, no two are pods of one
\* node, and the dummy of a cluster without pods is there only if it is alone
\* and no pod was ready throughout.  With slurm this takes names that are
\* numbered regularly, as pdsh gets them in ranges (aggregateComputeInstances,
\* SlinkyEngine.GetComputeInstances, Instances2NodeMap, Compact).
HostsMatchCluster ==
    config # None =>
        /\ config.hosts \subseteq seen \/ (config.hosts = {Bootstrap} /\ steady = {})
        /\ \A p, q \in config.hosts \cap Pods : PodNode[p] = PodNode[q] => p = q
        /\ pc = "done" =>
               IF request.engine = "slurm"
               THEN Regular({naming[n] : n \in Nodes}) => steady \subseteq config.hosts
               ELSE \A p \in steady :
                        \E q \in config.hosts \cap Pods : PodNode[q] = PodNode[p]

\* When an engine reports success its configuration is where it belongs,
\* whoever else wrote, deleted or restarted what at whatever moment: in the
\* file and, if it was to reconfigure, in slurmctld; or in the ConfigMap,
\* until others delete it (GenerateOutputParams, UpdateTopologyConfigmap).
SuccessInPlace ==
    pc = "done" =>
        IF request.engine = "slinky" THEN lost \/ (cm # None /\ cm.data = config)
        ELSE request.path => /\ file = config
                             /\ request.reconfigure => loaded = config

\* No execution changes what others keep in the ConfigMap, although it writes
\* back what it has read some time before (UpdateTopologyConfigmap).
OthersKept == cm # None /\ theirs # None => cm.others = theirs

Doublings(base, n) == {base * 2 ^ k : k \in {j \in 0..n : 2 ^ j <= n}}

Asked == getBlockSizes(request.sizes)

Sized == config # None /\ Plugin = "block"

\* Sizes that Slurm can use: the base size is positive, no block is smaller
\* unless fake nodes fill it, and every size is a power of two of the base
\* that the blocks can make up.
Legal(sizes) ==
    /\ sizes # <<>>
    /\ sizes[1] > 0
    /\ UseFake \/ \A i \in DOMAIN shape : shape[i] >= sizes[1]
    /\ ToSet(sizes) \subseteq Doublings(sizes[1], Len(shape))

\* The block sizes are legal for every number of blocks and every request,
\* except a request without a positive base size when fake nodes are enabled;
\* a legal request is never overridden, and any other gives every level there
\* is (getBlockSize).
SizesLegal ==
    Sized =>
        /\ Legal(config.sizes) \/ (UseFake /\ Asked # <<>> /\ Asked[1] <= 0)
        /\ IF Legal(Asked) THEN config.sizes = Asked
           ELSE ToSet(config.sizes) = Doublings(config.sizes[1], Len(shape))

\* The comment of getBlockSize: "Admin provided blocksize is validated and is
\* overriden with default blocksizes if validation fails."  With fake nodes the
\* default is computed from the size that failed.
BadBaseOverridden ==
    Sized /\ Asked # <<>> /\ Asked[1] <= 0 => config.sizes[1] # Asked[1]
=============================================================================
