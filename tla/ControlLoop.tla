---------------------------- MODULE ControlLoop ----------------------------
(***************************************************************************)
(* Node observer, API server and k8s engine closed into the loop they form *)
(* in a cluster: a node changes, the observer posts a request, the server  *)
(* executes it after the aggregation delay, the engine reads the nodes and *)
(* writes topology labels back on them, and that is a node change again.   *)
(*                                                                         *)
(* The observer is NodeObserver.  The server is what TrailingDelayQueue    *)
(* implements (AsyncRequests) without the request IDs, which the observer  *)
(* ignores: one request may be open while one is executed.  The engine is  *)
(* pkg/engines/k8s.                                                        *)
(*                                                                         *)
(* The provider is dra.  The labels of a node are a pair: `input' is the   *)
(* clique it belongs to (nvidia.com/gpu.clique), `output' the number of    *)
(* the block the engine labels it with, and 0 stands for no label.  The    *)
(* rest of a node are its annotations (instance and region), which the     *)
(* node data broker writes after the node has registered.                  *)
(***************************************************************************)
EXTENDS NodeObserver, FiniteSets

CONSTANTS
    Cliques,        \* the cliques, numbered in the order of their names
    NoAnnotation,   \* a node the data broker has not annotated yet
    serverRetries,  \* maxRetries of pkg/server/engine.go
    LateAnnotations \* whether annotations of a registered node change

VARIABLES
    open,      \* an accepted request waits for the aggregation delay
    engine,    \* "idle", or the stage of the execution in progress
    tries,     \* attempts of the execution in progress
    seen,      \* the nodes as this attempt read them
    todo,      \* nodes this attempt has still to label
    failed,    \* history: the last execution ended with an error
    undone     \* history: since the last execution began, some node's labels
               \* changed and changed back and the informer saw neither

engineVars == <<engine, tries, seen, todo, failed>>
loopVars   == <<observerVars, open, engineVars, undone>>

NoClique == 0
NoLabel  == 0
Outputs  == 0..Cardinality(Cliques)

ASSUME LoopAssumption ==
    /\ IsFiniteSet(Cliques) /\ Cliques \subseteq Nat \ {NoClique}
    /\ Labels = [input : Cliques \cup {NoClique}, output : Outputs]
    /\ Pods = {}
    /\ serverRetries \in Nat \ {0}
    /\ LateAnnotations \in BOOLEAN

----------------------------------------------------------------------------
(* The blocks of the dra provider, from the states s of the nodes.          *)

\* The nodes that have annotations and a clique.
DomainNodes(s) ==
    {n \in Nodes : /\ s[n] # Absent
                   /\ s[n].rest # NoAnnotation
                   /\ s[n].labels.input # NoClique}

\* The domain map: the cliques that some node belongs to.
DomainMap(s) == {s[n].labels.input : n \in DomainNodes(s)}

\* ToBlocks numbers the domains by their names: a node's block depends on the
\* cliques of all the others.
ToBlocks(n, s) == Cardinality({c \in DomainMap(s) : c <= s[n].labels.input})

----------------------------------------------------------------------------
(* The observer talks to the server.                                        *)

\* A POST that reaches the server opens a request, or joins the open one.
PostOk ==
    /\ SendOk
    /\ open' = TRUE
    /\ UNCHANGED <<engineVars, undone>>

PostFails(delivered, retryable) ==
    /\ SendFails(delivered, retryable)
    /\ open' = (open \/ delivered)
    /\ UNCHANGED <<engineVars, undone>>

----------------------------------------------------------------------------
(* The server executes requests with the k8s engine.                        *)

StartExecution ==
    /\ open
    /\ engine = "idle"
    /\ open' = FALSE
    /\ engine' = "list"
    /\ tries' = 1
    /\ undone' = FALSE
    /\ UNCHANGED <<observerVars, seen, todo, failed>>

\* getComputeInstances skips the nodes without annotations.
getComputeInstances ==
    {n \in Nodes : api[n] # Absent /\ api[n].rest # NoAnnotation}

\* GetComputeInstances lists the nodes.
ListNodes ==
    /\ engine = "list"
    /\ engine' = "topology"
    /\ seen' = api
    /\ todo' = getComputeInstances
    /\ UNCHANGED <<observerVars, open, tries, failed, undone>>

\* An attempt that fails is repeated from the start while attempts are left,
\* if its code is worth a retry.
AttemptFails(retryable) ==
    /\ seen' = [n \in Nodes |-> Absent]
    /\ todo' = {}
    /\ IF retryable /\ tries # serverRetries
       THEN /\ tries' = tries + 1
            /\ engine' = "list"
            /\ UNCHANGED failed
       ELSE /\ tries' = 0
            /\ engine' = "idle"
            /\ failed' = TRUE

\* GenerateTopologyConfig lists them again, for their cliques.  Nodes that have
\* gone, have no clique or are not in the region they were in are left out.
StillThere ==
    {n \in todo : n \in DomainNodes(api) /\ api[n].rest = seen[n].rest}

ReadLabels ==
    /\ engine = "topology"
    /\ StillThere # {}
    /\ engine' = "label"
    /\ todo' = StillThere
    /\ seen' = [n \in Nodes |-> IF n \in StillThere THEN api[n] ELSE Absent]
    /\ UNCHANGED <<observerVars, open, tries, failed, undone>>

\* An empty domain map is an error: 502, "no matching nodes found".
NoMatchingNodes ==
    /\ engine = "topology"
    /\ StillThere = {}
    /\ AttemptFails(TRUE)
    /\ UNCHANGED <<observerVars, open, undone>>

\* A loader, a list or the provider fails.
ReadFails(retryable) ==
    /\ engine \in {"list", "topology"}
    /\ AttemptFails(retryable)
    /\ UNCHANGED <<observerVars, open, undone>>

\* What the handlers of the informer tell apart.
View(s) == IF s = Absent THEN {} ELSE {s.labels}

\* The node is about to be again as the informer knows it.
ChangedBack(n, s) == View(cache[n]) # View(api[n]) /\ View(cache[n]) = View(s)

\* AddNodeLabels: Get, MergeNodeLabels and Update of one node.  The API server
\* refuses an Update of a node that has changed since the Get, so that a
\* successful one is a single step.
AddNodeLabels(n) ==
    /\ engine = "label"
    /\ n \in todo
    /\ api[n] # Absent
    /\ api' = [api EXCEPT ![n].labels.output = ToBlocks(n, seen)]
    /\ todo' = todo \ {n}
    /\ undone' = (undone \/ ChangedBack(n, api'[n]))
    /\ UNCHANGED <<cache, changes, wqVars, workerVars, unseen, gaveUp, open,
                   engine, tries, seen, failed>>

\* The node is gone, the update conflicts or the API server fails: 502.
LabellingFails(n) ==
    /\ engine = "label"
    /\ n \in todo
    /\ AttemptFails(TRUE)
    /\ UNCHANGED <<observerVars, open, undone>>

EndExecution ==
    /\ engine = "label"
    /\ todo = {}
    /\ engine' = "idle"
    /\ tries' = 0
    /\ seen' = [n \in Nodes |-> Absent]
    /\ failed' = FALSE
    /\ UNCHANGED <<observerVars, open, todo, undone>>

----------------------------------------------------------------------------

\* A cluster whose nodes have registered and not been labelled.
LoopInit ==
    /\ ObserverInit
    /\ \A n \in Nodes : api[n] # Absent => api[n].labels.output = NoLabel
    /\ open = FALSE
    /\ engine = "idle"
    /\ tries = 0
    /\ seen = [n \in Nodes |-> Absent]
    /\ todo = {}
    /\ failed = FALSE
    /\ undone = FALSE

\* A node registers.  It does not come back under its old name before the
\* informer has seen it leave.
NodeJoins(n, s) ==
    /\ api[n] = Absent /\ cache[n] = Absent
    /\ s.labels.output = NoLabel
    /\ ApiChange(n, s)
    /\ UNCHANGED <<open, engineVars, undone>>

NodeLeaves(n) ==
    /\ ApiChange(n, Absent)
    /\ undone' = (undone \/ ChangedBack(n, Absent))
    /\ UNCHANGED <<open, engineVars>>

\* Nobody but the engine writes the output labels.
NodeUpdated(n, s) ==
    /\ api[n] # Absent
    /\ s.labels.output = api[n].labels.output
    /\ LateAnnotations \/ s.rest = api[n].rest
    /\ ApiChange(n, s)
    /\ undone' = (undone \/ ChangedBack(n, s))
    /\ UNCHANGED <<open, engineVars>>

ObserverStep ==
    /\ (\E n \in Nodes : Deliver(n)) \/ Start \/ GetItem \/ Backoff \/ Done
    /\ UNCHANGED <<open, engineVars, undone>>

PostStep ==
    \/ PostOk
    \/ \E delivered, retryable \in BOOLEAN : PostFails(delivered, retryable)

EngineStep ==
    \/ StartExecution \/ ListNodes \/ ReadLabels \/ NoMatchingNodes \/ EndExecution
    \/ \E retryable \in BOOLEAN : ReadFails(retryable)
    \/ \E n \in Nodes : AddNodeLabels(n) \/ LabellingFails(n)

LoopNext ==
    \/ ObserverStep
    \/ PostStep
    \/ EngineStep
    \/ \E n \in Nodes :
           \/ NodeLeaves(n)
           \/ \E s \in NodeStates : NodeJoins(n, s) \/ NodeUpdated(n, s)

LoopSpec == LoopInit /\ [][LoopNext]_loopVars

\* Informer, worker and queue goroutine are scheduled and calls return.
LoopFairness ==
    /\ WF_loopVars(ObserverStep)
    /\ WF_loopVars(PostStep)
    /\ WF_loopVars(EngineStep)

FairLoopSpec == LoopSpec /\ LoopFairness

----------------------------------------------------------------------------
(* Properties.                                                              *)

\* Nothing is under way anywhere in the loop.
Quiescent ==
    /\ worker = "get" /\ ~queued
    /\ ~open /\ engine = "idle"
    /\ \A n \in Nodes : cache[n] = api[n]

Current(n) == api[n].labels.output = ToBlocks(n, api)

\* When the loop has come to rest, every annotated node of a clique carries the
\* number its block has among the cliques there are now, unless a POST or an
\* execution was given up.  Changes that arrive while a request is sent,
\* aggregated, read or being labelled are not lost, although each of them may
\* renumber the blocks of all other nodes (processEvent, TrailingDelayQueue,
\* ToBlocks, ApplyNodeLabels).  The exception is a node whose labels change and
\* change back while the watch is interrupted: an execution may have read them
\* in between, and the handlers, which compare two states, see no reason for
\* another.
RestMeansConverged ==
    (Quiescent /\ ~gaveUp /\ ~failed /\ ~undone) => \A n \in DomainNodes(api) : Current(n)

\* The comment of nodeUpdateAffectsTopology: "a label change is the only node
\* update that matters".  So a loop at rest has converged also when annotations
\* change, which getComputeInstances reads: it is violated with LateAnnotations.
OnlyLabelChangesMatter == LateAnnotations => RestMeansConverged

\* The loop comes to rest when the cluster does: the labels the engine writes
\* trigger at most a bounded number of further executions, although each of
\* them is a label change that the observer reports
\* (nodeUpdateAffectsTopology: "requeueing on those would regenerate topology
\* without end").
ComesToRest == <>[]Quiescent
=============================================================================
