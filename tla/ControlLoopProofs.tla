------------------------- MODULE ControlLoopProofs -------------------------
(***************************************************************************)
(* Proofs about NodeObserver, for any number of nodes, pods, changes and   *)
(* attempts, and about ControlLoop, which it is a part of, when the        *)
(* annotations of a registered node do not change.                         *)
(***************************************************************************)
EXTENDS ControlLoop, FiniteSetTheorems, TLAPS

----------------------------------------------------------------------------
(* The observer.                                                            *)

\* The part of the state that the work queue and its worker share.
WorkerTypeOK ==
    /\ dirty \in BOOLEAN /\ queued \in BOOLEAN /\ processing \in BOOLEAN
    /\ unseen \in BOOLEAN /\ gaveUp \in BOOLEAN
    /\ worker \in {"starting", "get", "send", "backoff", "done"}

\* The key is being processed from Get to Done.
ProcessingInv == processing <=> worker \in {"send", "backoff", "done"}

OInv == WorkerTypeOK /\ ProcessingInv /\ WorkerNotStuck /\ NoLostTrigger

\* The observer starts with an empty work queue (NewStatusInformer).
LEMMA ObserverInitInv == ObserverInit => OInv
BY DEF ObserverInit, OInv, WorkerTypeOK, ProcessingInv, WorkerNotStuck, NoLostTrigger

\* An event handler keeps the invariant, wherever the worker is when it runs.
LEMMA DeliverInv == ASSUME OInv, NEW o \in Objects, Deliver(o) PROVE OInv'
<1>1. CASE Triggers(o, cache[o], api[o])
  BY <1>1 DEF OInv, WorkerTypeOK, ProcessingInv, WorkerNotStuck, NoLostTrigger, Deliver,
              QueueAdd, workerVars
<1>2. CASE ~Triggers(o, cache[o], api[o])
  BY <1>2 DEF OInv, WorkerTypeOK, ProcessingInv, WorkerNotStuck, NoLostTrigger, Deliver,
              wqVars, workerVars
<1> QED  BY <1>1, <1>2

\* Every step of the worker keeps the invariant.
LEMMA WorkerInv == ASSUME OInv, WorkerStep PROVE OInv'
<1> USE DEF OInv, WorkerTypeOK, ProcessingInv, WorkerNotStuck, NoLostTrigger, wqVars
<1>1. CASE Start
  BY <1>1 DEF Start
<1>2. CASE GetItem
  BY <1>2 DEF GetItem
<1>3. CASE SendOk
  BY <1>3 DEF SendOk
<1>4. CASE Backoff
  BY <1>4 DEF Backoff
<1>5. CASE Done
  BY <1>5 DEF Done
<1>6. ASSUME NEW d \in BOOLEAN, NEW t \in BOOLEAN, SendFails(d, t) PROVE OInv'
  BY <1>6 DEF SendFails
<1> QED  BY <1>1, <1>2, <1>3, <1>4, <1>5, <1>6 DEF WorkerStep

\* The invariant of work queue and worker (status_informer.go).
THEOREM ObserverInvariance == ObserverSpec => []OInv
<1>1. OInv /\ [ObserverNext]_observerVars => OInv'
  <2> SUFFICES ASSUME OInv, [ObserverNext]_observerVars PROVE OInv'
    OBVIOUS
  <2>1. ASSUME NEW o \in Objects, Deliver(o) PROVE OInv'
    BY <2>1, DeliverInv
  <2>2. ASSUME NEW o \in Objects, NEW s \in StatesOf(o), ApiChange(o, s) PROVE OInv'
    BY <2>2 DEF ApiChange, OInv, WorkerTypeOK, ProcessingInv, WorkerNotStuck,
                NoLostTrigger, wqVars, workerVars
  <2>3. CASE WorkerStep
    BY <2>3, WorkerInv
  <2>4. CASE UNCHANGED observerVars
    BY <2>4 DEF observerVars, OInv, WorkerTypeOK, ProcessingInv, WorkerNotStuck,
                NoLostTrigger, wqVars, workerVars
  <2> QED  BY <2>1, <2>2, <2>3, <2>4 DEF ObserverNext
<1> QED  BY <1>1, ObserverInitInv, PTL DEF ObserverSpec

\* No lost wake-up: a change that should reach the server is queued or being
\* sent, unless the attempts ran out (processEvent and the event handlers).
THEOREM TriggersNotLost == ObserverSpec => []NoLostTrigger
<1>1. OInv => NoLostTrigger
  BY DEF OInv
<1> QED  BY <1>1, ObserverInvariance, PTL

\* The worker never waits in queue.Get while a key is to be processed.
THEOREM WorkerGetsKey == ObserverSpec => []WorkerNotStuck
<1>1. OInv => WorkerNotStuck
  BY DEF OInv
<1> QED  BY <1>1, ObserverInvariance, PTL

----------------------------------------------------------------------------
(* The loop.                                                                *)

Stages == {"idle", "list", "topology", "label"}

LoopTypeOK ==
    /\ api \in [Nodes -> NodeStates \cup {Absent}]
    /\ cache \in [Nodes -> NodeStates \cup {Absent}]
    /\ open \in BOOLEAN
    /\ failed \in BOOLEAN
    /\ engine \in Stages
    /\ todo \subseteq Nodes
    /\ seen \in [Nodes -> NodeStates \cup {Absent}]
    /\ undone \in BOOLEAN

\* The informer is still to learn that a node came, left or has other labels.
Behind(n) == View(cache[n]) # View(api[n])

\* A request is going to be posted or executed.
Coming == unseen \/ open

\* Two states of the cluster with the same blocks.
SameDomains(s, t) ==
    /\ DomainNodes(s) = DomainNodes(t)
    /\ \A n \in DomainNodes(s) : s[n].labels.input = t[n].labels.input

Converged == \A n \in DomainNodes(api) : Current(n)

\* What the execution in progress has read and written is still true.
Fresh ==
    CASE engine = "idle" -> FALSE
      [] engine = "list" -> TRUE
      [] engine = "topology" -> /\ todo = getComputeInstances
                                /\ \A n \in todo : seen[n].rest = api[n].rest
      [] engine = "label" -> /\ SameDomains(seen, api)
                             /\ \A n \in DomainNodes(api) \ todo : Current(n)

\* The labels are up to date, or something is under way that will change that.
CaredFor ==
    \/ \E n \in Nodes : Behind(n)
    \/ Coming \/ undone
    \/ Fresh
    \/ engine = "idle" /\ (failed \/ Converged)

LoopInv ==
    /\ OInv
    /\ LoopTypeOK
    /\ CaredFor

----------------------------------------------------------------------------
(* Types.                                                                   *)

\* The objects are nodes, and a node is never Absent itself.
LEMMA NodesOnly == Objects = Nodes /\ Absent \notin NodeStates
  BY LoopAssumption, ObserverAssumption DEF Objects

\* A block number is at most the number of cliques.
LEMMA BlockNumbers ==
  ASSUME NEW s \in [Nodes -> NodeStates \cup {Absent}], NEW n
  PROVE  ToBlocks(n, s) \in Outputs
<1> DEFINE D == {c \in DomainMap(s) : c <= s[n].labels.input}
<1>1. D \subseteq Cliques
  BY LoopAssumption DEF DomainMap, DomainNodes, NodeStates
<1>2. IsFiniteSet(Cliques)
  BY LoopAssumption
<1> HIDE DEF D
<1>3. IsFiniteSet(D) /\ Cardinality(D) <= Cardinality(Cliques)
  BY <1>1, <1>2, FS_Subset
<1>4. Cardinality(D) \in Nat /\ Cardinality(Cliques) \in Nat
  BY <1>2, <1>3, FS_CardinalityType
<1> QED
  BY <1>3, <1>4 DEF D, ToBlocks, Outputs

\* Labelling a node gives a node.
LEMMA LabelledIsNode ==
  ASSUME LoopTypeOK, NEW n \in Nodes, api[n] # Absent
  PROVE  [api[n] EXCEPT !.labels.output = ToBlocks(n, seen)] \in NodeStates
<1>1. api[n] \in NodeStates
  BY DEF LoopTypeOK
<1>2. api[n].labels \in Labels /\ api[n].rest \in Rest
  BY <1>1 DEF NodeStates
<1>3. ToBlocks(n, seen) \in Outputs
  BY BlockNumbers DEF LoopTypeOK
<1>4. [api[n].labels EXCEPT !.output = ToBlocks(n, seen)] \in Labels
  BY <1>2, <1>3, LoopAssumption
<1> QED
  BY <1>1, <1>2, <1>4 DEF NodeStates

LEMMA AttemptFailsType ==
  ASSUME LoopTypeOK, NEW r \in BOOLEAN, AttemptFails(r), UNCHANGED <<api, cache, open, undone>>
  PROVE  LoopTypeOK'
  BY DEF AttemptFails, LoopTypeOK, Stages

LEMMA LoopNextType == LoopTypeOK /\ [LoopNext]_loopVars => LoopTypeOK'
<1> SUFFICES ASSUME LoopTypeOK, [LoopNext]_loopVars
             PROVE  LoopTypeOK'
  OBVIOUS
<1>1. ASSUME NEW n \in Nodes, Deliver(n), UNCHANGED <<open, engineVars, undone>>
      PROVE  LoopTypeOK'
  BY <1>1 DEF Deliver, engineVars, LoopTypeOK
<1>2. ASSUME Start \/ GetItem \/ Backoff \/ Done, UNCHANGED <<open, engineVars, undone>>
      PROVE  LoopTypeOK'
  BY <1>2 DEF Start, GetItem, Backoff, Done, informerVars, engineVars, LoopTypeOK
<1>3. CASE PostOk
  BY <1>3 DEF PostOk, SendOk, informerVars, engineVars, LoopTypeOK
<1>4. ASSUME NEW d \in BOOLEAN, NEW r \in BOOLEAN, PostFails(d, r)
      PROVE  LoopTypeOK'
  BY <1>4 DEF PostFails, SendFails, informerVars, engineVars, LoopTypeOK
<1>5. CASE StartExecution \/ EndExecution
  BY <1>5 DEF StartExecution, EndExecution, observerVars, informerVars, LoopTypeOK, Stages
<1>6. CASE ListNodes
  BY <1>6 DEF ListNodes, getComputeInstances, observerVars, informerVars, LoopTypeOK, Stages
<1>7. CASE ReadLabels
  BY <1>7 DEF ReadLabels, StillThere, DomainNodes, observerVars, informerVars, LoopTypeOK, Stages
<1>8. ASSUME NEW r \in BOOLEAN, ReadFails(r) PROVE LoopTypeOK'
  BY <1>8, AttemptFailsType DEF ReadFails, observerVars, informerVars
<1>8a. CASE NoMatchingNodes
  BY <1>8a, AttemptFailsType DEF NoMatchingNodes, observerVars, informerVars
<1>9. ASSUME NEW n \in Nodes, AddNodeLabels(n) PROVE LoopTypeOK'
  <2>1. api' \in [Nodes -> NodeStates \cup {Absent}]
    BY <1>9, LabelledIsNode DEF AddNodeLabels, LoopTypeOK
  <2> QED
    BY <1>9, <2>1 DEF AddNodeLabels, ChangedBack, LoopTypeOK
<1>10. ASSUME NEW n \in Nodes, LabellingFails(n) PROVE LoopTypeOK'
  BY <1>10, AttemptFailsType DEF LabellingFails, observerVars, informerVars
<1>11. ASSUME NEW n \in Nodes, NEW s \in NodeStates \cup {Absent}, ApiChange(n, s),
              UNCHANGED <<open, engineVars>>, undone' \in BOOLEAN
       PROVE  LoopTypeOK'
  BY <1>11 DEF ApiChange, engineVars, LoopTypeOK
<1>12. CASE UNCHANGED loopVars
  BY <1>12 DEF loopVars, observerVars, informerVars, engineVars, LoopTypeOK
<1> QED
  BY <1>1, <1>2, <1>3, <1>4, <1>5, <1>6, <1>7, <1>8, <1>8a, <1>9, <1>10, <1>11, <1>12
     DEF LoopNext, ObserverStep, PostStep, EngineStep, NodeJoins, NodeLeaves, NodeUpdated, ChangedBack,
     LoopTypeOK

----------------------------------------------------------------------------
(* The observer in the loop.                                                *)

LEMMA LoopObserverInv == OInv /\ [LoopNext]_loopVars => OInv'
<1> SUFFICES ASSUME OInv, [LoopNext]_loopVars
             PROVE  OInv'
  OBVIOUS
<1>1. ASSUME UNCHANGED <<wqVars, worker, unseen, gaveUp>> PROVE OInv'
  BY <1>1 DEF OInv, WorkerTypeOK, ProcessingInv, WorkerNotStuck, NoLostTrigger, wqVars
<1>2. CASE ObserverStep
  BY <1>2, DeliverInv, WorkerInv, NodesOnly DEF ObserverStep, WorkerStep
<1>3. CASE PostStep
  BY <1>3, WorkerInv DEF PostStep, PostOk, PostFails, WorkerStep
<1>4. CASE EngineStep
  BY <1>1, <1>4 DEF EngineStep, StartExecution, ListNodes, ReadLabels, NoMatchingNodes,
     EndExecution, ReadFails, AddNodeLabels, LabellingFails, observerVars, workerVars
<1>5. ASSUME NEW n \in Nodes, NEW s, ApiChange(n, s) PROVE OInv'
  BY <1>1, <1>5 DEF ApiChange, workerVars
<1>6. CASE UNCHANGED loopVars
  BY <1>1, <1>6 DEF loopVars, observerVars, workerVars
<1> QED
  BY <1>2, <1>3, <1>4, <1>5, <1>6 DEF LoopNext, NodeJoins, NodeLeaves, NodeUpdated

----------------------------------------------------------------------------
(* Nothing is forgotten.                                                    *)

\* The blocks depend on the annotated nodes and their cliques only.
LEMMA SameBlocks ==
  ASSUME NEW s, NEW t, SameDomains(s, t), NEW n \in DomainNodes(s)
  PROVE  ToBlocks(n, s) = ToBlocks(n, t)
<1>1. DomainMap(s) = DomainMap(t)
  BY DEF SameDomains, DomainMap
<1>2. s[n].labels.input = t[n].labels.input
  BY DEF SameDomains
<1> QED
  BY <1>1, <1>2 DEF ToBlocks

\* A step that leaves the nodes and the execution alone.
LEMMA NodesLeftAlone ==
  ASSUME CaredFor, UNCHANGED <<api, cache, engineVars>>, Coming => Coming', undone => undone'
  PROVE  CaredFor'
<1>1. UNCHANGED <<engine, seen, todo, failed>>
  BY DEF engineVars
<1>2. DomainNodes(api)' = DomainNodes(api) /\ getComputeInstances' = getComputeInstances
  BY DEF DomainNodes, getComputeInstances
<1>3. ASSUME NEW n PROVE Behind(n)' = Behind(n) /\ Current(n)' = Current(n)
  BY DEF Behind, Current, ToBlocks, DomainMap, DomainNodes
<1>4. Converged' = Converged
  BY <1>2, <1>3 DEF Converged
<1>5. SameDomains(seen, api)' = SameDomains(seen, api)
  BY <1>1 DEF SameDomains, DomainNodes
<1>6. Fresh' = Fresh
  BY <1>1, <1>2, <1>3, <1>5 DEF Fresh
<1> QED
  BY <1>1, <1>3, <1>4, <1>6 DEF CaredFor

\* The informer delivers a change.
LEMMA DeliverCares ==
  ASSUME LoopTypeOK, CaredFor, NEW m \in Nodes, Deliver(m), UNCHANGED <<open, engineVars, undone>>
  PROVE  CaredFor'
<1>1. /\ api' = api /\ cache' = [cache EXCEPT ![m] = api[m]] /\ (unseen => unseen')
      /\ cache \in [Nodes -> NodeStates \cup {Absent}]
  BY DEF Deliver, LoopTypeOK
<1>2. CASE Behind(m)
  <2>1. Triggers(m, cache[m], api[m])
    BY <1>2 DEF Behind, View, Triggers, NodeTriggers, nodeUpdateAffectsTopology
  <2>2. unseen'
    BY <2>1 DEF Deliver
  <2> QED
    BY <2>2 DEF CaredFor, Coming
<1>3. CASE ~Behind(m)
  <2>1. ASSUME NEW n \in Nodes, Behind(n) PROVE Behind(n)'
    BY <1>1, <1>3, <2>1 DEF Behind, View
  <2>2. UNCHANGED <<engine, seen, todo, failed>>
    BY DEF engineVars
  <2>3. /\ DomainNodes(api)' = DomainNodes(api) /\ getComputeInstances' = getComputeInstances
        /\ SameDomains(seen, api)' = SameDomains(seen, api)
    BY <1>1, <2>2 DEF DomainNodes, getComputeInstances, SameDomains
  <2>4. ASSUME NEW n PROVE Current(n)' = Current(n)
    BY <1>1 DEF Current, ToBlocks, DomainMap, DomainNodes
  <2>5. Fresh' = Fresh /\ Converged' = Converged
    BY <1>1, <2>2, <2>3, <2>4 DEF Fresh, Converged
  <2> QED
    BY <1>1, <2>1, <2>2, <2>5 DEF CaredFor, Coming
<1> QED
  BY <1>2, <1>3

\* A node changes in a way the informer is going to see, or changes back.
LEMMA ChangeIsCaredFor ==
  ASSUME LoopTypeOK, NEW m \in Nodes, NEW s, ApiChange(m, s), View(s) # View(api[m]),
         undone' = (undone \/ ChangedBack(m, s))
  PROVE  CaredFor'
<1>1. api'[m] = s /\ cache' = cache
  BY DEF ApiChange, LoopTypeOK
<1>2. CASE Behind(m)'
  BY <1>2 DEF CaredFor
<1>3. CASE ~Behind(m)'
  <2>1. View(cache[m]) = View(s)
    BY <1>1, <1>3 DEF Behind
  <2>2. undone'
    BY <2>1 DEF ChangedBack
  <2> QED
    BY <2>2 DEF CaredFor
<1> QED
  BY <1>2, <1>3

\* The engine labels a node.
LEMMA AddNodeLabelsCares ==
  ASSUME LoopTypeOK, CaredFor, NEW n \in Nodes, AddNodeLabels(n)
  PROVE  CaredFor'
<1>1. /\ engine = "label" /\ engine' = "label" /\ n \in todo /\ todo' = todo \ {n}
      /\ UNCHANGED <<cache, unseen, open, seen>>
      /\ api \in [Nodes -> NodeStates \cup {Absent}] /\ api[n] \in NodeStates
      /\ api' = [api EXCEPT ![n].labels.output = ToBlocks(n, seen)]
      /\ undone' = (undone \/ ChangedBack(n, api'[n]))
  BY DEF AddNodeLabels, LoopTypeOK
<1>2. /\ api'[n] \in NodeStates /\ api'[n].rest = api[n].rest
      /\ api'[n].labels.input = api[n].labels.input /\ api'[n].labels.output = ToBlocks(n, seen)
  <2>1. api'[n] = [api[n] EXCEPT !.labels.output = ToBlocks(n, seen)] /\ api[n] # Absent
    BY <1>1, NodesOnly
  <2>2. api'[n] \in NodeStates
    BY <2>1, LabelledIsNode
  <2>3. api[n].labels \in [input : Cliques \cup {NoClique}, output : Outputs]
    BY <1>1, LoopAssumption DEF NodeStates
  <2> QED
    BY <1>1, <2>1, <2>2, <2>3 DEF NodeStates
<1>3. \A m \in Nodes \ {n} : api'[m] = api[m]
  BY <1>1
<1>4. SameDomains(api', api)
  <2>1. DomainNodes(api') = DomainNodes(api)
    BY <1>1, <1>2, <1>3, NodesOnly DEF DomainNodes
  <2> QED
    BY <1>2, <1>3, <2>1 DEF SameDomains, DomainNodes
<1>5. CASE Fresh
  <2>1. SameDomains(seen, api) /\ \A m \in DomainNodes(api) \ todo : Current(m)
    BY <1>1, <1>5 DEF Fresh
  <2>2. SameDomains(seen, api')
    BY <1>4, <2>1 DEF SameDomains
  <2>3. ASSUME NEW m \in DomainNodes(api') \ todo' PROVE Current(m)'
    <3>1. m \in DomainNodes(api') /\ m \in DomainNodes(seen)
      BY <2>2, <2>3 DEF SameDomains
    <3>2. CASE m = n
      <4>1. ToBlocks(n, seen) = ToBlocks(n, api')
        BY <2>2, <3>1, <3>2, SameBlocks
      <4> QED
        BY <1>2, <3>2, <4>1 DEF Current
    <3>3. CASE m # n
      <4>1. Current(m) /\ m \in Nodes
        BY <1>1, <1>4, <2>1, <2>3, <3>3 DEF SameDomains, DomainNodes
      <4>2. ToBlocks(m, api') = ToBlocks(m, api)
        BY <1>4, <3>1, SameBlocks
      <4> QED
        BY <1>3, <3>3, <4>1, <4>2 DEF Current
    <3> QED
      BY <3>2, <3>3
  <2>4. Fresh'
    BY <1>1, <2>2, <2>3 DEF Fresh
  <2> QED
    BY <2>4 DEF CaredFor
<1>6. CASE Coming \/ undone
  BY <1>1, <1>6 DEF Coming, CaredFor
<1>7. ASSUME NEW m \in Nodes, Behind(m) PROVE CaredFor'
  <2>1. CASE m # n
    <3>1. Behind(m)'
      BY <1>1, <1>3, <1>7, <2>1 DEF Behind
    <3> QED
      BY <3>1 DEF CaredFor
  <2>2. CASE m = n
    <3>1. Behind(n)' \/ ChangedBack(n, api'[n])
      BY <1>1, <1>7, <2>2 DEF Behind, ChangedBack
    <3> QED
      BY <1>1, <3>1 DEF CaredFor
  <2> QED
    BY <2>1, <2>2
<1> QED
  BY <1>1, <1>5, <1>6, <1>7 DEF CaredFor

\* The second listing finds what the first one found.
LEMMA ReadLabelsCares ==
  ASSUME LoopTypeOK, CaredFor, ReadLabels
  PROVE  CaredFor'
<1>1. /\ UNCHANGED <<api, cache, unseen, open, undone>>
      /\ engine = "topology" /\ engine' = "label"
      /\ todo' = StillThere
      /\ seen' = [n \in Nodes |-> IF n \in StillThere THEN api[n] ELSE Absent]
  BY DEF ReadLabels, observerVars, informerVars
<1>2. CASE Fresh
  <2>1. StillThere = DomainNodes(api)
    BY <1>1, <1>2 DEF Fresh, StillThere, DomainNodes, getComputeInstances
  <2>2. DomainNodes(seen') = DomainNodes(api)
    BY <1>1, <2>1 DEF DomainNodes
  <2>3. SameDomains(seen', api')
    BY <1>1, <2>1, <2>2 DEF SameDomains, DomainNodes
  <2>4. Fresh'
    BY <1>1, <2>1, <2>3 DEF Fresh
  <2> QED
    BY <2>4 DEF CaredFor
<1>3. CASE ~Fresh
  BY <1>1, <1>3 DEF CaredFor, Behind, Coming
<1> QED
  BY <1>2, <1>3

\* The stages of an execution.
LEMMA EngineStepCares ==
  ASSUME LoopTypeOK, CaredFor, EngineStep
  PROVE  CaredFor'
<1>1. CASE StartExecution
  BY <1>1 DEF StartExecution, CaredFor, Fresh
<1>2. CASE ListNodes
  <2>1. UNCHANGED api /\ engine' = "topology" /\ todo' = getComputeInstances' /\ seen' = api'
    BY <1>2 DEF ListNodes, getComputeInstances, observerVars, informerVars
  <2> QED
    BY <2>1 DEF CaredFor, Fresh
<1>3. CASE ReadLabels
  BY <1>3, ReadLabelsCares
<1>4. ASSUME NEW r \in BOOLEAN, AttemptFails(r) PROVE CaredFor'
  BY <1>4 DEF AttemptFails, CaredFor, Fresh
<1>5. CASE EndExecution
  <2>1. /\ UNCHANGED <<api, cache, unseen, open, undone>>
        /\ engine = "label" /\ todo = {} /\ engine' = "idle"
    BY <1>5 DEF EndExecution, observerVars, informerVars
  <2>2. CASE Fresh
    <3>1. Converged
      BY <2>1, <2>2 DEF Fresh, Converged
    <3>2. Converged'
      BY <2>1, <3>1 DEF Converged, Current, ToBlocks, DomainMap, DomainNodes
    <3> QED
      BY <2>1, <3>2 DEF CaredFor
  <2>3. CASE ~Fresh
    BY <2>1, <2>3 DEF CaredFor, Behind, Coming
  <2> QED
    BY <2>2, <2>3
<1>6. ASSUME NEW n \in Nodes, AddNodeLabels(n) PROVE CaredFor'
  BY <1>6, AddNodeLabelsCares
<1> QED
  BY <1>1, <1>2, <1>3, <1>4, <1>5, <1>6 DEF EngineStep, ReadFails, NoMatchingNodes, LabellingFails

\* Every step cares for the labels, if annotations do not come late.
LEMMA LoopCares ==
  ASSUME LoopInv, ~LateAnnotations, LoopNext
  PROVE  CaredFor'
<1>1. LoopTypeOK /\ CaredFor
  BY DEF LoopInv
<1>2. CASE ObserverStep
  <2>1. UNCHANGED <<open, engineVars, undone>>
    BY <1>2 DEF ObserverStep
  <2>2. CASE \E m \in Nodes : Deliver(m)
    BY <1>1, <2>1, <2>2, DeliverCares
  <2>3. CASE Start \/ GetItem \/ Backoff \/ Done
    <3>1. UNCHANGED <<api, cache, unseen>>
      BY <2>3 DEF Start, GetItem, Backoff, Done, informerVars
    <3> QED
      BY <1>1, <2>1, <3>1, NodesLeftAlone DEF Coming
  <2> QED
    BY <1>2, <2>2, <2>3 DEF ObserverStep
<1>3. CASE PostStep
  <2>1. UNCHANGED <<api, cache, engineVars, undone>>
    BY <1>3 DEF PostStep, PostOk, PostFails, SendOk, SendFails, informerVars
  <2>2. Coming => Coming'
    BY <1>3 DEF PostStep, PostOk, PostFails, SendOk, SendFails, Coming, LoopInv, OInv, WorkerTypeOK,
       LoopTypeOK
  <2> QED
    BY <1>1, <2>1, <2>2, NodesLeftAlone
<1>4. CASE EngineStep
  BY <1>1, <1>4, EngineStepCares
<1>5. ASSUME NEW n \in Nodes, NodeLeaves(n) PROVE CaredFor'
  <2>1. View(Absent) # View(api[n])
    BY <1>5 DEF NodeLeaves, ApiChange, View
  <2> QED
    BY <1>1, <1>5, <2>1, ChangeIsCaredFor DEF NodeLeaves
<1>6. ASSUME NEW n \in Nodes, NEW s \in NodeStates, NodeJoins(n, s) PROVE CaredFor'
  <2>1. cache'[n] = Absent /\ api'[n] = s /\ s # Absent
    BY <1>1, <1>6, NodesOnly DEF NodeJoins, ApiChange, LoopTypeOK
  <2>2. Behind(n)'
    BY <2>1 DEF Behind, View
  <2> QED
    BY <2>2 DEF CaredFor
<1>7. ASSUME NEW n \in Nodes, NEW s \in NodeStates, NodeUpdated(n, s) PROVE CaredFor'
  <2>1. api[n] \in NodeStates /\ api[n] # Absent /\ s # Absent /\ s # api[n] /\ s.rest = api[n].rest
    BY <1>1, <1>7, NodesOnly DEF NodeUpdated, ApiChange, LoopTypeOK
  <2>2. s.labels # api[n].labels
    BY <2>1 DEF NodeStates
  <2>3. View(s) # View(api[n])
    BY <2>1, <2>2 DEF View
  <2> QED
    BY <1>1, <1>7, <2>3, ChangeIsCaredFor DEF NodeUpdated
<1> QED
  BY <1>2, <1>3, <1>4, <1>5, <1>6, <1>7 DEF LoopNext

----------------------------------------------------------------------------

LEMMA LoopInitInv == LoopInit => LoopInv
<1> SUFFICES ASSUME LoopInit PROVE LoopInv
  OBVIOUS
<1>1. OInv
  BY ObserverInitInv DEF LoopInit
<1>2. api \in [Nodes -> NodeStates \cup {Absent}] /\ cache = [n \in Nodes |-> Absent]
  <2>1. \A n \in Nodes : StatesOf(n) = NodeStates \cup {Absent}
    BY DEF StatesOf
  <2> QED
    BY <2>1, NodesOnly DEF LoopInit, ObserverInit
<1>3. LoopTypeOK
  BY <1>2 DEF LoopInit, LoopTypeOK, Stages
<1>4. CaredFor
  <2>1. CASE \E n \in Nodes : api[n] # Absent
    BY <1>2, <2>1 DEF CaredFor, Behind, View
  <2>2. CASE \A n \in Nodes : api[n] = Absent
    <3>1. DomainNodes(api) = {}
      BY <2>2 DEF DomainNodes
    <3> QED
      BY <3>1 DEF CaredFor, Converged, LoopInit
  <2> QED
    BY <2>1, <2>2
<1> QED
  BY <1>1, <1>3, <1>4 DEF LoopInv

LEMMA LoopNextInv ==
  ASSUME ~LateAnnotations
  PROVE  LoopInv /\ [LoopNext]_loopVars => LoopInv'
<1> SUFFICES ASSUME LoopInv, [LoopNext]_loopVars
             PROVE  LoopInv'
  OBVIOUS
<1>1. OInv' /\ LoopTypeOK'
  BY LoopObserverInv, LoopNextType DEF LoopInv
<1>2. CASE LoopNext
  BY <1>1, <1>2, LoopCares DEF LoopInv
<1>3. CASE UNCHANGED loopVars
  <2>1. UNCHANGED <<api, cache, unseen, open, undone, engineVars>>
    BY <1>3 DEF loopVars, observerVars, informerVars
  <2>2. CaredFor'
    BY <2>1, NodesLeftAlone DEF Coming, LoopInv
  <2> QED
    BY <1>1, <2>2 DEF LoopInv
<1> QED
  BY <1>2, <1>3

\* Whatever happens to any number of nodes, and however often: a loop that has
\* come to rest has labelled every annotated node of a clique with the number of
\* its block among the present cliques, if the annotations of registered nodes
\* do not change (processEvent, GenerateTopologyConfig of dra, ToBlocks,
\* ApplyNodeLabels).
THEOREM RestIsConverged ==
  ASSUME ~LateAnnotations
  PROVE  LoopSpec => []RestMeansConverged
<1>1. LoopInv => RestMeansConverged
  <2> SUFFICES ASSUME LoopInv, Quiescent, ~gaveUp, ~failed, ~undone
               PROVE  Converged
    BY DEF RestMeansConverged, Converged
  <2>1. \A n \in Nodes : ~Behind(n)
    BY DEF Quiescent, Behind
  <2>2. ~Coming
    BY DEF Quiescent, Coming, LoopInv, OInv, WorkerTypeOK, ProcessingInv, WorkerNotStuck, NoLostTrigger
  <2>3. ~Fresh
    BY DEF Quiescent, Fresh
  <2>4. CaredFor
    BY DEF LoopInv
  <2> QED
    BY <2>1, <2>2, <2>3, <2>4 DEF CaredFor
<1>2. LoopInv /\ [LoopNext]_loopVars => LoopInv'
  BY LoopNextInv
<1> QED
  BY <1>1, <1>2, LoopInitInv, PTL DEF LoopSpec
============================================================================
