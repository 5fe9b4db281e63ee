---------------------------- MODULE NodeObserver ----------------------------
(***************************************************************************)
(* pkg/node_observer/status_informer.go with internal/httpreq: the process *)
(* that watches nodes and pods and posts a topology request when a change  *)
(* may affect the topology.  Informer callbacks and the worker goroutine   *)
(* share a work queue of client-go that only ever holds one key.           *)
(*                                                                         *)
(* The API server and the watch are outside the repository: objects change *)
(* at any time, and the informer catches up object by object, later, maybe *)
(* skipping intermediate states (a relist).                                *)
(***************************************************************************)
EXTENDS Naturals

CONSTANTS
    Nodes, Pods,   \* the objects that match the selectors of the trigger
    Labels,        \* values of a node's labels
    Rest,          \* values of the other fields of a node
    Absent,        \* an object that does not exist
    maxRetries,    \* HTTP attempts per work item
    MaxChanges     \* bound: how often the environment changes an object

VARIABLES
    api,         \* objects in the API server
    cache,       \* objects in the informer stores
    changes,     \* changes made by the environment so far
    dirty,       \* work queue: the key is to be processed
    queued,      \* work queue: the key is in the queue
    processing,  \* work queue: the key was handed out and is not Done
    worker,      \* where the goroutine of Start is
    attempt,     \* local attempt of DoRequestWithRetries
    unseen,      \* history: a trigger was not followed by a delivered POST
    gaveUp       \* history: attempts ran out for an unseen trigger

informerVars == <<api, cache, changes>>
wqVars       == <<dirty, queued, processing>>
workerVars   == <<worker, attempt>>
observerVars == <<informerVars, wqVars, workerVars, unseen, gaveUp>>

Objects == Nodes \cup Pods

NodeStates == [labels : Labels, rest : Rest]
PodStates  == [ready : BOOLEAN]         \* k8s.IsPodReady
StatesOf(o) == (IF o \in Nodes THEN NodeStates ELSE PodStates) \cup {Absent}

ASSUME ObserverAssumption ==
    /\ Nodes \cap Pods = {}
    /\ Absent \notin NodeStates \cup PodStates
    /\ maxRetries \in Nat \ {0}
    /\ MaxChanges \in Nat

----------------------------------------------------------------------------
(* The event handlers.                                                      *)

\* Mutant: no update handler for nodes.
noNodeUpdateHandler(old, new) == FALSE

nodeUpdateAffectsTopology(old, new) == old.labels # new.labels

NodeTriggers(old, new) ==
    old # Absent /\ new # Absent => nodeUpdateAffectsTopology(old, new)

PodTriggers(old, new) ==
    IF old = Absent THEN new.ready ELSE new # Absent => old.ready # new.ready

Triggers(o, old, new) ==
    IF o \in Nodes THEN NodeTriggers(old, new) ELSE PodTriggers(old, new)

\* Mutant: a key that is being processed is not added.
QueueAddIfIdle ==
    /\ dirty' = (dirty \/ ~processing)
    /\ queued' = (queued \/ ~processing)
    /\ UNCHANGED processing

\* workqueue.Add: a key that is being processed is queued again by Done.
QueueAdd ==
    /\ dirty' = TRUE
    /\ queued' = (queued \/ ~processing)
    /\ UNCHANGED processing

\* The informer learns the state of an object and calls its event handler.
Deliver(o) ==
    /\ cache[o] # api[o]
    /\ cache' = [cache EXCEPT ![o] = api[o]]
    /\ IF Triggers(o, cache[o], api[o])
       THEN QueueAdd /\ unseen' = TRUE
       ELSE UNCHANGED <<wqVars, unseen>>
    /\ UNCHANGED <<api, changes, workerVars, gaveUp>>

----------------------------------------------------------------------------
(* The worker: Start, then processEvent for ever.                           *)

\* WaitForCacheSync: the worker starts when the initial lists are loaded.  An
\* object created while they load is taken to be in them.
Start ==
    /\ worker = "starting"
    /\ \A o \in Objects : cache[o] = Absent => api[o] = Absent
    /\ worker' = "get"
    /\ UNCHANGED <<informerVars, wqVars, attempt, unseen, gaveUp>>

\* queue.Get, and the first attempt
GetItem ==
    /\ worker = "get"
    /\ queued
    /\ queued' = FALSE
    /\ dirty' = FALSE
    /\ processing' = TRUE
    /\ worker' = "send"
    /\ attempt' = 1
    /\ UNCHANGED <<informerVars, unseen, gaveUp>>

\* DoRequest succeeds: the server accepted the request.
SendOk ==
    /\ worker = "send"
    /\ worker' = "done"
    /\ unseen' = FALSE
    /\ gaveUp' = FALSE
    /\ UNCHANGED <<informerVars, wqVars, attempt>>

\* DoRequest fails: the request or only its response was lost, or the server
\* answered with an error.  The code decides whether it is worth a retry.
SendFails(delivered, retryable) ==
    /\ worker = "send"
    /\ worker' = IF retryable /\ attempt # maxRetries THEN "backoff" ELSE "done"
    /\ unseen' = (unseen /\ ~delivered)
    /\ gaveUp' = ((gaveUp \/ worker' = "done") /\ unseen')
    /\ UNCHANGED <<informerVars, wqVars, attempt>>

\* time.Sleep(wait)
Backoff ==
    /\ worker = "backoff"
    /\ worker' = "send"
    /\ attempt' = attempt + 1
    /\ UNCHANGED <<informerVars, wqVars, unseen, gaveUp>>

\* Mutants: a key added meanwhile is not handed out again; the key is always
\* handed out again.
DoneForgets ==
    /\ worker = "done"
    /\ processing' = FALSE
    /\ worker' = "get"
    /\ attempt' = 0
    /\ UNCHANGED <<informerVars, dirty, queued, unseen, gaveUp>>

DoneRequeues ==
    /\ worker = "done"
    /\ processing' = FALSE
    /\ queued' = TRUE /\ dirty' = TRUE
    /\ worker' = "get"
    /\ attempt' = 0
    /\ UNCHANGED <<informerVars, unseen, gaveUp>>

\* queue.Forget only concerns the rate limiter; queue.Done hands the key out
\* again if it was added meanwhile.
Done ==
    /\ worker = "done"
    /\ processing' = FALSE
    /\ queued' = dirty
    /\ worker' = "get"
    /\ attempt' = 0
    /\ UNCHANGED <<informerVars, dirty, unseen, gaveUp>>

----------------------------------------------------------------------------

ObserverInit ==
    /\ api \in [Objects -> UNION {StatesOf(o) : o \in Objects}]
    /\ \A o \in Objects : api[o] \in StatesOf(o)
    /\ cache = [o \in Objects |-> Absent]
    /\ changes = 0
    /\ dirty = FALSE /\ queued = FALSE /\ processing = FALSE
    /\ worker = "starting"
    /\ attempt = 0
    /\ unseen = FALSE
    /\ gaveUp = FALSE

\* An object is created, changed or deleted in the cluster.
ApiChange(o, s) ==
    /\ changes < MaxChanges
    /\ s # api[o]
    /\ api' = [api EXCEPT ![o] = s]
    /\ changes' = changes + 1
    /\ UNCHANGED <<cache, wqVars, workerVars, unseen, gaveUp>>

WorkerStep ==
    \/ Start \/ GetItem \/ SendOk \/ Backoff \/ Done
    \/ \E delivered, retryable \in BOOLEAN : SendFails(delivered, retryable)

ObserverNext ==
    \/ \E o \in Objects : Deliver(o)
    \/ \E o \in Objects : \E s \in StatesOf(o) : ApiChange(o, s)
    \/ WorkerStep

ObserverSpec == ObserverInit /\ [][ObserverNext]_observerVars

\* The watch catches up and the worker is scheduled.  That the server ever
\* accepts a request is not assumed.
ObserverFairness ==
    /\ \A o \in Objects : WF_observerVars(Deliver(o))
    /\ WF_observerVars(WorkerStep)

FairObserverSpec == ObserverSpec /\ ObserverFairness

----------------------------------------------------------------------------
(* Properties.                                                              *)

\* No lost wake-up: a change that should reach the server is still going to be
\* posted, also when it arrived while the worker was sending for an earlier
\* one, unless the attempts ran out (processEvent and the event handlers).
NoLostTrigger ==
    unseen => \/ dirty
              \/ worker \in {"send", "backoff"}
              \/ gaveUp

\* The key is in the queue exactly when it is to be processed and nobody is
\* processing it, so the only worker is never left waiting for a key that is
\* dirty (queue.Add, Get and Done as processEvent uses them).
WorkerNotStuck == queued <=> (dirty /\ ~processing)

\* A change that affects the topology is posted, or the attempts run out
\* (DoRequestWithRetries).
EventuallyPosted == unseen ~> (~unseen \/ gaveUp)
=============================================================================
