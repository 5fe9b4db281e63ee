------------------------- MODULE TrailingDelayQueue -------------------------
(***************************************************************************)
(* pkg/server/trailing_delay_queue.go: the queue between the HTTP handlers *)
(* and the topology generation.  Submit, Get and Shutdown are called by    *)
(* any number of HTTP handler goroutines; run is the queue's own goroutine.*)
(* Every critical section of the mutex is one action.  Between them the    *)
(* mutex is free and any handler may run, also while handle executes.      *)
(*                                                                         *)
(* Time is counted in ticks of which Delay make one period of the ticker;  *)
(* it passes between any two steps.  The clock saturates at MaxSince: past *)
(* Delay the code cannot tell two durations apart.                         *)
(***************************************************************************)
EXTENDS Naturals

CONSTANTS
    Items,               \* request payloads
    Statuses,            \* HTTP status codes handle can end with
    NoItem,              \* the nil item
    NoCompletion,        \* no value in the store
    Delay,               \* q.delay in clock ticks
    MaxSince,            \* bound: where the clock since lastTime saturates
    MaxUid,              \* bound: how many request IDs are issued
    RequestHistorySize   \* capacity of the LRU store

ASSUME QueueAssumption ==
    /\ NoItem \notin Items
    /\ Statuses \subseteq Nat
    /\ NoCompletion \notin [item : Items, status : Statuses]
    /\ Delay \in Nat \ {0}
    /\ MaxSince \in Nat /\ MaxSince > Delay
    /\ MaxUid \in Nat
    /\ RequestHistorySize \in Nat \ {0}

VARIABLES
    item,       \* q.item
    since,      \* time.Since(q.lastTime)
    uid,        \* q.uid
    rank,       \* q.store: rank[u] is 1 for the most recently used entry,
                \* 0 when u is not in the store
    completion, \* q.store: the value kept for u
    shutdown,   \* q.shutdown is closed
    toTick,     \* time until the ticker fires
    tick,       \* q.ticker.C holds a tick (its buffer is of size one)
    pc,         \* where the goroutine run is
    runItem,    \* local item of run
    runUid,     \* local uid of run
    runRes,     \* local res of run
    issued,     \* how many uuid.New() calls so far; the n-th returns n
    lastItem    \* history: the item last submitted under each request ID

clockVars == <<since, toTick, tick>>
storeVars == <<rank, completion>>
runVars   == <<pc, runItem, runUid, runRes>>
queueVars == <<item, uid, issued, lastItem>>
vars == <<queueVars, clockVars, storeVars, runVars, shutdown>>

NoUid == 0

Uids == 1..MaxUid

Completions == [item : Items, status : Statuses]

----------------------------------------------------------------------------
(* The LRU store (hashicorp/golang-lru), as ranks by recency of use.        *)

InStore(u) == u \in Uids /\ rank[u] # 0

\* store.Add(u, _), and store.Get(u) of a present entry, move u to the front.
\* The entries in front of it, all of them when u is new, go back one place;
\* the one that leaves the last place of a full store is evicted.
MoveToFront(r, u) ==
    [v \in Uids |->
        IF v = u THEN 1
        ELSE IF r[v] = 0 \/ (r[u] # 0 /\ r[v] > r[u]) THEN r[v]
        ELSE IF r[v] = RequestHistorySize THEN 0
        ELSE r[v] + 1]

Evicted(r, u) == {v \in Uids : r[v] # 0 /\ MoveToFront(r, u)[v] = 0}

----------------------------------------------------------------------------

Init ==
    /\ item = NoItem
    /\ since = MaxSince                \* lastTime is the zero time
    /\ uid = NoUid
    /\ rank = [u \in Uids |-> 0]
    /\ completion = [u \in Uids |-> NoCompletion]
    /\ shutdown = FALSE
    /\ toTick = Delay
    /\ tick = FALSE
    /\ pc = "select"
    /\ runItem = NoItem
    /\ runUid = NoUid
    /\ runRes = NoCompletion
    /\ issued = 0
    /\ lastItem = [u \in Uids |-> NoItem]

\* Mutant: Submit always creates a request ID.
SubmitNewUid(i) ==
    /\ issued + 1 \in Uids
    /\ item' = i
    /\ since' = 0
    /\ uid' = issued + 1
    /\ issued' = issued + 1
    /\ lastItem' = [lastItem EXCEPT ![issued + 1] = i]
    /\ UNCHANGED <<toTick, tick, storeVars, runVars, shutdown>>

\* Submit: the item replaces a pending one, the delay starts anew, and the
\* request ID is that of the pending item if there is one.
Submit(i) ==
    LET u == IF uid = NoUid THEN issued + 1 ELSE uid
    IN  /\ u \in Uids
        /\ item' = i
        /\ since' = 0
        /\ uid' = u
        /\ issued' = IF uid = NoUid THEN issued + 1 ELSE issued
        /\ lastItem' = [lastItem EXCEPT ![u] = i]
        /\ UNCHANGED <<toTick, tick, storeVars, runVars, shutdown>>

\* The status Get answers with: that of a stored completion, else 202 for
\* the pending request ID and 404 for any other.
Answer(u) ==
    IF InStore(u) THEN completion[u].status
    ELSE IF u = uid THEN 202
    ELSE 404

\* Get: the only state it changes is the recency of a stored entry.
Get(u) ==
    /\ rank' = IF InStore(u) THEN MoveToFront(rank, u) ELSE rank
    /\ UNCHANGED <<queueVars, clockVars, completion, runVars, shutdown>>

\* Closing a closed channel panics: callers close it once.
Shutdown ==
    /\ ~shutdown
    /\ shutdown' = TRUE
    /\ UNCHANGED <<queueVars, clockVars, storeVars, runVars>>

\* Time passes.  A tick that finds the channel full is dropped, and the
\* ticker is stopped when run returns.
PassTime ==
    /\ since' = IF since < MaxSince THEN since + 1 ELSE since
    /\ toTick' = IF toTick = 1 THEN Delay ELSE toTick - 1
    /\ tick' = (tick \/ (toTick = 1 /\ pc # "stopped"))
    /\ UNCHANGED <<queueVars, storeVars, runVars, shutdown>>

----------------------------------------------------------------------------
(* The goroutine run.                                                       *)

RunShutdown ==
    /\ pc = "select"
    /\ shutdown
    /\ pc' = "stopped"
    /\ UNCHANGED <<queueVars, clockVars, storeVars, runItem, runUid, runRes, shutdown>>

RunTick ==
    /\ pc = "select"
    /\ tick
    /\ tick' = FALSE
    /\ pc' = "check"
    /\ UNCHANGED <<queueVars, since, toTick, storeVars, runItem, runUid, runRes, shutdown>>

\* Mutant: the delay is compared with the wrong duration.
ReadyLate == since > 2 * Delay /\ item # NoItem

\* The critical section that takes the item, and with it the request ID.
Ready == since > Delay /\ item # NoItem

\* Mutant: the request ID stays with the queue while handle executes.
RunTakeKeepsUid ==
    /\ pc = "check"
    /\ Ready
    /\ runItem' = item
    /\ runUid' = uid
    /\ item' = NoItem
    /\ pc' = "handle"
    /\ UNCHANGED <<uid, issued, lastItem, clockVars, storeVars, runRes, shutdown>>

RunTake ==
    /\ pc = "check"
    /\ Ready
    /\ runItem' = item
    /\ runUid' = uid
    /\ item' = NoItem
    /\ uid' = NoUid
    /\ pc' = "handle"
    /\ UNCHANGED <<issued, lastItem, clockVars, storeVars, runRes, shutdown>>

\* Mutant: an item that is not ready yet is dropped.
RunSkipDropsItem ==
    /\ pc = "check"
    /\ ~Ready
    /\ pc' = "select"
    /\ item' = NoItem
    /\ UNCHANGED <<uid, issued, lastItem, clockVars, storeVars, runItem, runUid, runRes, shutdown>>

RunSkip ==
    /\ pc = "check"
    /\ ~Ready
    /\ pc' = "select"
    /\ UNCHANGED <<queueVars, clockVars, storeVars, runItem, runUid, runRes, shutdown>>

\* q.handle(item) returns: it ran without the mutex.
RunHandle(s) ==
    /\ pc = "handle"
    /\ runRes' = [item |-> runItem, status |-> s]
    /\ pc' = "store"
    /\ UNCHANGED <<queueVars, clockVars, storeVars, runItem, runUid, shutdown>>

\* store.Add(uid, res), and the locals go out of scope.
RunStore ==
    /\ pc = "store"
    /\ rank' = MoveToFront(rank, runUid)
    /\ completion' = [u \in Uids |->
                          IF u = runUid THEN runRes
                          ELSE IF u \in Evicted(rank, runUid) THEN NoCompletion
                          ELSE completion[u]]
    /\ pc' = "select"
    /\ runItem' = NoItem
    /\ runUid' = NoUid
    /\ runRes' = NoCompletion
    /\ UNCHANGED <<queueVars, clockVars, shutdown>>

RunStep ==
    \/ RunTick \/ RunTake \/ RunSkip \/ RunStore \/ RunShutdown
    \/ \E s \in Statuses : RunHandle(s)

Next ==
    \/ \E i \in Items : Submit(i)
    \/ \E u \in Uids : Get(u)
    \/ Shutdown
    \/ PassTime
    \/ RunStep

Spec == Init /\ [][Next]_vars

\* The goroutine is scheduled, handle returns (its retries are bounded) and
\* the clock does not stop.  Nothing is assumed of the clients.
Fairness == WF_vars(PassTime) /\ WF_vars(RunStep)

FairSpec == Spec /\ Fairness

----------------------------------------------------------------------------
(* Properties.                                                              *)

TypeOK ==
    /\ item \in Items \cup {NoItem}
    /\ since \in 0..MaxSince
    /\ uid \in Uids \cup {NoUid}
    /\ rank \in [Uids -> 0..RequestHistorySize]
    /\ completion \in [Uids -> Completions \cup {NoCompletion}]
    /\ shutdown \in BOOLEAN
    /\ toTick \in 1..Delay
    /\ tick \in BOOLEAN
    /\ pc \in {"select", "check", "handle", "store", "stopped"}
    /\ runItem \in Items \cup {NoItem}
    /\ runUid \in Uids \cup {NoUid}
    /\ runRes \in Completions \cup {NoCompletion}
    /\ issued \in 0..MaxUid
    /\ lastItem \in [Uids -> Items \cup {NoItem}]

\* Where the request ID u is in its life.
Pending(u) == u = uid
Running(u) == u = runUid
Lost(u)    == u \in 1..issued /\ ~Pending(u) /\ ~Running(u) /\ ~InStore(u)

Stage(u) ==
    IF u > issued THEN "unused"
    ELSE IF Pending(u) THEN "open"
    ELSE IF Running(u) THEN "running"
    ELSE IF InStore(u) THEN "done"
    ELSE "forgotten"

NextStage == [unused |-> "open", open |-> "running", running |-> "done",
              done |-> "forgotten", forgotten |-> "forgotten"]

\* The result stored under a request ID is the result of the last request
\* submitted under that ID: an aggregated submission is never dropped, and
\* one that arrives while run handles the previous item does not leak into
\* the result of that item (Submit and run of trailing_delay_queue.go).
ResultOfLastSubmission ==
    \A u \in Uids : InStore(u) => completion[u].item = lastItem[u]

\* Every request ID handed out by Submit is pending, being handled or has a
\* result in the store, unless the store is full and may have evicted it.
\* No interleaving of handlers with run loses an accepted request.
NoRequestLost ==
    (\E u \in Uids : Lost(u)) => \E u \in Uids : rank[u] = RequestHistorySize

\* A request ID only moves forward, one stage at a time: it is executed at
\* most once, it does not become pending again, and a result that was
\* evicted does not come back (run, Submit and Get).
LifeCycle ==
    [][\A u \in Uids : Stage(u)' \in {Stage(u), NextStage[Stage(u)]}]_vars

\* Once clients stop submitting, what is pending is executed and its result
\* is stored, if the queue is not shut down (run).
EventuallyCompleted ==
    ([]~shutdown /\ <>[][~\E i \in Items : Submit(i)]_vars)
        => \A u \in Uids : Pending(u) ~> InStore(u)

\* README.md, GET /v1/topology: "202 Accepted" means that the request is
\* still in progress and "404 Not Found" that the request ID does not exist.
\* Get answers 404 for the request that run is handling.
AcceptedWhileInProgress ==
    \A u \in Uids : Pending(u) \/ Running(u) => Answer(u) = 202

\* The queue implements the asynchronous API.
Async == INSTANCE AsyncRequests WITH
    History   <- RequestHistorySize,
    NoRequest <- NoItem,
    NoResult  <- NoCompletion,
    phase     <- [u \in Uids |-> Stage(u)],
    request   <- lastItem,
    result    <- completion

\* Every behaviour of the queue, seen through the stages of the request IDs,
\* is one the abstract API allows (trailing_delay_queue.go as a whole).
ImplementsAsyncRequests == Async!AsyncSpec
=============================================================================
