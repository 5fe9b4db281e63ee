--------------------------- MODULE AsyncRequests ---------------------------
(***************************************************************************)
(* What the asynchronous API of topograph promises to its clients, without *)
(* a queue, a clock or a lock.  A client that posts a request is given a   *)
(* request ID.  Requests posted while an ID is still open are aggregated   *)
(* under that ID, the last one wins, and every ID is executed once.  The   *)
(* results of the most recent executions are remembered.                   *)
(***************************************************************************)
EXTENDS Naturals, FiniteSets

CONSTANTS
    Items,       \* the request payloads
    Statuses,    \* the outcomes of an execution
    NoRequest,   \* no payload yet
    NoResult,    \* no result, or no longer
    MaxUid,      \* bound: how many request IDs are ever issued
    History      \* how many results are remembered

VARIABLES
    phase,       \* phase[u]: where request ID u is in its life
    request,     \* request[u]: the payload an execution of u works on
    result       \* result[u]: what the execution of u returned

asyncVars == <<phase, request, result>>

AsyncUids == 1..MaxUid

Phases == {"unused", "open", "running", "done", "forgotten"}

In(p) == {u \in AsyncUids : phase[u] = p}

AsyncInit ==
    /\ phase = [u \in AsyncUids |-> "unused"]
    /\ request = [u \in AsyncUids |-> NoRequest]
    /\ result = [u \in AsyncUids |-> NoResult]

\* A request under a new ID: only when no ID is open.
OpenRequest(u, i) ==
    /\ In("open") = {}
    /\ phase[u] = "unused"
    /\ phase' = [phase EXCEPT ![u] = "open"]
    /\ request' = [request EXCEPT ![u] = i]
    /\ UNCHANGED result

\* A request aggregated under the open ID: it replaces the previous payload.
AggregateRequest(u, i) ==
    /\ phase[u] = "open"
    /\ request' = [request EXCEPT ![u] = i]
    /\ UNCHANGED <<phase, result>>

\* One ID is executed at a time, and what it works on is settled from here.
BeginExecution(u) ==
    /\ phase[u] = "open"
    /\ In("running") = {}
    /\ phase' = [phase EXCEPT ![u] = "running"]
    /\ UNCHANGED <<request, result>>

\* The result is that of the request last made under the ID.  A result is
\* forgotten exactly when History results are already remembered.
EndExecution(u, s, forget) ==
    /\ phase[u] = "running"
    /\ forget \subseteq In("done")
    /\ Cardinality(forget) = IF Cardinality(In("done")) < History THEN 0 ELSE 1
    /\ phase' = [v \in AsyncUids |-> CASE v = u -> "done"
                                       [] v \in forget -> "forgotten"
                                       [] OTHER -> phase[v]]
    /\ result' = [v \in AsyncUids |->
                      CASE v = u -> [item |-> request[u], status |-> s]
                        [] v \in forget -> NoResult
                        [] OTHER -> result[v]]
    /\ UNCHANGED request

AsyncNext ==
    \E u \in AsyncUids :
        \/ \E i \in Items : OpenRequest(u, i) \/ AggregateRequest(u, i)
        \/ BeginExecution(u)
        \/ \E s \in Statuses, forget \in SUBSET In("done") :
               EndExecution(u, s, forget)

AsyncSpec == AsyncInit /\ [][AsyncNext]_asyncVars
=============================================================================
