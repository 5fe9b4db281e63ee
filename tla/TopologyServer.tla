--------------------------- MODULE TopologyServer ---------------------------
(***************************************************************************)
(* The topograph API server: pkg/server/http_server.go (the handlers) and  *)
(* pkg/server/engine.go (what the queue executes) around the queue of      *)
(* TrailingDelayQueue.  The items of the queue are topology requests.      *)
(*                                                                         *)
(* handle, one step of the queue, is here processRequestWithRetries: up to *)
(* maxRetries attempts of the stages of processTopologyRequest, each of    *)
(* which reads or writes outside the server and can fail.  The network is  *)
(* a version number that changes under the server; the output is a set of  *)
(* targets (node labels, a file, a ConfigMap) written one after another.   *)
(***************************************************************************)
EXTENDS TrailingDelayQueue

CONSTANTS
    Payloads,      \* requests clients post, as parsed from the body
    Providers,     \* registry.Providers
    Engines,       \* registry.Engines
    CfgProvider,   \* cfg.Provider: the default provider, "" if none
    CfgEngine,     \* cfg.Engine
    ErrorCodes,    \* codes of the errors the stages can fail with
    maxRetries,    \* attempts at one request
    Targets,       \* what the engine writes to
    MaxWorld       \* bound: how often the network changes

VARIABLES
    stage,      \* stage of processTopologyRequest, or sleeping before a retry
    attempt,    \* local attempt of processRequestWithRetries
    snapshot,   \* version of the oldest data this attempt works from
    todo,       \* targets the engine has still to write in this attempt
    content,    \* content[t]: request and version last written to target t
    world,      \* version of the network
    worldAt,    \* history: the version when u was last submitted
    tries,      \* history: attempts made for u
    lastDone    \* history: the request ID completed last

procVars  == <<stage, attempt, snapshot, todo>>
worldVars == <<content, world>>
histVars  == <<worldAt, tries, lastDone>>
serverVars == <<vars, procVars, worldVars, histVars>>

Requests == [provider : Providers, engine : Engines, nodes : BOOLEAN]

Unwritten == [item |-> NoItem, version |-> 0]

ASSUME ServerAssumption ==
    /\ Payloads \subseteq [provider : STRING, engine : STRING, nodes : BOOLEAN]
    /\ Requests \subseteq Items
    /\ maxRetries \in Nat \ {0}
    /\ ErrorCodes \subseteq 400..599
    /\ Statuses = {200} \cup ErrorCodes
    /\ MaxWorld \in Nat

----------------------------------------------------------------------------
(* http_server.go                                                           *)

\* readRequest: the configured provider and engine stand in for missing ones.
WithDefaults(p) ==
    [provider |-> IF p.provider = "" THEN CfgProvider ELSE p.provider,
     engine   |-> IF p.engine = "" THEN CfgEngine ELSE p.engine,
     nodes    |-> p.nodes]

\* Mutant: the provider is not validated.
validateEngineOnly(tr) == tr.engine \in Engines

validate(tr) == tr.provider \in Providers /\ tr.engine \in Engines

\* generate: a request that is not refused is submitted, and the client is
\* told its request ID.  A refused one (wrong method, unreadable or malformed
\* body, unknown provider or engine) changes nothing.
generate(p) ==
    /\ validate(WithDefaults(p))
    /\ Submit(WithDefaults(p))
    /\ worldAt' = [worldAt EXCEPT ![uid'] = world]
    /\ UNCHANGED <<procVars, worldVars, tries, lastDone>>

\* getresult
getresult(u) ==
    /\ Get(u)
    /\ UNCHANGED <<procVars, worldVars, histVars>>

----------------------------------------------------------------------------
(* engine.go                                                                *)

ShouldRetry(code) == code \in {408, 429, 500, 502, 503, 504}

\* The first attempt starts when run calls handle, the next ones after a
\* backoff.
StartAttempt(u) ==
    /\ stage' = "lookup"
    /\ attempt' = attempt + 1
    /\ tries' = [tries EXCEPT ![u] = @ + 1]

TakeRequest ==
    /\ RunTake
    /\ StartAttempt(uid)
    /\ UNCHANGED <<snapshot, todo, worldVars, worldAt, lastDone>>

\* Mutant: one attempt less.
EndAttemptEarly(code) ==
    IF ShouldRetry(code) /\ attempt + 1 < maxRetries
    THEN stage' = "backoff" /\ UNCHANGED <<vars, attempt>>
    ELSE RunHandle(code) /\ stage' = "none" /\ attempt' = 0

\* An attempt ends with a code.  It is the answer unless it is retryable and
\* attempts are left.
EndAttempt(code) ==
    IF ShouldRetry(code) /\ attempt # maxRetries
    THEN /\ stage' = "backoff"
         /\ UNCHANGED <<vars, attempt>>
    ELSE /\ RunHandle(code)
         /\ stage' = "none"
         /\ attempt' = 0

Fail(codes) ==
    /\ \E c \in codes : EndAttempt(c)
    /\ UNCHANGED <<snapshot, todo, worldVars, histVars>>

\* time.Sleep(wait)
Retry ==
    /\ stage = "backoff"
    /\ StartAttempt(runUid)
    /\ UNCHANGED <<vars, snapshot, todo, worldVars, worldAt, lastDone>>

\* registry.Engines.Get and registry.Providers.Get
Lookup ==
    /\ stage = "lookup"
    /\ IF runItem.engine \in Engines /\ runItem.provider \in Providers
       THEN /\ stage' = "load"
            /\ UNCHANGED <<vars, attempt, snapshot, todo, worldVars, histVars>>
       ELSE Fail({400})

\* engLoader and prvLoader
Load ==
    /\ stage = "load"
    /\ stage' = "instances"
    /\ UNCHANGED <<vars, attempt, snapshot, todo, worldVars, histVars>>

\* Without nodes in the payload the provider or the engine lists them now.
GetInstances ==
    /\ stage = "instances"
    /\ stage' = "topology"
    /\ snapshot' = IF runItem.nodes THEN snapshot ELSE world
    /\ UNCHANGED <<vars, attempt, todo, worldVars, histVars>>

\* forwardRequest or prv.GenerateTopologyConfig
GetTopology ==
    /\ stage = "topology"
    /\ stage' = "output"
    /\ snapshot' = IF runItem.nodes THEN world ELSE snapshot
    /\ todo' = Targets
    /\ UNCHANGED <<vars, attempt, worldVars, histVars>>

\* eng.GenerateOutput writes its targets in any order.
Write(t) ==
    /\ stage = "output"
    /\ t \in todo
    /\ todo' = todo \ {t}
    /\ content' = [content EXCEPT ![t] = [item |-> runItem, version |-> snapshot]]
    /\ UNCHANGED <<vars, stage, attempt, snapshot, world, histVars>>

\* Mutant: success is reported before every target is written.
SucceedEarly ==
    /\ stage = "output"
    /\ EndAttempt(200)
    /\ UNCHANGED <<snapshot, todo, worldVars, histVars>>

Succeed ==
    /\ stage = "output"
    /\ todo = {}
    /\ EndAttempt(200)
    /\ UNCHANGED <<snapshot, todo, worldVars, histVars>>

\* The loaders, GetComputeInstances, GenerateTopologyConfig and GenerateOutput
\* return an error.  Listing nodes cannot fail when the payload has them, and
\* the output can fail before or after a write.
StageFails ==
    /\ \/ stage \in {"load", "topology", "output"}
       \/ stage = "instances" /\ ~runItem.nodes
    /\ Fail(ErrorCodes)

\* Mutant: only successful results are stored.
StoreOnlyOk ==
    IF pc = "store" /\ runRes.status # 200
    THEN /\ pc' = "select"
         /\ runItem' = NoItem /\ runUid' = NoUid /\ runRes' = NoCompletion
         /\ UNCHANGED <<queueVars, clockVars, storeVars, shutdown, procVars, worldVars, histVars>>
    ELSE /\ RunStore
         /\ lastDone' = runUid
         /\ UNCHANGED <<procVars, worldVars, worldAt, tries>>

StoreResult ==
    /\ RunStore
    /\ lastDone' = runUid
    /\ UNCHANGED <<procVars, worldVars, worldAt, tries>>

----------------------------------------------------------------------------

ServerInit ==
    /\ Init
    /\ stage = "none"
    /\ attempt = 0
    /\ snapshot = 0
    /\ todo = {}
    /\ content = [t \in Targets |-> Unwritten]
    /\ world = 0
    /\ worldAt = [u \in Uids |-> 0]
    /\ tries = [u \in Uids |-> 0]
    /\ lastDone = NoUid

\* The network changes under the server.
ChangeWorld ==
    /\ world < MaxWorld
    /\ world' = world + 1
    /\ UNCHANGED <<vars, procVars, content, histVars>>

Processing ==
    \/ TakeRequest \/ Retry \/ Lookup \/ Load \/ GetInstances
    \/ GetTopology \/ (\E t \in Targets : Write(t)) \/ Succeed \/ StageFails
    \/ StoreResult

\* run's steps that do not concern the request being processed.
QueueStep == RunTick \/ RunSkip

ServerNext ==
    \/ \E p \in Payloads : generate(p)
    \/ \E u \in Uids : getresult(u)
    \/ (QueueStep \/ PassTime) /\ UNCHANGED <<procVars, worldVars, histVars>>
    \/ Processing
    \/ ChangeWorld

ServerSpec == ServerInit /\ [][ServerNext]_serverVars

\* As for the queue: its goroutine is scheduled, calls return, sleeps end.
ServerFairness ==
    /\ WF_serverVars(PassTime /\ UNCHANGED <<procVars, worldVars, histVars>>)
    /\ WF_serverVars((QueueStep /\ UNCHANGED <<procVars, worldVars, histVars>>)
                        \/ Processing)

FairServerSpec == ServerSpec /\ ServerFairness

----------------------------------------------------------------------------
(* Properties.                                                              *)

\* What the last executed request wrote: as long as no later request has
\* begun to write, a 200 under its ID means that every target holds its
\* output, from data read after it was last submitted.  Neither a failed
\* attempt that wrote some of the targets nor a request aggregated while the
\* previous one was executing breaks this (processRequestWithRetries, Submit).
OkMeansWritten ==
    (InStore(lastDone) /\ completion[lastDone].status = 200
        /\ stage \in {"none", "lookup", "load", "instances", "topology"}
        /\ attempt <= 1 /\ pc # "store")
    => \A t \in Targets :
           /\ content[t].item = lastItem[lastDone]
           /\ content[t].version >= worldAt[lastDone]

\* A retryable error is reported to the client only after maxRetries attempts,
\* and no request is attempted again once it has an answer
\* (processRequestWithRetries).
ErrorsAreRetried ==
    \A u \in Uids : InStore(u) /\ ShouldRetry(completion[u].status)
                        => tries[u] = maxRetries

\* A request that was accepted never fails for an unknown provider or engine:
\* what validate checked is what processTopologyRequest looks up.
NeverUnsupported ==
    stage = "lookup" => runItem.provider \in Providers /\ runItem.engine \in Engines

\* Every accepted request gets an answer once clients stop submitting, however
\* its attempts fail (processRequestWithRetries gives up).
EventuallyAnswered ==
    <>[][~\E p \in Payloads : generate(p)]_serverVars
        => \A u \in Uids : Pending(u) ~> InStore(u)
=============================================================================
