--------------------------- MODULE ProviderPaging ---------------------------
(***************************************************************************)
(* pkg/providers: generateInstanceTopology of the cloud providers, which   *)
(* collects the reports that ToThreeTierGraph builds its graph from.       *)
(*                                                                         *)
(* aws, gcp, oci, nebius and lambdai go through the regions of a request   *)
(* and, in each of them, through the pages of a listing; crusoe lists the  *)
(* nodes of its Kubernetes cluster once.  A provider talks to the API of   *)
(* the cloud ("api", external) or to the simulator of its provider_sim.go  *)
(* ("sim"), which cuts pages by index.                                     *)
(*                                                                         *)
(* A listing is a sequence of instances, and tokens are positions in it.   *)
(* oci lists one availability domain after another: the domains follow     *)
(* each other in the sequence and `stop' is where the present one ends.    *)
(***************************************************************************)
EXTENDS Naturals, Sequences, FiniteSets

CONSTANTS
    Nodes,              \* instance IDs
    MaxRegions,         \* bound on the regions of a request
    PageSizes,          \* values of pageSize in the configuration
    Nil,                \* pageSize is not configured
    ByIdLimit,          \* aws names the instances up to this number (100)
    DefaultPageSize,    \* defaultPageSize of aws and nebius (100, 200)
    DefaultMaxResults   \* page of the aws simulator for named instances (20)

VARIABLES
    provider,   \* which provider, fixed
    client,     \* "api" or "sim", fixed
    pageSize,   \* cfg.PageSize, fixed
    ids,        \* the instances there are, in the order they are listed, fixed
    shallow,    \* those with fewer than three switches above them, fixed
    cis,        \* the request: the regions and their instances, fixed
    stage,      \* "region", "page", "nodes" (crusoe) or "done"
    pending,    \* calls to make before the next region or page
    k,          \* the region at hand
    list,       \* what the client lists for it
    from,       \* the token: so much of `list' has been returned
    stop,       \* end of the present availability domain in `list'
    topo,       \* per region, how often an instance was appended to the result
    status      \* None, then "ok", an HTTP code, or "panic"

input == <<provider, client, pageSize, ids, shallow, cis>>

pagingVars == <<input, stage, pending, k, list, from, stop, topo, status>>

CloudProviders == {"aws", "gcp", "oci", "nebius", "lambdai", "crusoe"}
Regions == 1..MaxRegions

ASSUME PagingAssumption ==
    /\ IsFiniteSet(Nodes)
    /\ MaxRegions \in Nat \ {0}
    /\ PageSizes \subseteq Nat \cup {Nil}
    /\ Nil \notin Nat
    /\ ByIdLimit \in Nat
    /\ DefaultPageSize \in Nat \ {0}
    /\ DefaultMaxResults \in Nat \ {0}

\* The elements of a sequence.
Elements(s) == {s[j] : j \in DOMAIN s}

\* Sequences that name every element of S once: the orders in which Go may
\* range over a map with the keys S.
Orders(S) ==
    {s \in [1..Cardinality(S) -> S] :
        \A i \in S : \E j \in DOMAIN s : \A m \in DOMAIN s : s[m] = i <=> m = j}

Known == Elements(ids)

\* ComputeInstances.  Whether the region is named is all that matters of it.
RegionRequests == [named : BOOLEAN, want : SUBSET Nodes]

----------------------------------------------------------------------------
(* How the providers differ.                                                *)

SetupCalls == {"clientFactory", "ProjectID", "ListAvailabilityDomains"}

\* Calls before the first region: clientFactory, and ProjectID of gcp.
OnceCalls(p) ==
    CASE p = "gcp" -> <<"clientFactory", "ProjectID">>
      [] p \in {"nebius", "lambdai"} -> <<"clientFactory">>
      [] OTHER -> <<>>

\* Calls in each region before its pages.
RegionCalls(p) ==
    CASE p = "aws" -> <<"clientFactory">>
      [] p = "oci" -> <<"clientFactory", "ListAvailabilityDomains">>
      [] OTHER -> <<>>

\* input.InstanceIds is set and not empty.
ByIds(want) == provider = "aws" /\ want # {} /\ Cardinality(want) <= ByIdLimit

\* What a client may list in a region.  The IDs an aws request names come in
\* any order and may be unknown.
Listings(want) == IF ByIds(want) THEN Orders(want) ELSE {ids}

\* The ends of the first availability domain.  The simulator of oci has one.
DomainEnds(l) == IF provider = "oci" /\ client = "api" THEN 0..Len(l) ELSE {Len(l)}

\* Mutant: nil is taken for 0.
LimitNilIsZero(want) ==
    CASE provider = "aws" /\ (want = {} \/ ByIds(want)) -> DefaultMaxResults
      [] pageSize # Nil -> pageSize
      [] OTHER -> 0

\* Results per page.  The simulators of gcp and oci take all if pageSize is nil.
Limit(want) ==
    CASE provider = "aws" /\ (want = {} \/ ByIds(want)) -> DefaultMaxResults
      [] pageSize # Nil -> pageSize
      [] provider \in {"aws", "nebius"} -> DefaultPageSize
      [] OTHER -> Len(ids)

\* Whether the loop of a provider appends the report of an instance it is given.
\* All but lambdai look it up in ci.Instances.
AwsAppends(want, i) == i \in want

\* ResourceStatus, PhysicalHostTopology and its three levels must be set.
GcpAppends(want, i) == i \in want /\ i \notin shallow

\* convert fails unless all three levels are set.
OciAppends(want, i) == i \notin shallow /\ i \in want

\* hasNetIntf, and a path of three levels.
NebiusAppends(want, i) == i \in want /\ i \notin shallow

\* Whatever the path is.
LambdaiAppends(want, i) == TRUE

Appends(want, i) ==
    /\ i \in Known
    /\ CASE provider = "aws" -> AwsAppends(want, i)
         [] provider = "gcp" -> GcpAppends(want, i)
         [] provider = "oci" -> OciAppends(want, i)
         [] provider = "nebius" -> NebiusAppends(want, i)
         [] OTHER -> LambdaiAppends(want, i)

\* A report that the code indexes beyond its end: NetworkNodes[2] in convert of
\* aws, NetLayers[2] in the simulators of gcp and nebius.
Breaks(want, i) ==
    /\ i \in Known \cap shallow
    /\ \/ provider = "aws" /\ i \in want
       \/ provider \in {"gcp", "nebius"} /\ client = "sim"

Min2(a, b) == IF a < b THEN a ELSE b

\* External: a cloud returns a part of what is left, at most the limit.  The
\* iterator of gcp goes through all pages by itself; lambdai has one page.
ApiPageEnds(limit) ==
    IF provider \in {"gcp", "lambdai"} \/ from = stop THEN {stop}
    ELSE (from + 1)..(IF limit = 0 THEN stop ELSE Min2(from + limit, stop))

\* Where the simulators end the page that begins at `from'.
AwsSimPageEnd(limit) == Min2(from + limit, stop)

\* The end of the list is not looked at.
GcpSimPageEnd(limit) == from + limit

\* Nor here.
OciSimPageEnd(limit) == from + limit

\* Mutant: nor here.
NebiusSimPageEndUnbounded(limit) == from + limit

NebiusSimPageEnd(limit) == Min2(from + limit, stop)

SimPageEnd(limit) ==
    CASE provider = "aws" -> AwsSimPageEnd(limit)
      [] provider = "gcp" -> GcpSimPageEnd(limit)
      [] provider = "oci" -> OciSimPageEnd(limit)
      [] OTHER -> NebiusSimPageEnd(limit)

PageEnds(limit) == IF client = "sim" THEN {SimPageEnd(limit)} ELSE ApiPageEnds(limit)

----------------------------------------------------------------------------

NoReports == [i \in Nodes |-> 0]

PagingInit ==
    /\ \/ provider \in CloudProviders \ {"lambdai"} /\ client \in {"api", "sim"}
       \/ provider = "lambdai" /\ client = "api"
    /\ pageSize \in PageSizes
    /\ \E S \in SUBSET Nodes : ids \in Orders(S)
    /\ shallow \in SUBSET Nodes
    /\ cis \in UNION {[1..n -> RegionRequests] : n \in 0..MaxRegions}
    /\ stage = IF provider = "crusoe" THEN "nodes" ELSE "region"
    /\ pending = OnceCalls(provider)
    /\ k = 1
    /\ list = <<>>
    /\ from = 0
    /\ stop = 0
    /\ topo = [r \in Regions |-> NoReports]
    /\ status = "none"

Return(s) == stage' = "done" /\ status' = s

\* clientFactory, ProjectID or ListAvailabilityDomains succeeds.
SetupCall ==
    /\ stage \in {"region", "page"}
    /\ pending # <<>>
    /\ pending' = Tail(pending)
    /\ UNCHANGED <<input, stage, k, list, from, stop, topo, status>>

\* A call fails: the error is returned as 502 and the reports are dropped.  The
\* clientFactory of nebius and lambdai only fails in simulation.  crusoe refuses
\* several regions before it calls anything, and its simulator cannot fail.
CallFails ==
    /\ \/ /\ stage \in {"region", "page"} /\ pending # <<>>
          /\ provider \in {"nebius", "lambdai"} => client = "sim"
       \/ stage = "page" /\ pending = <<>>
       \/ stage = "nodes" /\ client = "api" /\ Len(cis) <= 1
    /\ Return("502")
    /\ UNCHANGED <<input, pending, k, list, from, stop, topo>>

\* The top of generateRegionInstanceTopology: a new request for region k.
NextRegion ==
    /\ stage = "region"
    /\ pending = <<>>
    /\ k <= Len(cis)
    /\ cis[k].named
    /\ stage' = "page"
    /\ pending' = RegionCalls(provider)
    /\ list' \in Listings(cis[k].want)
    /\ from' = 0
    /\ stop' \in DomainEnds(list')
    /\ UNCHANGED <<input, k, topo, status>>

\* "must specify region"
RegionMissing ==
    /\ stage = "region"
    /\ pending = <<>>
    /\ k <= Len(cis)
    /\ ~cis[k].named
    /\ Return("400")
    /\ UNCHANGED <<input, pending, k, list, from, stop, topo>>

\* The loop over the regions ends.
RegionsDone ==
    /\ stage = "region"
    /\ pending = <<>>
    /\ k > Len(cis)
    /\ Return("ok")
    /\ UNCHANGED <<input, pending, k, list, from, stop, topo>>

\* Mutant: the last entry of the page before is returned again.
EntriesOverlap(to) == {list[j] : j \in {n \in DOMAIN list : from <= n /\ n <= to}}

\* The instances on the page up to `to'.
Entries(to) == {list[j] : j \in {n \in DOMAIN list : from < n /\ n <= to}}

\* Mutant: a token also after the last entry.
HasNextAtEnd(to) == to <= stop

\* The answer has a token for a next page.
HasNext(to) == to < stop

\* A call reads c.instanceIDs beyond its end, or a report is too short.
PageCrashes(to) ==
    to > stop \/ \E i \in Entries(to) : Breaks(cis[k].want, i)

CrashOnPage ==
    /\ stage = "page"
    /\ pending = <<>>
    /\ \E to \in PageEnds(Limit(cis[k].want)) : PageCrashes(to)
    /\ Return("panic")
    /\ UNCHANGED <<input, pending, k, list, from, stop, topo>>

\* One round of the loop over pages: the call, the loop over what it returned,
\* and the next token, the next availability domain or the next region.  With a
\* limit of 0 the round has no effect: the loops of gcp, oci and nebius ask for
\* the same page again, and the simulator of aws does not return.
GetPage ==
    /\ stage = "page"
    /\ pending = <<>>
    /\ \E to \in PageEnds(Limit(cis[k].want)) :
         /\ ~PageCrashes(to)
         /\ topo' = [topo EXCEPT ![k] =
                        [i \in Nodes |-> IF i \in Entries(to) /\ Appends(cis[k].want, i)
                                         THEN topo[k][i] + 1 ELSE topo[k][i]]]
         /\ from' = to
         /\ \/ HasNext(to) /\ UNCHANGED <<stage, k, stop>>
            \/ ~HasNext(to) /\ stop < Len(list) /\ stop' = Len(list) /\ UNCHANGED <<stage, k>>
            \/ ~HasNext(to) /\ stop = Len(list) /\ stage' = "region" /\ k' = k + 1 /\ UNCHANGED stop
    /\ UNCHANGED <<input, pending, list, status>>

\* getRequestedNodeIDs and shouldSkipNode of crusoe: no IDs mean all nodes.
RequestedNodes ==
    IF cis = <<>> \/ cis[1].want = {} THEN Known ELSE Known \cap cis[1].want

\* The answer of crusoe: nodes without topology labels get defaults and are not
\* skipped, so that it is an error only if there are no nodes.
AnswerNodes ==
    /\ \/ Len(cis) > 1 /\ Return("400") /\ UNCHANGED topo
       \/ /\ Len(cis) <= 1 /\ RequestedNodes = {}
          /\ Return("404")
          /\ UNCHANGED topo
       \/ /\ Len(cis) <= 1 /\ RequestedNodes # {}
          /\ Return("ok")
          /\ topo' = [topo EXCEPT ![1] =
                         [i \in Nodes |-> IF i \in RequestedNodes THEN 1 ELSE 0]]
    /\ UNCHANGED <<input, pending, k, list, from, stop>>

\* generateInstanceTopology of crusoe: the nodes of the Kubernetes cluster.
ListNodes == stage = "nodes" /\ client = "api" /\ AnswerNodes

\* GenerateTopologyConfig of its simulator: the nodes of the capacity blocks.
BuildTopologyFromModel == stage = "nodes" /\ client = "sim" /\ AnswerNodes

\* The steps of a provider whose calls succeed.
Proceed ==
    \/ SetupCall
    \/ NextRegion \/ RegionMissing \/ RegionsDone
    \/ GetPage \/ CrashOnPage
    \/ ListNodes \/ BuildTopologyFromModel

PagingNext == Proceed \/ CallFails

PagingSpec == PagingInit /\ [][PagingNext]_pagingVars

\* Calls return, unless they fail.  That they fail at some time is not assumed: it
\* would end every loop.
PagingFairness == WF_pagingVars(Proceed)

----------------------------------------------------------------------------
(* Properties.                                                              *)

\* The variables have their types, and the token points into the listing.
PagingTypeOK ==
    /\ provider \in CloudProviders
    /\ client \in {"api", "sim"}
    /\ pageSize \in PageSizes
    /\ ids \in Seq(Nodes) /\ shallow \subseteq Nodes
    /\ cis \in Seq(RegionRequests) /\ Len(cis) <= MaxRegions
    /\ stage \in {"region", "page", "nodes", "done"}
    /\ pending \in Seq(SetupCalls)
    /\ k \in 1..(Len(cis) + 1)
    /\ list \in Seq(Nodes)
    /\ from \in 0..stop
    /\ stop \in 0..Len(list)
    /\ topo \in [Regions -> [Nodes -> Nat]]
    /\ status \in {"none", "ok", "400", "404", "502", "panic"}

\* What the result should have for instance i in region r.
Expected(r, i) ==
    IF provider = "crusoe" THEN r = 1 /\ i \in RequestedNodes
    ELSE r <= Len(cis) /\ Appends(cis[r].want, i)

\* A successful answer has exactly one report for every region and every instance
\* that the region asks for and the cloud can place: none is lost or repeated at a
\* boundary of pages, availability domains or regions, whatever sizes pages have
\* (the loops of generateRegionInstanceTopology and getComputeHostSummary with the
\* tokens of the simulators).
EachReportOnce ==
    status = "ok" =>
        \A r \in Regions, i \in Nodes : topo[r][i] = IF Expected(r, i) THEN 1 ELSE 0

\* A token is only followed while there is something left to return: no loop asks
\* for a page behind the last one (NextToken, OpcNextPage and NextPageToken).
NoPageBehindLast ==
    stage = "page" /\ from > 0 => from < Len(list)

\* The providers crash on nothing but an instance with fewer than three switches, and
\* the simulators of gcp and oci on a last page that is not full: the indexing
\* in convert of aws and in the simulators is safe otherwise.
CrashNeedsPartialData ==
    status = "panic" =>
        \/ shallow # {}
        \/ /\ client = "sim" /\ provider \in {"gcp", "oci"} /\ pageSize \in Nat \ {0}
           /\ Len(ids) % pageSize # 0 \/ ids = <<>>

\* generateInstanceTopology returns or crashes if the configured page size is not 0
\* (nothing checks that): its loops have no bound on the number of pages.
PagingEnds == pageSize # 0 => <>(stage = "done")
=============================================================================
