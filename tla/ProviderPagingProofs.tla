------------------------ MODULE ProviderPagingProofs ------------------------
(* Theorems about ProviderPaging.                                           *)
EXTENDS ProviderPaging, FiniteSetTheorems, TLAPS

\* s names no instance twice.
Distinct(s) == \A a, b \in DOMAIN s : s[a] = s[b] => a = b

\* Instance i of region r has been collected so far.
Collected(r, i) ==
    /\ r <= k /\ r <= Len(cis)
    /\ Appends(cis[r].want, i)
    /\ r = k => stage = "page" /\ \E j \in 1..from : list[j] = i

\* While region k is listed, the listing has all that the region can get.
ListingComplete ==
    stage = "page" =>
        /\ k <= Len(cis)
        /\ Distinct(list)
        /\ \A i \in Nodes : Appends(cis[k].want, i) => \E j \in DOMAIN list : list[j] = i

\* The result has the reports collected so far.
CollectedOnce ==
    stage \in {"region", "page"} =>
        \A r \in Regions, i \in Nodes : topo[r][i] = IF Collected(r, i) THEN 1 ELSE 0

\* crusoe has no regions, and only crusoe lists nodes.
StagesOfProvider ==
    /\ provider = "crusoe" => stage \in {"nodes", "done"}
    /\ stage = "nodes" => provider = "crusoe" /\ topo = [r \in Regions |-> NoReports]
    /\ stage # "done" => status = "none"

PagingInv ==
    /\ PagingTypeOK
    /\ Distinct(ids)
    /\ ListingComplete
    /\ CollectedOnce
    /\ StagesOfProvider
    /\ EachReportOnce
    /\ NoPageBehindLast

----------------------------------------------------------------------------

\* An order of a finite set of instances is a sequence without repetitions.
LEMMA OrdersAreLists ==
    ASSUME NEW S \in SUBSET Nodes, NEW s \in Orders(S)
    PROVE  /\ s \in Seq(Nodes)
           /\ Distinct(s)
           /\ \A i \in S : \E j \in DOMAIN s : s[j] = i
<1>1. IsFiniteSet(S)
  BY FS_Subset, PagingAssumption DEF PagingAssumption
<1>2. Cardinality(S) \in Nat
  BY <1>1, FS_CardinalityType
<1>3. s \in [1..Cardinality(S) -> S]
  BY DEF Orders
<1>4. s \in Seq(Nodes)
  BY <1>2, <1>3
<1>5. \A i \in S : \E j \in DOMAIN s : \A m \in DOMAIN s : s[m] = i <=> m = j
  BY DEF Orders
<1>6. Distinct(s)
  <2>1. SUFFICES ASSUME NEW a \in DOMAIN s, NEW b \in DOMAIN s, s[a] = s[b]
                 PROVE  a = b
    BY DEF Distinct
  <2>2. s[a] \in S
    BY <1>3
  <2> QED
    BY <1>5, <2>1, <2>2
<1> QED
  BY <1>4, <1>5, <1>6

LEMMA CallsAreSetupCalls ==
    ASSUME NEW p \in CloudProviders
    PROVE  OnceCalls(p) \in Seq(SetupCalls) /\ RegionCalls(p) \in Seq(SetupCalls)
<1>1. /\ <<>> \in Seq(SetupCalls)
      /\ <<"clientFactory">> \in Seq(SetupCalls)
      /\ <<"clientFactory", "ProjectID">> \in Seq(SetupCalls)
      /\ <<"clientFactory", "ListAvailabilityDomains">> \in Seq(SetupCalls)
  BY DEF SetupCalls
<1>2. OnceCalls(p) \in Seq(SetupCalls)
  BY <1>1, Zenon DEF OnceCalls
<1>3. RegionCalls(p) \in Seq(SetupCalls)
  BY <1>1, Zenon DEF RegionCalls
<1> QED
  BY <1>2, <1>3

LEMMA PagingInitInv == PagingInit => PagingInv
<1> SUFFICES ASSUME PagingInit PROVE PagingInv
  OBVIOUS
<1>1. PICK S \in SUBSET Nodes : ids \in Orders(S)
  BY DEF PagingInit
<1>2. ids \in Seq(Nodes) /\ Distinct(ids)
  BY <1>1, OrdersAreLists
<1>3. cis \in Seq(RegionRequests) /\ Len(cis) <= MaxRegions /\ Len(cis) \in Nat
  <2>1. PICK n \in 0..MaxRegions : cis \in [1..n -> RegionRequests]
    BY DEF PagingInit
  <2> QED
    BY <2>1, PagingAssumption DEF PagingAssumption
<1>4. provider \in CloudProviders /\ client \in {"api", "sim"}
  BY DEF PagingInit, CloudProviders
<1>5. pending \in Seq(SetupCalls)
  BY <1>4, CallsAreSetupCalls DEF PagingInit
<1>6. topo \in [Regions -> [Nodes -> Nat]]
  BY DEF PagingInit, NoReports
<1>7. PagingTypeOK
  BY <1>2, <1>3, <1>4, <1>5, <1>6 DEF PagingInit, PagingTypeOK
<1>8. ListingComplete /\ EachReportOnce /\ NoPageBehindLast
  BY DEF PagingInit, ListingComplete, EachReportOnce, NoPageBehindLast
<1>9. StagesOfProvider
  BY DEF PagingInit, StagesOfProvider
<1>10. CollectedOnce
  <2>1. ASSUME NEW r \in Regions, NEW i \in Nodes PROVE topo[r][i] = 0 /\ ~Collected(r, i)
    BY DEF PagingInit, NoReports, Collected, Regions
  <2> QED
    BY <2>1 DEF CollectedOnce
<1> QED
  BY <1>2, <1>7, <1>8, <1>9, <1>10 DEF PagingInv

----------------------------------------------------------------------------

\* The end of a page lies within the listing unless the call crashes.
LEMMA PageEndsInRange ==
    ASSUME PagingInv, stage = "page", NEW to \in PageEnds(Limit(cis[k].want)), to <= stop
    PROVE  to \in Nat /\ from <= to
<1>1. /\ from \in Nat /\ stop \in Nat /\ from <= stop /\ k \in 1..Len(cis)
      /\ cis \in Seq(RegionRequests) /\ ids \in Seq(Nodes) /\ pageSize \in PageSizes
  BY DEF PagingInv, PagingTypeOK, ListingComplete
<1>2. Limit(cis[k].want) \in Nat
  BY <1>1, PagingAssumption DEF Limit, PagingAssumption
<1>3. CASE client = "sim"
  BY <1>1, <1>2, <1>3 DEF PageEnds, SimPageEnd, AwsSimPageEnd, GcpSimPageEnd,
     OciSimPageEnd, NebiusSimPageEnd, Min2
<1>4. CASE client # "sim"
  BY <1>1, <1>2, <1>4 DEF PageEnds, ApiPageEnds, Min2
<1> QED
  BY <1>3, <1>4

\* A step that goes on in the same region and adds nothing.
LEMMA SetupCallInv == PagingInv /\ SetupCall => PagingInv'
<1> SUFFICES ASSUME PagingInv, SetupCall PROVE PagingInv'
  OBVIOUS
<1> USE DEF PagingInv, SetupCall, input
<1>1. PagingTypeOK'
  <2>1. pending' \in Seq(SetupCalls)
    BY DEF PagingTypeOK
  <2> QED
    BY <2>1 DEF PagingTypeOK
<1>2. Distinct(ids)' /\ ListingComplete' /\ StagesOfProvider' /\ NoPageBehindLast'
  BY DEF Distinct, ListingComplete, StagesOfProvider, NoPageBehindLast, Appends,
     AwsAppends, GcpAppends, OciAppends, NebiusAppends, LambdaiAppends, Known
<1>3. CollectedOnce'
  BY DEF CollectedOnce, Collected, Appends,
     AwsAppends, GcpAppends, OciAppends, NebiusAppends, LambdaiAppends, Known
<1>4. EachReportOnce'
  BY DEF EachReportOnce, StagesOfProvider
<1> QED
  BY <1>1, <1>2, <1>3, <1>4

\* A step that returns an error or crashes.
LEMMA ErrorInv ==
    ASSUME PagingInv, NEW s \in {"400", "404", "502", "panic"}, Return(s),
           UNCHANGED <<input, pending, k, list, from, stop, topo>>
    PROVE  PagingInv'
<1> USE DEF PagingInv, Return, input
<1>1. PagingTypeOK'
  BY DEF PagingTypeOK
<1>2. Distinct(ids)' /\ ListingComplete' /\ StagesOfProvider' /\ NoPageBehindLast'
  BY DEF Distinct, ListingComplete, StagesOfProvider, NoPageBehindLast
<1>3. CollectedOnce' /\ EachReportOnce'
  BY DEF CollectedOnce, EachReportOnce
<1> QED
  BY <1>1, <1>2, <1>3

LEMMA NextRegionInv == PagingInv /\ NextRegion => PagingInv'
<1> SUFFICES ASSUME PagingInv, NextRegion PROVE PagingInv'
  OBVIOUS
<1> DEFINE want == cis[k].want
<1>1. /\ stage = "region" /\ stage' = "page" /\ from' = 0 /\ k <= Len(cis)
      /\ UNCHANGED <<provider, client, pageSize, ids, shallow, cis, k, topo, status>>
      /\ list' \in Listings(want) /\ stop' \in DomainEnds(list')
      /\ pending' = RegionCalls(provider)
  BY DEF NextRegion, input
<1>2. k \in 1..Len(cis) /\ want \in SUBSET Nodes /\ ids \in Seq(Nodes) /\ provider \in CloudProviders
  <2>1. k \in 1..Len(cis) /\ cis \in Seq(RegionRequests)
    BY <1>1 DEF PagingInv, PagingTypeOK
  <2>2. cis[k] \in RegionRequests
    BY <2>1
  <2>3. want \in SUBSET Nodes
    BY <2>2 DEF RegionRequests
  <2> QED
    BY <2>1, <2>3 DEF PagingInv, PagingTypeOK
<1>3. /\ list' \in Seq(Nodes)
      /\ Distinct(list')
      /\ \A i \in Nodes : Appends(want, i) => \E j \in DOMAIN list' : list'[j] = i
  <2>1. CASE ByIds(want)
    <3>1. list' \in Orders(want)
      BY <1>1, <2>1 DEF Listings
    <3>2. \A i \in Nodes : Appends(want, i) => i \in want
      BY <2>1 DEF Appends, AwsAppends, ByIds
    <3> QED
      BY <1>2, <3>1, <3>2, OrdersAreLists
  <2>2. CASE ~ByIds(want)
    <3>1. list' = ids
      BY <1>1, <2>2 DEF Listings
    <3> QED
      BY <1>2, <3>1 DEF PagingInv, Appends,
     AwsAppends, GcpAppends, OciAppends, NebiusAppends, LambdaiAppends, Known, Elements
  <2> QED
    BY <2>1, <2>2
<1>4. stop' \in 0..Len(list')
  BY <1>1, <1>3 DEF DomainEnds
<1>5. pending' \in Seq(SetupCalls)
  BY <1>1, <1>2, CallsAreSetupCalls
<1>6. PagingTypeOK'
  BY <1>1, <1>3, <1>4, <1>5 DEF PagingInv, PagingTypeOK
<1>7. Distinct(ids)' /\ StagesOfProvider' /\ NoPageBehindLast' /\ EachReportOnce'
  BY <1>1 DEF PagingInv, Distinct, StagesOfProvider, NoPageBehindLast, EachReportOnce
<1>8. ListingComplete'
  BY <1>1, <1>3 DEF ListingComplete, Distinct, Appends,
     AwsAppends, GcpAppends, OciAppends, NebiusAppends, LambdaiAppends, Known
<1>9. CollectedOnce'
  <2>1. ASSUME NEW r \in Regions, NEW i \in Nodes PROVE Collected(r, i)' <=> Collected(r, i)
    BY <1>1, <1>2 DEF Collected, Appends,
     AwsAppends, GcpAppends, OciAppends, NebiusAppends, LambdaiAppends, Known, Regions
  <2> QED
    BY <1>1, <2>1 DEF PagingInv, CollectedOnce
<1> QED
  BY <1>6, <1>7, <1>8, <1>9 DEF PagingInv

LEMMA RegionsDoneInv == PagingInv /\ RegionsDone => PagingInv'
<1> SUFFICES ASSUME PagingInv, RegionsDone PROVE PagingInv'
  OBVIOUS
<1> USE DEF PagingInv, RegionsDone, Return, input
<1>1. PagingTypeOK'
  BY DEF PagingTypeOK
<1>2. Distinct(ids)' /\ ListingComplete' /\ StagesOfProvider' /\ NoPageBehindLast' /\ CollectedOnce'
  BY DEF Distinct, ListingComplete, StagesOfProvider, NoPageBehindLast, CollectedOnce
<1>3. EachReportOnce'
  <2>1. provider # "crusoe"
    BY DEF StagesOfProvider
  <2>2. ASSUME NEW r \in Regions, NEW i \in Nodes PROVE Collected(r, i) <=> Expected(r, i)'
    BY <2>1 DEF Collected, Expected, Appends,
     AwsAppends, GcpAppends, OciAppends, NebiusAppends, LambdaiAppends, Known, PagingTypeOK, Regions
  <2> QED
    BY <2>2 DEF EachReportOnce, CollectedOnce
<1> QED
  BY <1>1, <1>2, <1>3

LEMMA AnswerNodesInv == PagingInv /\ stage = "nodes" /\ AnswerNodes => PagingInv'
<1> SUFFICES ASSUME PagingInv, stage = "nodes", AnswerNodes PROVE PagingInv'
  OBVIOUS
<1>1. CASE UNCHANGED topo /\ (Return("400") \/ Return("404"))
  BY <1>1, ErrorInv DEF AnswerNodes
<1>2. CASE Return("ok") /\ topo' = [topo EXCEPT ![1] =
                        [i \in Nodes |-> IF i \in RequestedNodes THEN 1 ELSE 0]]
  <2> USE <1>2 DEF PagingInv, AnswerNodes, Return, input
  <2>1. 1 \in Regions
    BY PagingAssumption DEF PagingAssumption, Regions
  <2>2. topo' \in [Regions -> [Nodes -> Nat]]
    BY <2>1 DEF PagingTypeOK
  <2>3. PagingTypeOK'
    BY <2>2 DEF PagingTypeOK
  <2>4. Distinct(ids)' /\ ListingComplete' /\ StagesOfProvider' /\ NoPageBehindLast' /\ CollectedOnce'
    BY DEF Distinct, ListingComplete, StagesOfProvider, NoPageBehindLast, CollectedOnce
  <2>5. EachReportOnce'
    <3>1. provider' = "crusoe" /\ topo = [r \in Regions |-> NoReports]
      BY DEF StagesOfProvider
    <3>2. RequestedNodes' = RequestedNodes
      BY DEF RequestedNodes, Known
    <3>3. ASSUME NEW r \in Regions, NEW i \in Nodes
          PROVE  topo'[r][i] = IF r = 1 /\ i \in RequestedNodes THEN 1 ELSE 0
      BY <2>1, <3>1 DEF NoReports
    <3> QED
      BY <3>1, <3>2, <3>3 DEF EachReportOnce, Expected
  <2> QED
    BY <2>3, <2>4, <2>5
<1> QED
  BY <1>1, <1>2 DEF AnswerNodes

LEMMA GetPageInv == PagingInv /\ GetPage => PagingInv'
<1> SUFFICES ASSUME PagingInv, GetPage PROVE PagingInv'
  OBVIOUS
<1> DEFINE want == cis[k].want
<1>1. /\ stage = "page" /\ UNCHANGED <<provider, client, pageSize, ids, shallow, cis>>
      /\ UNCHANGED <<pending, list, status>>
  BY DEF GetPage, input
<1>2. PICK to \in PageEnds(Limit(want)) :
         /\ ~PageCrashes(to)
         /\ topo' = [topo EXCEPT ![k] =
                        [i \in Nodes |-> IF i \in Entries(to) /\ Appends(want, i)
                                         THEN topo[k][i] + 1 ELSE topo[k][i]]]
         /\ from' = to
         /\ \/ to < stop /\ UNCHANGED <<stage, k, stop>>
            \/ ~(to < stop) /\ stop < Len(list) /\ stop' = Len(list) /\ UNCHANGED <<stage, k>>
            \/ ~(to < stop) /\ stop = Len(list) /\ stage' = "region" /\ k' = k + 1 /\ UNCHANGED stop
  BY DEF GetPage, HasNext
<1>3. /\ from \in Nat /\ stop \in Nat /\ from <= stop /\ stop <= Len(list) /\ list \in Seq(Nodes)
      /\ k \in 1..Len(cis) /\ k \in Regions /\ topo \in [Regions -> [Nodes -> Nat]]
      /\ cis \in Seq(RegionRequests) /\ Len(cis) <= MaxRegions
      /\ Distinct(list)
  BY <1>1, PagingAssumption DEF PagingInv, PagingTypeOK, ListingComplete, Regions, PagingAssumption
<1>4. to \in Nat /\ from <= to /\ to <= stop
  <2>1. ~(to > stop)
    BY <1>2 DEF PageCrashes
  <2>2. Limit(want) \in Nat
    BY <1>3, PagingAssumption DEF PagingInv, PagingTypeOK, Limit, PagingAssumption
  <2>3. to \in Nat
    <3>1. CASE client = "sim"
      BY <1>3, <2>2, <3>1 DEF PageEnds, SimPageEnd, AwsSimPageEnd, GcpSimPageEnd,
     OciSimPageEnd, NebiusSimPageEnd, Min2
    <3>2. CASE client # "sim"
      BY <1>3, <2>2, <3>2 DEF PageEnds, ApiPageEnds, Min2
    <3> QED
      BY <3>1, <3>2
  <2>4. to <= stop
    BY <1>3, <2>1, <2>3
  <2> QED
    BY <1>1, <2>3, <2>4, PageEndsInRange
<1>5. PagingTypeOK'
  <2>1. topo' \in [Regions -> [Nodes -> Nat]]
    BY <1>2, <1>3
  <2>2. from' \in 0..stop' /\ stop' \in 0..Len(list)'
    BY <1>1, <1>2, <1>3, <1>4
  <2>3. k' \in 1..(Len(cis)' + 1) /\ stage' \in {"region", "page"}
    BY <1>1, <1>2, <1>3
  <2> QED
    BY <1>1, <2>1, <2>2, <2>3 DEF PagingInv, PagingTypeOK
<1>6. Distinct(ids)' /\ StagesOfProvider'
  BY <1>1, <1>2 DEF PagingInv, Distinct, StagesOfProvider
<1>7. ListingComplete'
  <2>1. stage' = "page" => k' = k
    BY <1>1, <1>2
  <2> QED
    BY <1>1, <2>1 DEF PagingInv, ListingComplete, Distinct, Appends,
     AwsAppends, GcpAppends, OciAppends, NebiusAppends, LambdaiAppends, Known
<1>8. NoPageBehindLast'
  BY <1>1, <1>2, <1>3, <1>4 DEF NoPageBehindLast
<1>9. EachReportOnce'
  BY <1>1 DEF PagingInv, EachReportOnce, StagesOfProvider
<1>10. CollectedOnce'
  <2>1. SUFFICES ASSUME NEW r \in Regions, NEW i \in Nodes
                 PROVE  topo'[r][i] = IF Collected(r, i)' THEN 1 ELSE 0
    BY DEF CollectedOnce
  <2>2. topo[r][i] = IF Collected(r, i) THEN 1 ELSE 0
    BY <1>1 DEF PagingInv, CollectedOnce
  <2>3. r \in Nat /\ k \in Nat /\ Len(cis) \in Nat
    BY <1>3 DEF Regions
  <2>4. Appends(cis[r].want, i)' <=> Appends(cis[r].want, i)
    BY <1>1 DEF Appends,
     AwsAppends, GcpAppends, OciAppends, NebiusAppends, LambdaiAppends, Known
  <2>5. CASE r # k
    <3>1. topo'[r][i] = topo[r][i]
      BY <1>2, <1>3, <2>5
    <3>2. Collected(r, i)' <=> Collected(r, i)
      <4>1. k' = k \/ (k' = k + 1 /\ stage' = "region")
        BY <1>1, <1>2
      <4> QED
        BY <1>1, <1>3, <2>3, <2>4, <2>5, <4>1 DEF Collected
    <3> QED
      BY <2>2, <3>1, <3>2
  <2>6. CASE r = k
    <3> DEFINE Before == \E j \in 1..from : list[j] = i
               After  == \E j \in 1..to : list[j] = i
    <3>1. Collected(k, i) <=> Appends(want, i) /\ Before
      BY <1>1, <1>3 DEF Collected
    <3>a. DOMAIN list = 1..Len(list) /\ Len(list) \in Nat
      BY <1>3
    <3>b. i \in Entries(to) <=> \E j \in DOMAIN list : from < j /\ j <= to /\ list[j] = i
      BY DEF Entries
    <3>2. After <=> Before \/ i \in Entries(to)
      <4>1. ASSUME NEW j \in 1..to, list[j] = i PROVE Before \/ i \in Entries(to)
        <5>1. j \in DOMAIN list
          BY <1>3, <1>4, <3>a
        <5>2. CASE j <= from
          BY <1>3, <4>1, <5>2
        <5>3. CASE from < j
          BY <4>1, <5>1, <5>3, <3>b
        <5> QED
          BY <1>3, <5>2, <5>3
      <4>2. Before => After
        BY <1>3, <1>4
      <4>3. i \in Entries(to) => After
        BY <1>3, <1>4, <3>a, <3>b
      <4> QED
        BY <4>1, <4>2, <4>3
    <3>3. ~(Before /\ i \in Entries(to))
      <4>1. SUFFICES ASSUME NEW a \in 1..from, list[a] = i,
                            NEW b \in DOMAIN list, from < b, list[b] = i
                     PROVE  FALSE
        BY <3>b
      <4>2. a \in DOMAIN list /\ a # b
        BY <1>3, <3>a, <4>1
      <4> QED
        BY <1>3, <4>1, <4>2 DEF Distinct
    <3>4. topo'[k][i] = IF Appends(want, i) /\ After THEN 1 ELSE 0
      <4>1. topo'[k][i] = IF i \in Entries(to) /\ Appends(want, i)
                          THEN topo[k][i] + 1 ELSE topo[k][i]
        BY <1>2, <1>3
      <4> QED
        BY <2>2, <2>6, <3>1, <3>2, <3>3, <4>1
    <3>5. CASE stage' = "page"
      <4>1. k' = k /\ from' = to
        BY <1>1, <1>2, <3>5
      <4>2. Collected(k, i)' <=> Appends(want, i) /\ After
        BY <1>1, <1>3, <2>4, <2>6, <3>5, <4>1 DEF Collected
      <4> QED
        BY <2>6, <3>4, <4>1, <4>2
    <3>6. CASE stage' # "page"
      <4>1. k' = k + 1 /\ to = Len(list)
        BY <1>1, <1>2, <1>3, <1>4, <3>6
      <4>2. Appends(want, i) => After
        <5>1. Appends(want, i) => \E j \in DOMAIN list : list[j] = i
          BY <1>1 DEF PagingInv, ListingComplete
        <5> QED
          BY <3>a, <4>1, <5>1
      <4>3. Collected(r, i)' <=> Appends(want, i)
        BY <1>1, <1>3, <2>3, <2>4, <2>6, <4>1 DEF Collected
      <4> QED
        BY <2>6, <3>4, <4>2, <4>3
    <3> QED
      BY <3>5, <3>6
  <2> QED
    BY <2>5, <2>6
<1> QED
  BY <1>5, <1>6, <1>7, <1>8, <1>9, <1>10 DEF PagingInv

LEMMA PagingNextInv == PagingInv /\ [PagingNext]_pagingVars => PagingInv'
<1> SUFFICES ASSUME PagingInv, [PagingNext]_pagingVars PROVE PagingInv'
  OBVIOUS
<1>1. CASE SetupCall
  BY <1>1, SetupCallInv
<1>2. CASE CallFails
  BY <1>2, ErrorInv DEF CallFails
<1>3. CASE NextRegion
  BY <1>3, NextRegionInv
<1>4. CASE RegionMissing
  BY <1>4, ErrorInv DEF RegionMissing
<1>5. CASE RegionsDone
  BY <1>5, RegionsDoneInv
<1>6. CASE GetPage
  BY <1>6, GetPageInv
<1>7. CASE CrashOnPage
  BY <1>7, ErrorInv DEF CrashOnPage
<1>8. CASE ListNodes \/ BuildTopologyFromModel
  BY <1>8, AnswerNodesInv DEF ListNodes, BuildTopologyFromModel
<1>9. CASE UNCHANGED pagingVars
  BY <1>9 DEF PagingInv, PagingTypeOK, Distinct, ListingComplete, CollectedOnce, Collected,
     StagesOfProvider, EachReportOnce, Expected, RequestedNodes, NoPageBehindLast, Appends,
     AwsAppends, GcpAppends, OciAppends, NebiusAppends, LambdaiAppends, Known, pagingVars, input
<1> QED
  BY <1>1, <1>2, <1>3, <1>4, <1>5, <1>6, <1>7, <1>8, <1>9 DEF PagingNext, Proceed

LEMMA PagingInvariant == PagingSpec => []PagingInv
  BY PagingInitInv, PagingNextInv, PTL DEF PagingSpec

----------------------------------------------------------------------------

\* For any number of instances and regions and any page sizes, the variables of the
\* paging loops keep their types and the token stays within the listing.
THEOREM PagingTypeCorrect == PagingSpec => []PagingTypeOK
<1>1. PagingInv => PagingTypeOK
  BY DEF PagingInv
<1> QED
  BY <1>1, PagingInvariant, PTL

\* For any number of instances and regions and any page sizes, a successful answer
\* of a provider has one report for every instance it should have.
THEOREM ReportsOnce == PagingSpec => []EachReportOnce
<1>1. PagingInv => EachReportOnce
  BY DEF PagingInv
<1> QED
  BY <1>1, PagingInvariant, PTL

\* For any number of instances and regions and any page sizes, no provider asks for
\* a page after the last one.
THEOREM TokensFollowed == PagingSpec => []NoPageBehindLast
<1>1. PagingInv => NoPageBehindLast
  BY DEF PagingInv
<1> QED
  BY <1>1, PagingInvariant, PTL

----------------------------------------------------------------------------
(* What brings a provider down.                                             *)

\* The simulators of gcp and oci list everything, page by full page.
FullPages ==
    stage = "page" /\ client = "sim" /\ provider \in {"gcp", "oci"} =>
        /\ list = ids
        /\ stop = Len(ids)
        /\ pageSize \in Nat => \E a \in Nat : from = a * pageSize
        /\ pageSize = Nil => from = 0

\* A multiple of m below another one is at least m below it.
LEMMA NextMultiple ==
    ASSUME NEW a \in Nat, NEW m \in Nat \ {0}, NEW n \in Nat, n % m = 0, a * m < n
    PROVE  a * m + m <= n
<1> DEFINE b == n \div m
<1>1. b \in Int /\ n = b * m
  OBVIOUS
<1>2. a < b
  <2> SUFFICES ASSUME b <= a PROVE FALSE
    BY <1>1
  <2>1. b * m <= a * m
    BY <1>1
  <2> QED
    BY <1>1, <2>1
<1>3. (a + 1) * m <= b * m
  BY <1>1, <1>2
<1> QED
  BY <1>1, <1>3

\* A page goes beyond the end of the listing only if the last one is not full.
LEMMA PageBeyondEnd ==
    ASSUME PagingInv, FullPages, stage = "page", NEW to \in PageEnds(Limit(cis[k].want)), to > stop
    PROVE  /\ client = "sim" /\ provider \in {"gcp", "oci"} /\ pageSize \in Nat \ {0}
           /\ Len(ids) % pageSize # 0 \/ ids = <<>>
<1>0. /\ from \in Nat /\ stop \in Nat /\ from <= stop /\ Len(ids) \in Nat
      /\ ids = <<>> <=> Len(ids) = 0
  BY DEF PagingInv, PagingTypeOK
<1>1. pageSize \in Nat \cup {Nil}
  BY PagingAssumption DEF PagingInv, PagingTypeOK
<1>2. client = "sim" /\ provider \in {"gcp", "oci"} /\ to = from + Limit(cis[k].want)
  <2> DEFINE L == Limit(cis[k].want)
  <2>1. L \in Nat
    BY <1>0, <1>1, PagingAssumption DEF Limit
  <2> HIDE DEF L
  <2>2. to \in PageEnds(L)
    BY DEF L
  <2>3. CASE client # "sim"
    BY <1>0, <2>1, <2>2, <2>3 DEF PageEnds, ApiPageEnds, Min2
  <2>4. CASE client = "sim" /\ provider \notin {"gcp", "oci"}
    BY <1>0, <2>1, <2>2, <2>4 DEF PageEnds, SimPageEnd, AwsSimPageEnd, NebiusSimPageEnd, Min2
  <2>5. CASE client = "sim" /\ provider \in {"gcp", "oci"}
    BY <2>2, <2>5 DEF PageEnds, SimPageEnd, GcpSimPageEnd, OciSimPageEnd, L
  <2> QED
    BY <2>3, <2>4, <2>5
<1>3. stop = Len(ids) /\ list = ids
  BY <1>2 DEF FullPages
<1>4. CASE pageSize = Nil
  <2>1. Limit(cis[k].want) = Len(ids)
    BY <1>2, <1>4 DEF Limit
  <2> QED
    BY <1>0, <1>2, <1>3, <1>4, <2>1 DEF FullPages
<1>5. CASE pageSize \in Nat
  <2>1. Limit(cis[k].want) = pageSize
    BY <1>2, <1>5, PagingAssumption DEF Limit
  <2>2. pageSize # 0
    BY <1>0, <1>2, <1>5, <2>1
  <2>3. PICK a \in Nat : from = a * pageSize
    BY <1>2, <1>5 DEF FullPages
  <2>4. ASSUME Len(ids) % pageSize = 0, ids # <<>> PROVE FALSE
    <3>1. from < Len(ids)
      BY <1>0, <1>3, <2>4 DEF PagingInv, NoPageBehindLast
    <3>2. from + pageSize <= Len(ids)
      BY <1>0, <1>5, <2>2, <2>3, <2>4, <3>1, NextMultiple
    <3> QED
      BY <1>2, <1>3, <2>1, <3>2
  <2> QED
    BY <1>2, <1>5, <2>2, <2>4
<1> QED
  BY <1>1, <1>4, <1>5

LEMMA CrashInitInv == PagingInit => FullPages /\ CrashNeedsPartialData
  BY DEF PagingInit, FullPages, CrashNeedsPartialData

LEMMA CrashNextInv ==
    PagingInv /\ FullPages /\ CrashNeedsPartialData /\ [PagingNext]_pagingVars
        => FullPages' /\ CrashNeedsPartialData'
<1> SUFFICES ASSUME PagingInv, FullPages, CrashNeedsPartialData, [PagingNext]_pagingVars
             PROVE  FullPages' /\ CrashNeedsPartialData'
  OBVIOUS
<1>0. UNCHANGED input
  BY DEF PagingNext, Proceed, SetupCall, NextRegion, RegionMissing, RegionsDone, GetPage, CrashOnPage,
     ListNodes, BuildTopologyFromModel, AnswerNodes, CallFails, pagingVars
<1>1. ASSUME status' # "panic" \/ status' = status PROVE CrashNeedsPartialData'
  BY <1>0, <1>1 DEF CrashNeedsPartialData, input
<1>2. ASSUME stage' # "page" \/ UNCHANGED <<stage, list, stop, from>> PROVE FullPages'
  BY <1>0, <1>2 DEF FullPages, input
<1>3. CASE SetupCall \/ UNCHANGED pagingVars
  BY <1>1, <1>2, <1>3 DEF SetupCall, pagingVars
<1>4. CASE CallFails \/ RegionMissing \/ RegionsDone \/ ListNodes \/ BuildTopologyFromModel
  BY <1>1, <1>2, <1>4 DEF CallFails, RegionMissing, RegionsDone, ListNodes, BuildTopologyFromModel,
     AnswerNodes, Return
<1>5. CASE NextRegion
  <2>1. status' = status /\ from' = 0 /\ stage' = "page"
        /\ list' \in Listings(cis[k].want) /\ stop' \in DomainEnds(list')
    BY <1>5 DEF NextRegion
  <2>2. ASSUME client = "sim", provider \in {"gcp", "oci"} PROVE list' = ids /\ stop' = Len(ids)
    BY <2>1, <2>2 DEF Listings, ByIds, DomainEnds
  <2>3. pageSize \in Nat => 0 = 0 * pageSize
    OBVIOUS
  <2> QED
    BY <1>0, <1>1, <2>1, <2>2, <2>3 DEF FullPages, input
<1>6. CASE CrashOnPage
  <2>1. PICK to \in PageEnds(Limit(cis[k].want)) : PageCrashes(to)
    BY <1>6 DEF CrashOnPage
  <2>2. shallow # {} \/ to > stop
    BY <2>1 DEF PageCrashes, Breaks
  <2>3. stage = "page" /\ stage' = "done"
    BY <1>6 DEF CrashOnPage, Return
  <2> QED
    BY <1>0, <1>2, <2>2, <2>3, PageBeyondEnd DEF CrashNeedsPartialData, input
<1>7. CASE GetPage
  <2>1. PICK to \in PageEnds(Limit(cis[k].want)) :
            /\ ~PageCrashes(to)
            /\ from' = to
            /\ \/ HasNext(to) /\ UNCHANGED <<stage, k, stop>>
               \/ ~HasNext(to) /\ stop < Len(list) /\ stop' = Len(list) /\ UNCHANGED <<stage, k>>
               \/ ~HasNext(to) /\ stop = Len(list) /\ stage' = "region"
    BY <1>7 DEF GetPage
  <2>2. stage = "page" /\ list' = list /\ status' = status
    BY <1>7 DEF GetPage
  <2>3. CASE client = "sim" /\ provider \in {"gcp", "oci"} /\ stage' = "page"
    <3>1. list = ids /\ stop = Len(ids) /\ stop' = stop /\ to < stop
      BY <2>1, <2>2, <2>3 DEF FullPages, HasNext, PagingInv, PagingTypeOK
    <3>2. to = from + Limit(cis[k].want)
      BY <2>1, <2>3 DEF PageEnds, SimPageEnd, GcpSimPageEnd, OciSimPageEnd
    <3>3. CASE pageSize = Nil
      <4>1. Limit(cis[k].want) = Len(ids)
        BY <2>3, <3>3 DEF Limit
      <4> QED
        BY <3>1, <3>2, <4>1 DEF PagingInv, PagingTypeOK
    <3>4. CASE pageSize \in Nat
      <4>1. Limit(cis[k].want) = pageSize
        BY <2>3, <3>4, PagingAssumption DEF Limit
      <4>2. PICK a \in Nat : from = a * pageSize
        BY <2>2, <2>3, <3>4 DEF FullPages
      <4>3. to = (a + 1) * pageSize /\ a + 1 \in Nat
        BY <3>2, <3>4, <4>1, <4>2
      <4> QED
        BY <1>0, <1>1, <2>1, <2>2, <3>1, <3>4, <4>3, PagingAssumption DEF FullPages, input
    <3> QED
      BY <3>3, <3>4, PagingAssumption DEF PagingInv, PagingTypeOK
  <2> QED
    BY <1>0, <1>1, <2>2, <2>3 DEF FullPages, input
<1> QED
  BY <1>3, <1>4, <1>5, <1>6, <1>7 DEF PagingNext, Proceed

\* For any number of instances and regions and any page sizes, a provider crashes
\* only on instances with too few switches, or on the last page of a simulator that
\* does not look at the end of its list.
THEOREM CrashesOnPartialData == PagingSpec => []CrashNeedsPartialData
<1>1. PagingSpec => [](FullPages /\ CrashNeedsPartialData)
  BY CrashInitInv, CrashNextInv, PagingInvariant, PTL DEF PagingSpec
<1> QED
  BY <1>1, PTL
=============================================================================
