-------------------------- MODULE MCProviderPaging --------------------------
(* A small instance of ProviderPaging for TLC.                              *)
EXTENDS ProviderPaging

CONSTANTS n1, n2, n3

\* Instances are interchangeable, so that one order of them stands for all.  Only
\* one instance may be shallow, and only the last region may have no name.
MCInit ==
    /\ PagingInit
    /\ ids \in {<<>>, <<n1, n2>>, <<n1, n2, n3>>}
    /\ shallow \in {{}, {n2}}
    /\ \A r \in 1..Len(cis) : ~cis[r].named => r = Len(cis) /\ cis[r].want = {}

MCSpec == MCInit /\ [][PagingNext]_pagingVars /\ PagingFairness
=============================================================================
