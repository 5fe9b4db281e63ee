----------------------- MODULE FabricDiscoveryProofs -----------------------
(***************************************************************************)
(* Proofs about FabricDiscovery and the merger it uses, for any fabrics,   *)
(* any number of switches and levels and any providers.                    *)
(*                                                                         *)
(* The levels that buildTree and parseNetq build are layers: every vertex  *)
(* is one level above the vertices below it (Layers).  So traverse finds   *)
(* exactly the levels again (TraverseInv), and mergeLayer meets a vertex   *)
(* only when everything below it has been merged (MergeInv).               *)
(* A node keeps a path up to the level on top of its own, where the roots  *)
(* of the forest are (DistanceInv, TopInv, RootsInv).                      *)
(***************************************************************************)
EXTENDS FabricDiscovery, FiniteSetTheorems, WellFoundedInduction, TLAPS

\* What the levels and the merger are made of.
MergerTypeOK ==
    /\ below \in [Ids -> SUBSET Ids]
    /\ rank \in [Ids -> 0..MaxTier]
    /\ cnt \in 0..MaxTier
    /\ cur \in 0..MaxTier
    /\ tiers \in [0..MaxTier -> SUBSET Ids]
    /\ nodes \in [Ids -> SUBSET Ids]
    /\ refs \in [Ids -> Ids]
    /\ level \subseteq Ids /\ unused \subseteq Switches
    /\ rest \subseteq Ids /\ kept \subseteq Ids /\ have \subseteq Ids

\* mergeLayer, or traverse for a leaf, is done with the vertex.
Merged(v) == v \in have \/ refs[v] # v

\* Every vertex is one level above those below it, and has some if it is in a
\* level above the nodes.
Layers ==
    /\ \A v \in Ids : \A w \in below[v] : rank[w] + 1 = rank[v]
    /\ \A v \in Ids : rank[v] > 0 => below[v] # {}

\* While the levels are built, a switch that is in no level is below nothing.
LevelsInv ==
    phase = "levels" =>
        /\ \A v \in level : rank[v] = cnt
        /\ level \cap unused = {}
        /\ \A v \in Ids : below[v] \cap unused = {}
        /\ \A v \in unused : rank[v] = 0

\* Tiers are levels.
TiersInv ==
    phase \in {"traverse", "tier", "merge"} =>
        /\ \A k \in 0..MaxTier : \A v \in tiers[k] : rank[v] = k
        /\ cur <= cnt

TraverseInv ==
    phase = "traverse" =>
        /\ have = {}
        /\ nodes = [v \in Ids |-> {}]
        /\ refs = [v \in Ids |-> v]
        /\ \A k \in 1..MaxTier : cur < k /\ k <= cnt =>
               \A v \in tiers[k] : below[v] \subseteq tiers[k - 1]

\* What is below a vertex that waits is merged, waits in the tier at hand, or
\* waits in a tier above it.
MergeInv ==
    /\ phase \in {"tier", "merge"} =>
           \A k \in 1..MaxTier : cur < k /\ k <= cnt =>
               \A v \in tiers[k] : \A w \in below[v] :
                   \/ Merged(w)
                   \/ phase = "merge" /\ w \in rest
                   \/ cur < k - 1 /\ w \in tiers[k - 1]
    /\ phase = "merge" =>
           /\ \A v \in rest : rank[v] = cur /\ ~Merged(v)
           /\ \A v \in rest : \A w \in below[v] : Merged(w)
           /\ kept = {v \in have : rank[v] = cur}
           /\ cur > 0

\* What is merged stays as it is.
MergedInv ==
    phase \in {"tier", "merge", "merged"} =>
        /\ \A v \in Ids : Merged(v) => rank[v] <= cur /\ refs[v] \in have
        /\ \A v \in have : refs[v] = v
        /\ \A v \in Ids : rank[refs[v]] = rank[v]
        /\ \A v \in Ids : Merged(v) => \A w \in below[v] : Merged(w)
        /\ \A v \in Ids : Merged(v) => nodes[refs[v]] = signature(v)

LevelInv == MergerTypeOK /\ Layers /\ LevelsInv

FabricInv ==
    LevelInv /\ TiersInv /\ TraverseInv /\ MergeInv /\ MergedInv /\ nilChild = FALSE /\ NoTwins

\* The request does not change.
InputInv == provider \in Providers /\ fabric \in Fabrics[provider]

\* The domains of the two InfiniBand providers are what the hosts print.
DomainsInv ==
    provider \in OnPrem =>
        \A d \in domains : \/ d[1] \in ClusterIDs(d[2]) /\ d[2] \in Hosts
                           \/ d[1] = NoID /\ fabric.pods[d[2]] = 0

\* Links of the devices in the list name listed devices and skip no tier in use.
Orderly ==
    \A v \in seen, s \in Switches :
        linkedUp(v, s) =>
            /\ s \in seen
            /\ \A u \in seen : ~(tierMap(v) < tierMap(u) /\ tierMap(u) < tierMap(s))

\* The devices of L are all in the list and of tier t, and U has all switches above.
LayerOf(L, U, t) ==
    /\ \A v \in L : v \in seen /\ tierMap(v) = t
    /\ \A s \in seen \cap Switches : tierMap(s) > t => s \in U

\* While the links are orderly, layers are tiers.
NetqInv ==
    /\ phase = "crashed" => provider = "netq" /\ ~Orderly
    /\ provider = "netq" =>
           /\ phase # "nodes"
           /\ phase = "levels" => seen \subseteq Ids
           /\ phase = "levels" /\ Orderly => \E t \in Nat : LayerOf(level, unused, t)

----------------------------------------------------------------------------
(* Levels.                                                                  *)

Quiet(p) == p \notin {"levels", "traverse", "tier", "merge", "merged"}

\* Nothing is built or merged yet.
LEMMA FabricInitInv == FabricInit => FabricInv
<1> SUFFICES ASSUME FabricInit PROVE FabricInv
  OBVIOUS
<1> USE FabricAssumption, MergerAssumption DEF FabricInit, MergerInit
<1>1. LevelInv
  BY DEF LevelInv, MergerTypeOK, Layers, LevelsInv
<1>2. TiersInv /\ TraverseInv /\ MergeInv /\ MergedInv /\ nilChild = FALSE /\ NoTwins
  BY DEF TiersInv, TraverseInv, MergeInv, MergedInv, NoTwins
<1> QED  BY <1>1, <1>2 DEF FabricInv

\* Steps outside of the building of levels and of the merger.
LEMMA QuietStep ==
    ASSUME FabricInv, UNCHANGED <<buildVars, mergerVars>>, Quiet(phase')
    PROVE  FabricInv'
<1> USE DEF buildVars, givenVars, mergerVars
<1>1. LevelInv'
  BY DEF FabricInv, LevelInv, MergerTypeOK, Layers, LevelsInv, Quiet
<1>2. TiersInv' /\ TraverseInv' /\ MergeInv' /\ MergedInv'
  BY DEF TiersInv, TraverseInv, MergeInv, MergedInv, Quiet
<1>3. nilChild' = FALSE /\ NoTwins'
  BY DEF FabricInv, NoTwins
<1> QED  BY <1>1, <1>2, <1>3 DEF FabricInv

\* Levels are built while the merger has nothing to do.
LEMMA BuildStep ==
    ASSUME FabricInv, UNCHANGED mergerVars, phase' = "levels",
           /\ below' \in [Ids -> SUBSET Ids]
           /\ rank' \in [Ids -> 0..MaxTier]
           /\ cnt' \in 0..MaxTier
           /\ level' \subseteq Ids /\ unused' \subseteq Switches,
           Layers', LevelsInv'
    PROVE  FabricInv'
<1>1. MergerTypeOK'
  BY DEF FabricInv, LevelInv, MergerTypeOK, mergerVars
<1>2. TiersInv' /\ TraverseInv' /\ MergeInv' /\ MergedInv'
  BY DEF TiersInv, TraverseInv, MergeInv, MergedInv
<1>3. nilChild' = FALSE /\ NoTwins'
  BY DEF FabricInv, NoTwins, mergerVars
<1> QED  BY <1>1, <1>2, <1>3 DEF FabricInv, LevelInv

\* The switches with nodes are the first level of buildTree.
LEMMA FindLeavesInv ==
    ASSUME FabricInv, UNCHANGED mergerVars, NEW S \in SUBSET Switches, findLeaves(S)
    PROVE  FabricInv'
<1> USE FabricAssumption, MergerAssumption
<1> DEFINE leaves == {s \in S : fabric.attach[s] \cap Requested # {}}
<1>1. /\ below' = [v \in Ids |-> IF v \in leaves THEN fabric.attach[v] \cap Requested ELSE {}]
      /\ rank' = [v \in Ids |-> IF v \in leaves THEN 1 ELSE 0]
      /\ level' = leaves /\ unused' = S \ leaves /\ cnt' = 1 /\ phase' = "levels"
  BY DEF findLeaves
<1>2. leaves \subseteq Switches /\ \A v \in leaves : fabric.attach[v] \cap Requested # {}
  OBVIOUS
<1>3. \A v \in Requested : v \in Ids /\ v \notin leaves /\ v \notin Switches
  BY <1>2
<1> HIDE DEF leaves
<1>4. /\ below' \in [Ids -> SUBSET Ids] /\ rank' \in [Ids -> 0..MaxTier]
      /\ cnt' \in 0..MaxTier /\ level' \subseteq Ids /\ unused' \subseteq Switches
  BY <1>1, <1>2, <1>3
<1>5. Layers'
  BY <1>1, <1>2, <1>3 DEF Layers
<1>6. LevelsInv'
  BY <1>1, <1>2, <1>3 DEF LevelsInv
<1> QED  BY <1>1, <1>4, <1>5, <1>6, BuildStep

\* A new level above the last one, of switches that are in none.
LEMMA LevelUpInv ==
    ASSUME FabricInv, phase = "levels", UNCHANGED <<phase, mergerVars>>,
           NEW U \in SUBSET unused, NEW D, U # {}, cnt < MaxTier,
           D \in [U -> SUBSET level], \A v \in U : D[v] # {},
           /\ cnt' = cnt + 1
           /\ below' = [v \in Ids |-> IF v \in U THEN D[v] ELSE below[v]]
           /\ rank' = [v \in Ids |-> IF v \in U THEN cnt + 1 ELSE rank[v]]
           /\ level' = U
           /\ unused' = unused \ U
    PROVE  FabricInv'
<1> USE FabricAssumption, MergerAssumption
<1>1. /\ below \in [Ids -> SUBSET Ids] /\ rank \in [Ids -> 0..MaxTier] /\ cnt \in 0..MaxTier
      /\ level \subseteq Ids /\ unused \subseteq Switches
      /\ \A v \in level : rank[v] = cnt
      /\ level \cap unused = {}
      /\ \A v \in Ids : below[v] \cap unused = {}
      /\ \A v \in unused : rank[v] = 0
      /\ \A v \in Ids : \A w \in below[v] : rank[w] + 1 = rank[v]
      /\ \A v \in Ids : rank[v] > 0 => below[v] # {}
  BY DEF FabricInv, LevelInv, MergerTypeOK, LevelsInv, Layers
<1>2. /\ below' \in [Ids -> SUBSET Ids] /\ rank' \in [Ids -> 0..MaxTier]
      /\ cnt' \in 0..MaxTier /\ level' \subseteq Ids /\ unused' \subseteq Switches
  BY <1>1
<1>3. Layers'
  <2>1. ASSUME NEW v \in Ids, NEW w \in below'[v] PROVE rank'[w] + 1 = rank'[v]
    <3>1. CASE v \in U
      <4>1. w \in level
        BY <2>1, <3>1
      <4>2. w \notin U /\ w \in Ids
        BY <1>1, <4>1
      <4>3. rank'[w] = cnt
        BY <1>1, <4>1, <4>2
      <4>4. rank'[v] = cnt + 1
        BY <3>1
      <4> QED  BY <4>3, <4>4
    <3>2. CASE v \notin U
      <4>1. w \in below[v]
        BY <2>1, <3>2
      <4>2. w \notin U /\ w \in Ids
        BY <1>1, <4>1
      <4> QED  BY <1>1, <3>2, <4>1, <4>2
    <3> QED  BY <3>1, <3>2
  <2>2. \A v \in Ids : rank'[v] > 0 => below'[v] # {}
    BY <1>1
  <2> QED  BY <2>1, <2>2 DEF Layers
<1>4. LevelsInv'
  BY <1>1 DEF LevelsInv
<1> QED  BY <1>2, <1>3, <1>4, BuildStep

\* The merger starts with the last level as the top tier.
LEMMA NewMergerInv ==
    ASSUME FabricInv, phase = "levels", NewMerger(level), UNCHANGED buildVars
    PROVE  FabricInv'
<1> USE FabricAssumption, MergerAssumption DEF buildVars, givenVars
<1>1. /\ tiers' = [k \in 0..MaxTier |-> IF k = cnt THEN level ELSE {}]
      /\ cur' = cnt /\ rest' = {} /\ kept' = {} /\ have' = {} /\ nilChild' = FALSE
      /\ nodes' = [v \in Ids |-> {}] /\ refs' = [v \in Ids |-> v]
      /\ phase' \in {"merged", "traverse"}
  BY DEF NewMerger
<1>2. level \subseteq Ids /\ cnt \in 0..MaxTier /\ rank \in [Ids -> 0..MaxTier]
      /\ \A v \in level : rank[v] = cnt
  BY DEF FabricInv, LevelInv, MergerTypeOK, LevelsInv
<1>3. MergerTypeOK'
  BY <1>1, <1>2 DEF FabricInv, LevelInv, MergerTypeOK
<1>4. Layers' /\ LevelsInv'
  BY <1>1 DEF FabricInv, LevelInv, Layers, LevelsInv
<1>5. TiersInv'
  BY <1>1, <1>2 DEF TiersInv
<1>6. TraverseInv'
  BY <1>1, <1>2 DEF TraverseInv
<1>7. MergeInv' /\ NoTwins'
  BY <1>1 DEF MergeInv, NoTwins
<1>8. MergedInv'
  BY <1>1, <1>2 DEF MergedInv, Merged
<1> QED  BY <1>1, <1>3, <1>4, <1>5, <1>6, <1>7, <1>8 DEF FabricInv, LevelInv

----------------------------------------------------------------------------
(* The merger.                                                              *)

\* Layers as traverse and mergeLayer need them: leaves are what is in level 0.
LEMMA LeavesAreNodes ==
    ASSUME LevelInv, NEW v \in Ids
    PROVE  IsLeaf(v) <=> rank[v] = 0
<1>1. rank[v] \in Nat /\ below[v] \subseteq Ids /\ \A w \in Ids : rank[w] \in Nat
  BY MergerAssumption DEF LevelInv, MergerTypeOK
<1> QED  BY <1>1 DEF IsLeaf, LevelInv, Layers

\* traverse goes down a level, or finds the nodes.
LEMMA TraverseStepInv ==
    ASSUME FabricInv, traverse, UNCHANGED <<level, unused>>
    PROVE  FabricInv'
<1> USE FabricAssumption, MergerAssumption DEF givenVars
<1>1. /\ below \in [Ids -> SUBSET Ids] /\ rank \in [Ids -> 0..MaxTier] /\ cnt \in 0..MaxTier
      /\ cur \in 0..MaxTier /\ tiers \in [0..MaxTier -> SUBSET Ids]
  BY DEF FabricInv, LevelInv, MergerTypeOK
<1>2. /\ phase = "traverse" /\ have = {}
      /\ nodes = [v \in Ids |-> {}] /\ refs = [v \in Ids |-> v]
      /\ \A k \in 1..MaxTier : cur < k /\ k <= cnt =>
             \A v \in tiers[k] : below[v] \subseteq tiers[k - 1]
      /\ \A k \in 0..MaxTier : \A v \in tiers[k] : rank[v] = k
      /\ cur <= cnt
  BY DEF traverse, FabricInv, TraverseInv, TiersInv
<1>3. /\ UNCHANGED <<below, rank, cnt, rest, kept, nodes, refs, nilChild>>
      /\ nodes' = nodes /\ refs' = refs /\ rank' = rank /\ below' = below
  BY DEF traverse
<1>4. \A v \in tiers[cur] : v \in Ids /\ (IsLeaf(v) <=> cur = 0)
  BY <1>1, <1>2, LeavesAreNodes DEF FabricInv
<1>5. CASE \E v \in tiers[cur] : IsLeaf(v)
  <2>1. cur = 0 /\ phase' = "tier" /\ cur' = cur /\ tiers' = tiers
    BY <1>4, <1>5 DEF traverse
  <2>2. have' = tiers[cur]
    BY <1>4, <1>5 DEF traverse
  <2>3. MergerTypeOK' /\ Layers' /\ LevelsInv'
    BY <1>1, <1>3, <2>1, <2>2 DEF FabricInv, LevelInv, MergerTypeOK, Layers, LevelsInv
  <2>4. TiersInv' /\ TraverseInv'
    BY <1>1, <1>2, <1>3, <2>1 DEF TiersInv, TraverseInv
  <2>5. MergeInv'
    <3>1. ASSUME NEW k \in 1..MaxTier, cur < k, k <= cnt, NEW v \in tiers[k], NEW w \in below[v]
          PROVE  Merged(w)' \/ (cur < k - 1 /\ w \in tiers[k - 1])
      <4>1. w \in tiers[k - 1]
        BY <1>2, <3>1
      <4> QED  BY <1>1, <2>1, <2>2, <4>1 DEF Merged
    <3> QED  BY <1>3, <2>1, <3>1 DEF MergeInv
  <2>6. MergedInv'
    <3>1. \A v \in tiers[cur] : v \in Ids /\ below[v] = {} /\ rank[v] = 0
      BY <1>2, <1>4, <2>1 DEF IsLeaf
    <3>2. \A v \in Ids : Merged(v)' <=> v \in tiers[cur]
      BY <1>2, <1>3, <2>2 DEF Merged
    <3>3. ASSUME NEW v \in Ids, v \in tiers[cur] PROVE nodes'[refs'[v]] = signature(v)'
      <4>1. nodes'[refs'[v]] = {} /\ below'[v] = {}
        BY <1>2, <1>3, <3>1, <3>3
      <4> QED  BY <4>1 DEF signature
    <3>4. \A v \in Ids : Merged(v)' => rank'[v] <= cur' /\ refs'[v] \in have'
      BY <1>2, <1>3, <2>1, <2>2, <3>1, <3>2
    <3>5. /\ \A v \in have' : refs'[v] = v
          /\ \A v \in Ids : rank'[refs'[v]] = rank'[v]
      BY <1>2, <1>3, <2>2, <3>1
    <3>6. \A v \in Ids : Merged(v)' => \A w \in below'[v] : Merged(w)'
      BY <1>3, <3>1, <3>2
    <3> QED  BY <3>2, <3>3, <3>4, <3>5, <3>6 DEF MergedInv
  <2>7. nilChild' = FALSE /\ NoTwins'
    BY <1>1, <1>2, <1>3, <2>2 DEF FabricInv, NoTwins
  <2> QED  BY <2>3, <2>4, <2>5, <2>6, <2>7 DEF FabricInv, LevelInv
<1>6. CASE ~\E v \in tiers[cur] : IsLeaf(v)
  <2>1. /\ cur > 0 /\ cur' = cur - 1 /\ phase' = "traverse" /\ have' = have
        /\ tiers' = [tiers EXCEPT ![cur - 1] = NextLayer(tiers[cur])]
    BY <1>2, <1>6 DEF traverse
  <2>2. /\ NextLayer(tiers[cur]) \subseteq Ids
        /\ \A w \in NextLayer(tiers[cur]) : rank[w] = cur - 1
        /\ \A v \in tiers[cur] : below[v] \subseteq NextLayer(tiers[cur])
    <3>1. \A v \in tiers[cur] : v \in Ids /\ rank[v] = cur /\ below[v] \subseteq Ids
      BY <1>1, <1>2
    <3>2. \A v \in tiers[cur] : \A w \in below[v] : rank[w] + 1 = cur /\ w \notin tiers[cur]
      BY <1>1, <1>2, <3>1 DEF FabricInv, LevelInv, Layers
    <3> QED  BY <1>1, <3>1, <3>2 DEF NextLayer
  <2>3. tiers' \in [0..MaxTier -> SUBSET Ids] /\ cur' \in 0..MaxTier
    BY <1>1, <2>1, <2>2
  <2>4. /\ tiers'[cur - 1] = NextLayer(tiers[cur])
        /\ \A k \in 0..MaxTier : k # cur - 1 => tiers'[k] = tiers[k]
    BY <1>1, <2>1
  <2>5. MergerTypeOK' /\ Layers' /\ LevelsInv'
    BY <1>1, <1>3, <2>1, <2>3 DEF FabricInv, LevelInv, MergerTypeOK, Layers, LevelsInv
  <2>6. TiersInv'
    BY <1>1, <1>2, <1>3, <2>1, <2>2, <2>4 DEF TiersInv
  <2>7. TraverseInv'
    <3>1. ASSUME NEW k \in 1..MaxTier, cur - 1 < k, k <= cnt, NEW v \in tiers'[k]
          PROVE  below[v] \subseteq tiers'[k - 1]
      <4>1. v \in tiers[k]
        BY <1>1, <2>4, <3>1
      <4>2. CASE k = cur
        BY <2>2, <2>4, <4>1, <4>2
      <4>3. CASE k # cur
        <5>1. cur < k /\ k - 1 # cur - 1 /\ k - 1 \in 0..MaxTier
          BY <1>1, <3>1, <4>3
        <5> QED  BY <1>2, <2>4, <3>1, <4>1, <5>1
      <4> QED  BY <4>2, <4>3
    <3> QED  BY <1>2, <1>3, <2>1, <3>1 DEF TraverseInv
  <2>8. MergeInv' /\ MergedInv'
    BY <2>1 DEF MergeInv, MergedInv
  <2>9. nilChild' = FALSE /\ NoTwins'
    BY <1>2, <1>3, <2>1 DEF FabricInv, NoTwins
  <2> QED  BY <2>5, <2>6, <2>7, <2>8, <2>9 DEF FabricInv, LevelInv
<1> QED  BY <1>5, <1>6

\* Merge goes up a tier: everything below the new one is merged.
LEMMA NextTierUpInv ==
    ASSUME FabricInv, NextTierUp, UNCHANGED <<level, unused>>
    PROVE  FabricInv'
<1> USE FabricAssumption, MergerAssumption DEF givenVars
<1>1. /\ below \in [Ids -> SUBSET Ids] /\ rank \in [Ids -> 0..MaxTier] /\ cnt \in 0..MaxTier
      /\ cur \in 0..MaxTier /\ tiers \in [0..MaxTier -> SUBSET Ids] /\ have \subseteq Ids
  BY DEF FabricInv, LevelInv, MergerTypeOK
<1>2. /\ phase = "tier"
      /\ \A k \in 0..MaxTier : \A v \in tiers[k] : rank[v] = k
      /\ \A v \in Ids : Merged(v) => rank[v] <= cur /\ refs[v] \in have
      /\ \A k \in 1..MaxTier : cur < k /\ k <= cnt =>
             \A v \in tiers[k] : \A w \in below[v] :
                 Merged(w) \/ (cur < k - 1 /\ w \in tiers[k - 1])
  BY DEF NextTierUp, FabricInv, TiersInv, MergedInv, MergeInv
<1>3. UNCHANGED <<below, rank, cnt, tiers, nodes, have, refs, nilChild>>
  BY DEF NextTierUp
<1>4. nilChild' = FALSE /\ NoTwins' /\ Layers' /\ \A v : Merged(v)' <=> Merged(v)
  BY <1>3 DEF FabricInv, LevelInv, Layers, NoTwins, Merged
<1>5. ASSUME NEW c, cur' = c, cur <= c, phase' \in {"tier", "merge", "merged"} PROVE MergedInv'
  <2>1. c \in 0..MaxTier => \A v \in Ids : Merged(v) => rank[v] <= c
    BY <1>1, <1>2, <1>5
  <2>2. \A v \in Ids : signature(v)' = signature(v)
    BY <1>3 DEF signature
  <2>3. /\ \A v \in have : refs[v] = v
        /\ \A v \in Ids : rank[refs[v]] = rank[v]
        /\ \A v \in Ids : Merged(v) => \A w \in below[v] : Merged(w)
        /\ \A v \in Ids : Merged(v) => nodes[refs[v]] = signature(v)
    BY <1>2 DEF FabricInv, MergedInv
  <2>4. c \in 0..MaxTier
    BY <1>1, <1>5 DEF NextTierUp
  <2> QED  BY <1>2, <1>3, <1>4, <1>5, <2>1, <2>2, <2>3, <2>4 DEF MergedInv
<1>6. CASE cur < cnt
  <2>1. cur' = cur + 1 /\ rest' = tiers[cur + 1] /\ kept' = {} /\ phase' = "merge"
    BY <1>6 DEF NextTierUp
  <2>2. cur + 1 \in 1..MaxTier /\ cur + 1 <= cnt /\ cur < cur + 1
    BY <1>1, <1>6
  <2>3. MergerTypeOK' /\ LevelsInv'
    BY <1>1, <1>3, <2>1, <2>2 DEF FabricInv, LevelInv, MergerTypeOK, LevelsInv
  <2>4. TiersInv' /\ TraverseInv'
    BY <1>1, <1>2, <1>3, <2>1, <2>2 DEF TiersInv, TraverseInv
  <2>5. MergeInv'
    <3>1. ASSUME NEW k \in 1..MaxTier, cur + 1 < k, k <= cnt, NEW v \in tiers[k],
                 NEW w \in below[v]
          PROVE  Merged(w) \/ w \in rest' \/ (cur + 1 < k - 1 /\ w \in tiers[k - 1])
      <4>1. cur < k
        BY <1>1, <3>1
      <4>2. Merged(w) \/ w \in tiers[k - 1]
        BY <1>2, <3>1, <4>1
      <4>3. k - 1 = cur + 1 \/ cur + 1 < k - 1
        BY <1>1, <3>1
      <4> QED  BY <2>1, <4>2, <4>3
    <3>2. \A v \in rest' : v \in Ids /\ rank[v] = cur + 1 /\ ~Merged(v)
      BY <1>1, <1>2, <2>1, <2>2
    <3>3. \A v \in rest' : \A w \in below[v] : Merged(w)
      BY <1>1, <1>2, <2>1, <2>2
    <3>4. kept' = {v \in have' : rank'[v] = cur'}
      <4>1. \A v \in have : v \in Ids /\ rank[v] <= cur
        BY <1>1, <1>2 DEF Merged
      <4> QED  BY <1>1, <1>3, <2>1, <4>1
    <3>5. cur' > 0
      BY <1>1, <2>1
    <3> QED  BY <1>3, <1>4, <2>1, <3>1, <3>2, <3>3, <3>4, <3>5 DEF MergeInv
  <2>6. MergedInv'
    BY <1>1, <1>5, <2>1
  <2> QED  BY <1>4, <2>3, <2>4, <2>5, <2>6 DEF FabricInv, LevelInv
<1>7. CASE ~(cur < cnt)
  <2>1. UNCHANGED <<cur, rest, kept>> /\ phase' = "merged"
    BY <1>7 DEF NextTierUp
  <2>2. MergerTypeOK' /\ LevelsInv'
    BY <1>3, <2>1 DEF FabricInv, LevelInv, MergerTypeOK, LevelsInv
  <2>3. TiersInv' /\ TraverseInv' /\ MergeInv'
    BY <2>1 DEF TiersInv, TraverseInv, MergeInv
  <2>4. MergedInv'
    BY <1>1, <1>5, <2>1
  <2> QED  BY <1>4, <2>2, <2>3, <2>4 DEF FabricInv, LevelInv
<1> QED  BY <1>6, <1>7

\* The merged tier replaces the tier.
LEMMA EndLayerInv ==
    ASSUME FabricInv, EndLayer, UNCHANGED <<level, unused>>
    PROVE  FabricInv'
<1> USE FabricAssumption, MergerAssumption DEF givenVars
<1>1. /\ phase = "merge" /\ phase' = "tier" /\ rest = {}
      /\ tiers' = [tiers EXCEPT ![cur] = kept]
      /\ UNCHANGED <<below, rank, cnt, cur, rest, kept, nodes, have, refs, nilChild>>
  BY DEF EndLayer
<1>2. /\ cur \in 0..MaxTier /\ tiers \in [0..MaxTier -> SUBSET Ids] /\ kept \subseteq Ids
      /\ cnt \in 0..MaxTier
  BY DEF FabricInv, LevelInv, MergerTypeOK
<1>3. MergerTypeOK' /\ Layers' /\ LevelsInv'
  <2>1. tiers' \in [0..MaxTier -> SUBSET Ids]
    BY <1>1, <1>2
  <2> QED  BY <1>1, <2>1 DEF FabricInv, LevelInv, MergerTypeOK, Layers, LevelsInv
<1>4. /\ tiers'[cur] = kept
      /\ \A k \in 0..MaxTier : k # cur => tiers'[k] = tiers[k]
  BY <1>1, <1>2
<1>5. TiersInv' /\ TraverseInv'
  <2>1. kept = {v \in have : rank[v] = cur}
    BY <1>1 DEF FabricInv, MergeInv
  <2>2. /\ \A k \in 0..MaxTier : \A v \in tiers[k] : rank[v] = k
        /\ cur <= cnt
    BY <1>1 DEF FabricInv, TiersInv
  <2> QED  BY <1>1, <1>2, <1>4, <2>1, <2>2 DEF TiersInv, TraverseInv
<1>6. \A v : Merged(v)' <=> Merged(v)
  BY <1>1 DEF Merged
<1>7. MergeInv'
  <2>1. ASSUME NEW k \in 1..MaxTier, cur < k, k <= cnt, NEW v \in tiers'[k], NEW w \in below[v]
        PROVE  Merged(w) \/ (cur < k - 1 /\ w \in tiers'[k - 1])
    <3>1. v \in tiers[k] /\ (cur < k - 1 => tiers'[k - 1] = tiers[k - 1])
      BY <1>2, <1>4, <2>1
    <3>2. Merged(w) \/ w \in rest \/ (cur < k - 1 /\ w \in tiers[k - 1])
      BY <1>1, <2>1, <3>1 DEF FabricInv, MergeInv
    <3> QED  BY <1>1, <3>1, <3>2
  <2> QED  BY <1>1, <1>6, <2>1 DEF MergeInv
<1>8. MergedInv' /\ nilChild' = FALSE /\ NoTwins'
  <2>1. \A v \in Ids : signature(v)' = signature(v)
    BY <1>1 DEF signature
  <2>2. MergedInv'
    BY <1>1, <1>6, <2>1 DEF FabricInv, MergedInv
  <2> QED  BY <1>1, <2>2 DEF FabricInv, NoTwins
<1> QED  BY <1>3, <1>5, <1>7, <1>8 DEF FabricInv, LevelInv

\* What mergeLayer knows when it comes to a vertex.
LEMMA MergeVertexFacts ==
    ASSUME FabricInv, NEW v \in Ids, mergeVertex(v)
    PROVE  /\ phase = "merge" /\ v \in rest /\ rank[v] = cur /\ ~Merged(v)
           /\ refs[v] = v
           /\ \A w \in below[v] : w \in Ids /\ Merged(w) /\ refs[w] \in have /\ w # v
           /\ \A u \in Ids : Merged(u) => v \notin below[u]
           /\ kept = {u \in have : rank[u] = cur}
           /\ signature(v) \subseteq have
<1>1. /\ phase = "merge" /\ v \in rest /\ rank[v] = cur /\ ~Merged(v)
      /\ kept = {u \in have : rank[u] = cur}
      /\ \A w \in below[v] : Merged(w)
  BY DEF mergeVertex, FabricInv, MergeInv
<1>2. /\ \A u \in Ids : Merged(u) => refs[u] \in have /\ \A w \in below[u] : Merged(w)
      /\ below[v] \subseteq Ids
  BY <1>1 DEF FabricInv, LevelInv, MergerTypeOK, MergedInv
<1>3. \A w \in below[v] : w \in Ids /\ Merged(w) /\ refs[w] \in have /\ w # v
  BY <1>1, <1>2
<1>4. \A u \in Ids : Merged(u) => v \notin below[u]
  BY <1>1, <1>2
<1>5. signature(v) \subseteq have
  BY <1>3 DEF signature
<1> QED  BY <1>1, <1>3, <1>4, <1>5 DEF Merged

\* What is below a vertex that waits is merged already, for any tier above.
LEMMA MergeVertexWaits ==
    ASSUME FabricInv, NEW v \in Ids, mergeVertex(v), UNCHANGED <<level, unused>>,
           \A u \in Ids : Merged(u)' <=> Merged(u) \/ u = v,
           kept' = {u \in have' : rank'[u] = cur'}
    PROVE  MergeInv'
<1>1. /\ phase = "merge" /\ phase' = "merge" /\ rest' = rest \ {v} /\ rest \subseteq Ids
      /\ UNCHANGED <<below, rank, cnt, tiers, cur>>
      /\ tiers \in [0..MaxTier -> SUBSET Ids] /\ below \in [Ids -> SUBSET Ids]
  BY DEF mergeVertex, FabricInv, LevelInv, MergerTypeOK, givenVars
<1>2. /\ \A k \in 1..MaxTier : cur < k /\ k <= cnt =>
             \A u \in tiers[k] : \A w \in below[u] :
                 Merged(w) \/ w \in rest \/ (cur < k - 1 /\ w \in tiers[k - 1])
      /\ \A u \in rest : rank[u] = cur /\ ~Merged(u)
      /\ \A u \in rest : \A w \in below[u] : Merged(w)
      /\ cur > 0
  BY <1>1 DEF FabricInv, MergeInv
<1>3. \A k \in 1..MaxTier : k \in 0..MaxTier
  BY MergerAssumption
<1>4. ASSUME NEW k \in 1..MaxTier, cur < k, k <= cnt, NEW u \in tiers[k], NEW w \in below[u]
      PROVE  Merged(w)' \/ w \in rest' \/ (cur < k - 1 /\ w \in tiers[k - 1])
  <2>1. w \in Ids
    BY <1>1, <1>3, <1>4
  <2> QED  BY <1>1, <1>2, <1>4, <2>1
<1>5. /\ \A u \in rest' : rank[u] = cur /\ ~Merged(u)'
      /\ \A u \in rest' : \A w \in below[u] : Merged(w)'
  BY <1>1, <1>2
<1> QED  BY <1>1, <1>2, <1>4, <1>5 DEF MergeInv

\* A vertex is merged into another of its tier, or kept.
LEMMA MergeVertexInv ==
    ASSUME FabricInv, NEW v \in Ids, mergeVertex(v), UNCHANGED <<level, unused>>
    PROVE  FabricInv'
<1> USE FabricAssumption, MergerAssumption DEF givenVars
<1>1. /\ phase' = "merge" /\ rest' = rest \ {v}
      /\ UNCHANGED <<below, rank, cnt, tiers, cur>>
  BY MergeVertexFacts DEF mergeVertex
<1>2. /\ below \in [Ids -> SUBSET Ids] /\ rank \in [Ids -> 0..MaxTier] /\ cur \in 0..MaxTier
      /\ nodes \in [Ids -> SUBSET Ids] /\ refs \in [Ids -> Ids]
      /\ have \subseteq Ids /\ kept \subseteq Ids
  BY DEF FabricInv, LevelInv, MergerTypeOK
<1>3. /\ \A u \in Ids : Merged(u) => rank[u] <= cur /\ refs[u] \in have
      /\ \A u \in have : refs[u] = u
      /\ \A u \in Ids : rank[refs[u]] = rank[u]
      /\ \A u \in Ids : Merged(u) => \A w \in below[u] : Merged(w)
      /\ \A u \in Ids : Merged(u) => nodes[refs[u]] = signature(u)
  BY MergeVertexFacts DEF FabricInv, MergedInv
<1>4. Layers' /\ LevelsInv' /\ TiersInv' /\ TraverseInv'
  BY <1>1, MergeVertexFacts
     DEF FabricInv, LevelInv, Layers, LevelsInv, TiersInv, TraverseInv
<1>5. ASSUME \A u \in Ids : u # v => refs'[u] = refs[u]
      PROVE  /\ \A u \in Ids : Merged(u) => signature(u)' = signature(u)
             /\ signature(v)' = signature(v)
  <2>1. ASSUME NEW u \in Ids, Merged(u) \/ u = v PROVE signature(u)' = signature(u)
    <3>1. \A w \in below[u] : w \in Ids /\ w # v
      BY <1>2, <2>1, MergeVertexFacts
    <3>2. below' = below
      BY <1>1
    <3>3. \A w \in below[u] : refs'[w] = refs[w]
      BY <1>5, <3>1
    <3> QED  BY <3>2, <3>3 DEF signature
  <2> QED  BY <2>1
<1>6. CASE \E f \in kept : SameSignature(f, v) /\ refs' = [refs EXCEPT ![v] = f]
                           /\ UNCHANGED <<kept, nodes, have, nilChild>>
  <2>1. PICK f \in kept : nodes[f] = signature(v) /\ refs' = [refs EXCEPT ![v] = f]
                          /\ UNCHANGED <<kept, nodes, have, nilChild>>
    BY <1>6 DEF SameSignature
  <2>2. f \in have /\ f \in Ids /\ rank[f] = cur /\ f # v
    BY <1>2, <2>1, MergeVertexFacts DEF Merged
  <2>3. refs' \in [Ids -> Ids] /\ refs'[v] = f /\ \A u \in Ids : u # v => refs'[u] = refs[u]
    BY <1>2, <2>1, <2>2
  <2>4. \A u \in Ids : Merged(u)' <=> Merged(u) \/ u = v
    BY <2>1, <2>2, <2>3 DEF Merged
  <2>5. MergerTypeOK'
    BY <1>1, <2>1, <2>3 DEF FabricInv, LevelInv, MergerTypeOK
  <2>6. MergeInv'
    <3>1. kept' = {u \in have' : rank'[u] = cur'}
      BY <1>1, <2>1, MergeVertexFacts
    <3> QED  BY <2>4, <3>1, MergeVertexWaits
  <2>7. MergedInv'
    <3>1. \A u \in Ids : Merged(u)' => rank[u] <= cur /\ refs'[u] \in have
      BY <1>2, <1>3, <2>2, <2>3, <2>4, MergeVertexFacts
    <3>2. \A u \in have : refs'[u] = u
      BY <1>2, <1>3, <2>3, MergeVertexFacts DEF Merged
    <3>3. \A u \in Ids : rank[refs'[u]] = rank[u]
      BY <1>3, <2>2, <2>3, MergeVertexFacts
    <3>4. \A u \in Ids : Merged(u)' => \A w \in below[u] : Merged(w)'
      BY <1>2, <1>3, <2>4, MergeVertexFacts
    <3>5. \A u \in Ids : Merged(u)' => nodes[refs'[u]] = signature(u)'
      BY <1>3, <1>5, <2>1, <2>3, <2>4
    <3> QED  BY <1>1, <2>1, <3>1, <3>2, <3>3, <3>4, <3>5 DEF MergedInv
  <2>8. nilChild' = FALSE /\ NoTwins'
    BY <2>1 DEF FabricInv, NoTwins
  <2> QED  BY <1>4, <2>5, <2>6, <2>7, <2>8 DEF FabricInv, LevelInv
<1>7. CASE /\ ~\E f \in kept : SameSignature(f, v)
           /\ kept' = kept \cup {v}
           /\ nodes' = [nodes EXCEPT ![v] = signature(v)]
           /\ nilChild' = (nilChild \/ ~(signature(v) \subseteq have))
           /\ have' = have \cup {v}
           /\ UNCHANGED refs
  <2>1. signature(v) \subseteq have /\ v \notin have /\ refs' = refs /\ refs[v] = v
    BY <1>7, MergeVertexFacts DEF Merged
  <2>2. /\ nodes' \in [Ids -> SUBSET Ids] /\ nodes'[v] = signature(v)
        /\ \A u \in Ids : u # v => nodes'[u] = nodes[u]
    BY <1>2, <1>7, <2>1
  <2>3. \A u \in Ids : Merged(u)' <=> Merged(u) \/ u = v
    BY <1>7, <2>1 DEF Merged
  <2>4. MergerTypeOK'
    BY <1>1, <1>7, <2>1, <2>2 DEF FabricInv, LevelInv, MergerTypeOK
  <2>5. MergeInv'
    <3>1. kept' = {u \in have' : rank'[u] = cur'}
      BY <1>1, <1>7, MergeVertexFacts
    <3> QED  BY <2>3, <3>1, MergeVertexWaits
  <2>6. MergedInv'
    <3>1. \A u \in Ids : Merged(u)' => rank[u] <= cur /\ refs'[u] \in have'
      BY <1>2, <1>3, <1>7, <2>1, <2>3, MergeVertexFacts
    <3>2. \A u \in have' : refs'[u] = u
      BY <1>3, <1>7, <2>1
    <3>3. \A u \in Ids : rank[refs'[u]] = rank[u]
      BY <1>3, <2>1
    <3>4. \A u \in Ids : Merged(u)' => \A w \in below[u] : Merged(w)'
      BY <1>2, <1>3, <2>3, MergeVertexFacts
    <3>5. \A u \in Ids : Merged(u)' => nodes'[refs'[u]] = signature(u)'
      <4>1. /\ \A u \in Ids : Merged(u) => signature(u)' = signature(u)
            /\ signature(v)' = signature(v)
        BY <1>5, <2>1
      <4>2. \A u \in Ids : Merged(u) => refs[u] \in Ids /\ refs[u] # v
        BY <1>2, <1>3, <2>1
      <4> QED  BY <1>3, <2>1, <2>2, <2>3, <4>1, <4>2
    <3> QED  BY <1>1, <3>1, <3>2, <3>3, <3>4, <3>5 DEF MergedInv
  <2>7. nilChild' = FALSE
    BY <1>7, <2>1 DEF FabricInv
  <2>8. NoTwins'
    <3>1. ASSUME NEW u \in have, nodes[u] = signature(v), signature(v) # {} PROVE FALSE
      <4>1. u \in Ids /\ Merged(u) /\ signature(u) = signature(v)
        BY <1>2, <1>3, <3>1 DEF Merged
      <4>2. PICK w \in below[u] : refs[w] \in signature(v)
        BY <3>1, <4>1 DEF signature
      <4>3. PICK x \in below[v] : refs[w] = refs[x]
        BY <4>2 DEF signature
      <4>4. w \in Ids /\ x \in Ids
        BY <1>2, <4>1, <4>2, <4>3
      <4>5. rank[w] = rank[x]
        BY <1>3, <4>3, <4>4
      <4>6. rank[w] + 1 = rank[u] /\ rank[x] + 1 = rank[v]
        BY <4>1, <4>2, <4>3 DEF FabricInv, LevelInv, Layers
      <4>7. u \in kept
        BY <3>1, <4>5, <4>6, MergeVertexFacts
      <4> QED  BY <1>7, <3>1, <4>7 DEF SameSignature
    <3>2. ASSUME NEW u \in have', NEW w \in have', nodes'[u] = nodes'[w], nodes'[u] # {}
          PROVE  u = w
      <4>1. CASE u = v \/ w = v
        <5>1. \A x \in have : nodes'[x] = nodes[x] /\ x \in Ids
          BY <1>2, <2>1, <2>2
        <5> QED  BY <1>7, <2>2, <3>1, <3>2, <4>1, <5>1
      <4>2. CASE u # v /\ w # v
        <5>1. u \in have /\ w \in have /\ nodes[u] = nodes[w] /\ nodes[u] # {}
          BY <1>2, <1>7, <2>2, <3>2, <4>2
        <5> QED  BY <5>1 DEF FabricInv, NoTwins
      <4> QED  BY <4>1, <4>2
    <3> QED  BY <3>2 DEF NoTwins
  <2> QED  BY <1>4, <2>4, <2>5, <2>6, <2>7, <2>8 DEF FabricInv, LevelInv
<1> QED  BY <1>6, <1>7 DEF mergeVertex

----------------------------------------------------------------------------
(* The providers.                                                           *)

\* What ibnetdiscover prints are switches.
LEMMA ParsedSwitches == \A s : ParseIbnetdiscoverFile(Component(s)) \in SUBSET Switches
BY DEF ParseIbnetdiscoverFile, Component

\* buildTree takes a new level from the switches in none.
LEMMA BuildTreeInv == ASSUME FabricInv, buildTree PROVE FabricInv'
<1>1. phase = "levels"
  BY DEF buildTree
<1>2. CASE Upper = {}
  BY <1>1, <1>2, NewMergerInv DEF buildTree
<1>3. CASE Upper # {}
  <2> DEFINE D == [v \in Upper |-> fabric.conn[v] \cap level]
  <2>1. /\ Upper \in SUBSET unused /\ D \in [Upper -> SUBSET level]
        /\ \A v \in Upper : D[v] # {} /\ D[v] = fabric.conn[v] \cap level
    BY DEF Upper
  <2>2. /\ cnt < MaxTier /\ cnt' = cnt + 1
        /\ below' = [v \in Ids |-> IF v \in Upper THEN fabric.conn[v] \cap level ELSE below[v]]
        /\ rank' = [v \in Ids |-> IF v \in Upper THEN cnt + 1 ELSE rank[v]]
        /\ level' = Upper /\ unused' = unused \ Upper /\ UNCHANGED <<phase, mergerVars>>
    BY <1>3 DEF buildTree
  <2>3. below' = [v \in Ids |-> IF v \in Upper THEN D[v] ELSE below[v]]
    BY <2>1, <2>2
  <2> HIDE DEF D
  <2> QED  BY <1>1, <1>3, <2>1, <2>2, <2>3, LevelUpInv
<1> QED  BY <1>2, <1>3

\* So does parseNetq, if it does not panic.
LEMMA NetqLayerInv == ASSUME FabricInv, nextNetqLayer PROVE FabricInv'
<1>1. phase = "levels"
  BY DEF nextNetqLayer
<1>2. CASE ~(nextLayer \subseteq unused)
  BY <1>2, QuietStep DEF nextNetqLayer, Quiet
<1>3. CASE nextLayer \subseteq unused /\ nextLayer = {}
  BY <1>1, <1>3, NewMergerInv DEF nextNetqLayer
<1>4. CASE nextLayer \subseteq unused /\ nextLayer # {}
  <2> DEFINE D == [v \in nextLayer |-> {w \in level : linkedUp(w, v)}]
  <2>1. /\ nextLayer \in SUBSET unused /\ D \in [nextLayer -> SUBSET level]
        /\ \A v \in nextLayer : D[v] # {} /\ D[v] = {w \in level : linkedUp(w, v)}
    BY <1>4 DEF nextLayer
  <2>2. /\ cnt < MaxTier /\ cnt' = cnt + 1
        /\ below' = [v \in Ids |-> IF v \in nextLayer THEN {w \in level : linkedUp(w, v)}
                                   ELSE below[v]]
        /\ rank' = [v \in Ids |-> IF v \in nextLayer THEN cnt + 1 ELSE rank[v]]
        /\ level' = nextLayer /\ unused' = unused \ nextLayer /\ UNCHANGED <<phase, mergerVars>>
    BY <1>4 DEF nextNetqLayer
  <2>3. below' = [v \in Ids |-> IF v \in nextLayer THEN D[v] ELSE below[v]]
    BY <2>1, <2>2
  <2> HIDE DEF D
  <2> QED  BY <1>1, <1>4, <2>1, <2>2, <2>3, LevelUpInv
<1> QED  BY <1>2, <1>3, <1>4

\* The devices of a premises are read: the nodes are the lowest layer.
LEMMA ReadPremisesInv == ASSUME FabricInv, NEW p \in Premises, readPremises(p) PROVE FabricInv'
<1> USE FabricAssumption, MergerAssumption
<1>1. phase = "premises" /\ UNCHANGED mergerVars
  BY DEF readPremises
<1>2. CASE UNCHANGED <<phase, buildVars>> \/ (phase' = "failed" /\ UNCHANGED buildVars)
  BY <1>1, <1>2, QuietStep DEF Quiet
<1>3. CASE /\ phase' = "levels"
           /\ unused' = {s \in fabric.listed \cap p \cap Switches : fabric.tier[s] > 0}
           /\ level' = fabric.listed \cap p \cap Requested
           /\ below' = [v \in Ids |-> {}]
           /\ rank' = [v \in Ids |-> 0]
           /\ cnt' = 0
  <2>1. /\ below' \in [Ids -> SUBSET Ids] /\ rank' \in [Ids -> 0..MaxTier]
        /\ cnt' \in 0..MaxTier /\ level' \subseteq Ids /\ unused' \subseteq Switches
    BY <1>3
  <2>2. Layers' /\ LevelsInv'
    BY <1>3 DEF Layers, LevelsInv
  <2> QED  BY <1>1, <1>3, <2>1, <2>2, BuildStep
<1> QED  BY <1>2, <1>3 DEF readPremises

\* Every step keeps the invariant.
LEMMA FabricNextInv == FabricInv /\ [FabricNext]_fabricVars => FabricInv'
<1> SUFFICES ASSUME FabricInv, [FabricNext]_fabricVars PROVE FabricInv'
  OBVIOUS
<1>1. CASE \/ readDomains \/ unreadableOutput \/ login \/ addRoots \/ endLoop \/ makeResult
           \/ loadModel
  <2>1. UNCHANGED <<buildVars, mergerVars>>
    BY <1>1 DEF readDomains, unreadableOutput, login, addRoots, endLoop, makeResult, loadModel
  <2>2. Quiet(phase')
    BY <1>1 DEF readDomains, unreadableOutput, login, addRoots, endLoop, makeResult, loadModel,
                Quiet
  <2> QED  BY <2>1, <2>2, QuietStep
<1>2. ASSUME NEW n \in Hosts, skipNode(n) \/ missNode(n) PROVE FabricInv'
  BY <1>2, QuietStep DEF skipNode, missNode, Quiet
<1>3. CASE discoverLocal
  <2>1. CASE phase' = "failed" /\ UNCHANGED buildVars
    BY <1>3, <2>1, QuietStep DEF discoverLocal, Quiet
  <2>2. CASE \E s \in Switches : findLeaves(ParseIbnetdiscoverFile(Component(s)))
    BY <1>3, <2>2, ParsedSwitches, FindLeavesInv DEF discoverLocal
  <2> QED  BY <1>3, <2>1, <2>2 DEF discoverLocal
<1>4. ASSUME NEW n \in Hosts, discoverNode(n) PROVE FabricInv'
  BY <1>4, ParsedSwitches, FindLeavesInv DEF discoverNode
<1>5. CASE buildTree
  BY <1>5, BuildTreeInv
<1>6. CASE nextNetqLayer
  BY <1>6, NetqLayerInv
<1>7. CASE MergerStep
  BY <1>7, TraverseStepInv, NextTierUpInv, EndLayerInv, MergeVertexInv DEF MergerStep, MergerNext
<1>8. ASSUME NEW p \in Premises, readPremises(p) PROVE FabricInv'
  BY <1>8, ReadPremisesInv
<1>9. CASE UNCHANGED fabricVars
  <2>1. \A v \in Ids : (signature(v)' = signature(v)) /\ (Merged(v)' <=> Merged(v))
    BY <1>9 DEF signature, Merged, fabricVars, buildVars, givenVars, mergerVars
  <2>2. UNCHANGED <<phase, below, rank, cnt, level, unused, tiers, cur, rest, kept, nodes, have,
                    refs, nilChild>>
    BY <1>9 DEF fabricVars, buildVars, givenVars, mergerVars
  <2>3. LevelInv' /\ TiersInv' /\ TraverseInv' /\ NoTwins' /\ nilChild' = FALSE
    BY <2>2 DEF FabricInv, LevelInv, MergerTypeOK, Layers, LevelsInv, TiersInv, TraverseInv,
                NoTwins
  <2>4. MergedInv'
    BY <2>1, <2>2 DEF FabricInv, MergedInv, LevelInv, MergerTypeOK
  <2>5. MergeInv'
    BY <2>2 DEF FabricInv, MergeInv, Merged
  <2> QED  BY <2>3, <2>4, <2>5 DEF FabricInv
<1> QED  BY <1>1, <1>2, <1>3, <1>4, <1>5, <1>6, <1>7, <1>8, <1>9 DEF FabricNext

\* The graph that is merged is layered, and what is merged is done with, at all
\* times and for any fabric (buildTree, parseNetq, merger.go).
THEOREM FabricInvariance == FabricSpec => []FabricInv
BY FabricInitInv, FabricNextInv, PTL DEF FabricSpec

\* Merging keeps every connection, makes none up and leaves no nil vertex, for
\* fabrics of any size and depth, whatever the order of the vertices
\* (mergeLayer).
THEOREM ChildrenAreKept == FabricSpec => []MergeKeepsChildren
<1>1. FabricInv => MergeKeepsChildren
  BY DEF FabricInv, MergedInv, MergeKeepsChildren, Merged, signature
<1> QED  BY <1>1, FabricInvariance, PTL

\* The merged graph has no two switches with the same vertices below them, not
\* even in different tiers (mergeLayer).
THEOREM TwinsAreMerged == FabricSpec => []NoTwins
<1>1. FabricInv => NoTwins
  BY DEF FabricInv
<1> QED  BY <1>1, FabricInvariance, PTL

----------------------------------------------------------------------------
(* Accelerator domains.                                                     *)

\* The request and the domains that were read stay as they are.
LEMMA DomainsStep == InputInv /\ DomainsInv /\ [FabricNext]_fabricVars => InputInv' /\ DomainsInv'
<1> SUFFICES ASSUME InputInv, DomainsInv, [FabricNext]_fabricVars PROVE InputInv' /\ DomainsInv'
  OBVIOUS
<1> USE FabricAssumption
<1>1. UNCHANGED inputVars
  BY DEF FabricNext, readDomains, discoverLocal, unreadableOutput, login, buildTree, nextNetqLayer,
         loadModel, MergerStep, addRoots, endLoop, makeResult, skipNode, missNode, discoverNode,
         readPremises, fabricVars
<1>2. \A h : ClusterIDs(h)' = ClusterIDs(h)
  BY <1>1 DEF ClusterIDs, Values, inputVars
<1>3. provider' = provider /\ fabric' = fabric /\ InputInv'
  BY <1>1 DEF inputVars, InputInv
<1>4. CASE provider \notin OnPrem \/ UNCHANGED domains
  BY <1>2, <1>3, <1>4 DEF DomainsInv
<1>5. CASE provider \in OnPrem /\ readDomains
  <2>1. CASE domains' = PdshDomains
    <3>1. \A d \in PdshDomains : d[1] \in ClusterIDs(d[2]) /\ d[2] \in Hosts
      BY DEF PdshDomains, PdshHosts
    <3> QED  BY <1>2, <1>3, <2>1, <3>1 DEF DomainsInv
  <2>2. CASE \E annotated \in SUBSET {h \in Hosts : AnnotatedIDs(h) # {}} :
                 \E id \in [annotated -> UNION {AnnotatedIDs(h) : h \in annotated}] :
                     /\ \A h \in annotated : id[h] \in AnnotatedIDs(h)
                     /\ domains' = {<<id[h], h>> : h \in annotated}
    <3>0. PICK annotated \in SUBSET {h \in Hosts : AnnotatedIDs(h) # {}} :
                 \E id \in [annotated -> UNION {AnnotatedIDs(h) : h \in annotated}] :
                     /\ \A h \in annotated : id[h] \in AnnotatedIDs(h)
                     /\ domains' = {<<id[h], h>> : h \in annotated}
      BY <2>2
    <3>1. PICK id \in [annotated -> UNION {AnnotatedIDs(h) : h \in annotated}] :
                     /\ \A h \in annotated : id[h] \in AnnotatedIDs(h)
                     /\ domains' = {<<id[h], h>> : h \in annotated}
      BY <3>0
    <3>2. ASSUME NEW h \in annotated
          PROVE  (id[h] \in ClusterIDs(h) /\ h \in Hosts) \/ (id[h] = NoID /\ fabric.pods[h] = 0)
      BY <3>0, <3>1 DEF AnnotatedIDs
    <3> QED  BY <1>2, <1>3, <3>1, <3>2 DEF DomainsInv
  <2>3. CASE UNCHANGED domains
    BY <1>4, <2>3
  <2> QED  BY <1>3, <1>5, <2>1, <2>2, <2>3 DEF readDomains
<1>6. provider \in OnPrem /\ ~readDomains => UNCHANGED domains
  BY DEF FabricNext, discoverLocal, unreadableOutput, login, buildTree, nextNetqLayer,
         loadModel, MergerStep, addRoots, endLoop, makeResult, skipNode, missNode, discoverNode,
         readPremises, fabricVars, resultVars, OnPrem
<1> QED  BY <1>3, <1>4, <1>5, <1>6

\* Nodes share a domain only if they print the same cluster and clique, or if
\* both have no device plugin, whatever nvidia-smi prints on the hosts.
THEOREM DomainsAreCliques == FabricSpec => []DomainsShareClique
<1>1. FabricInit => InputInv /\ DomainsInv
  BY DEF FabricInit, InputInv, DomainsInv
<1>2. InputInv /\ DomainsInv => DomainsShareClique
  <2> SUFFICES ASSUME InputInv, DomainsInv, provider \in OnPrem,
                      NEW d \in domains, NEW e \in domains, d[1] = e[1]
               PROVE  \/ ClusterIDs(d[2]) \cap ClusterIDs(e[2]) # {}
                      \/ d[1] = NoID /\ fabric.pods[d[2]] = 0 /\ fabric.pods[e[2]] = 0
    BY DEF DomainsShareClique
  <2>1. IsFabric(fabric)
    BY FabricAssumption DEF InputInv, OnPrem
  <2>2. ASSUME NEW h \in Hosts PROVE NoID \notin ClusterIDs(h)
    <3> SUFFICES ASSUME NoID \in ClusterIDs(h) PROVE FALSE
      OBVIOUS
    <3>1. PICK x \in Values(h, "ClusterUUID"), y \in Values(h, "CliqueId") : NoID = <<x, y>>
      BY DEF ClusterIDs
    <3>2. PICK l \in fabric.smi[h] : x = l[2]
      BY DEF Values
    <3>3. PICK m \in fabric.smi[h] : y = m[2]
      BY DEF Values
    <3> QED  BY <2>1, <3>1, <3>2, <3>3 DEF IsFabric
  <2>3. /\ \/ d[1] \in ClusterIDs(d[2]) /\ d[2] \in Hosts
           \/ d[1] = NoID /\ fabric.pods[d[2]] = 0
        /\ \/ e[1] \in ClusterIDs(e[2]) /\ e[2] \in Hosts
           \/ e[1] = NoID /\ fabric.pods[e[2]] = 0
    BY DEF DomainsInv
  <2> QED  BY <2>2, <2>3
<1> QED  BY <1>1, <1>2, DomainsStep, PTL DEF FabricSpec

----------------------------------------------------------------------------
(* NetQ.                                                                    *)

\* What counts as a link upwards depends on the fabric and the list only.
LEMMA SameLinks ==
    ASSUME UNCHANGED <<fabric, seen>>
    PROVE  /\ \A v : tierMap(v)' = tierMap(v)
           /\ Orderly' <=> Orderly
<1>1. \A v : tierMap(v)' = tierMap(v)
  BY DEF tierMap
<1>2. \A v, s : linkedUp(v, s)' <=> linkedUp(v, s)
  BY <1>1 DEF linkedUp
<1> QED  BY <1>1, <1>2 DEF Orderly

\* Tiers are numbers.
LEMMA TierNumbers ==
    ASSUME InputInv, provider = "netq"
    PROVE  \A v \in Ids : tierMap(v) \in Nat
<1>1. IsFabric(fabric)
  BY FabricAssumption DEF InputInv
<1> QED  BY <1>1, FabricAssumption DEF IsFabric, tierMap

\* In an orderly list the layer above one of tier t is of one higher tier, and
\* there was none of its switches in a layer yet.
LEMMA OrderlyLayer ==
    ASSUME InputInv, provider = "netq", seen \subseteq Ids, Orderly,
           NEW t \in Nat, LayerOf(level, unused, t), nextLayer # {}
    PROVE  /\ nextLayer \subseteq unused
           /\ \E u \in Nat : LayerOf(nextLayer, unused \ nextLayer, u)
<1> DEFINE above == nextLayer
<1>1. /\ \A v \in level : v \in seen /\ tierMap(v) = t
      /\ \A s \in seen \cap Switches : tierMap(s) > t => s \in unused
      /\ \A s \in Switches : s \in above <=> \E v \in level : linkedUp(v, s)
      /\ above \subseteq Switches
  BY DEF LayerOf, nextLayer
<1>2. /\ \A v \in seen : tierMap(v) \in Nat
      /\ \A v, s : linkedUp(v, s) => tierMap(v) < tierMap(s)
  BY TierNumbers DEF linkedUp
<1> HIDE DEF above
<1>3. ASSUME NEW s \in above
      PROVE  /\ s \in Switches /\ s \in seen /\ tierMap(s) > t /\ s \in unused
             /\ \A u \in seen : ~(t < tierMap(u) /\ tierMap(u) < tierMap(s))
  <2>1. PICK v \in level : linkedUp(v, s)
    BY <1>1
  <2>2. /\ s \in seen
        /\ \A u \in seen : ~(tierMap(v) < tierMap(u) /\ tierMap(u) < tierMap(s))
    BY <1>1, <2>1 DEF Orderly
  <2>3. tierMap(v) = t /\ tierMap(s) \in Nat /\ t < tierMap(s)
    BY <1>1, <1>2, <2>1, <2>2
  <2> QED  BY <1>1, <2>2, <2>3
<1>4. PICK r \in above : TRUE
  BY DEF above
<1>5. tierMap(r) \in Nat /\ tierMap(r) > t
  BY <1>2, <1>3
<1>6. \A s \in above : s \in seen /\ tierMap(s) = tierMap(r)
  BY <1>2, <1>3, <1>4
<1>7. \A s \in seen \cap Switches : tierMap(s) > tierMap(r) => s \in unused \ above
  BY <1>1, <1>2, <1>5, <1>6
<1>8. LayerOf(above, unused \ above, tierMap(r))
  BY <1>6, <1>7 DEF LayerOf
<1> QED  BY <1>3, <1>5, <1>8 DEF above

\* Every step keeps layers tiers.
LEMMA NetqStep ==
    InputInv /\ FabricInv /\ NetqInv /\ [FabricNext]_fabricVars => NetqInv'
<1> SUFFICES ASSUME InputInv, FabricInv, NetqInv, [FabricNext]_fabricVars PROVE NetqInv'
  OBVIOUS
<1> USE FabricAssumption, MergerAssumption
<1>1. UNCHANGED <<provider, fabric>>
  BY DEF FabricNext, readDomains, discoverLocal, unreadableOutput, login, buildTree, nextNetqLayer,
         loadModel, MergerStep, addRoots, endLoop, makeResult, skipNode, missNode, discoverNode,
         readPremises, fabricVars, inputVars
<1>2. CASE provider # "netq"
  <2>1. phase' # "crashed"
    BY <1>2 DEF FabricNext, readDomains, discoverLocal, unreadableOutput, login, buildTree,
                nextNetqLayer, loadModel, MergerStep, MergerNext, traverse, NextTierUp, EndLayer,
                mergeVertex, addRoots, endLoop, makeResult, skipNode, missNode, discoverNode,
                findLeaves, readPremises, NewMerger, fabricVars, NetqInv
  <2> QED  BY <1>1, <1>2, <2>1 DEF NetqInv
<1>3. CASE provider = "netq" /\ phase' \notin {"nodes", "levels", "crashed"}
  BY <1>1, <1>3 DEF NetqInv
<1>4. CASE provider = "netq" /\ UNCHANGED fabricVars
  <2>1. UNCHANGED <<provider, fabric, seen, phase, level, unused, cnt>>
    BY <1>4 DEF fabricVars, inputVars, buildVars, givenVars
  <2>2. Orderly' <=> Orderly
    BY <2>1, SameLinks
  <2>3. phase = "levels" /\ Orderly => \E t \in Nat : LayerOf(level, unused, t)'
    <3> SUFFICES ASSUME phase = "levels", Orderly
                 PROVE  \E t \in Nat : LayerOf(level, unused, t)'
      OBVIOUS
    <3>1. PICK t \in Nat : LayerOf(level, unused, t)
      BY <1>4 DEF NetqInv
    <3>2. \A v : tierMap(v)' = tierMap(v)
      BY <2>1, SameLinks
    <3>3. LayerOf(level, unused, t)'
      BY <2>1, <3>1, <3>2 DEF LayerOf
    <3> QED  BY <3>3
  <2> QED  BY <2>1, <2>2, <2>3 DEF NetqInv
<1>5. ASSUME provider = "netq", NEW p \in Premises, readPremises(p) PROVE NetqInv'
  <2>1. phase = "premises"
    BY <1>5 DEF readPremises
  <2>2. CASE phase' # "levels"
    <3>1. phase' \notin {"nodes", "levels", "crashed"}
      BY <1>5, <2>1, <2>2 DEF readPremises
    <3> QED  BY <1>3, <1>5, <3>1
  <2>3. CASE phase' = "levels"
    <3>1. /\ seen' = fabric.listed \cap p
          /\ unused' = {s \in fabric.listed \cap p \cap Switches : fabric.tier[s] > 0}
          /\ level' = fabric.listed \cap p \cap Requested
          /\ cnt' = 0
      BY <1>5, <2>1, <2>3 DEF readPremises
    <3>2. LayerOf(level, unused, 0)'
      <4>1. \A v \in level' : v \in seen' /\ tierMap(v)' = 0
        BY <3>1 DEF tierMap
      <4>2. \A s \in seen' \cap Switches : tierMap(s)' > 0 => s \in unused'
        BY <1>1, <3>1 DEF tierMap
      <4> QED  BY <4>1, <4>2 DEF LayerOf
    <3>3. \E t \in Nat : LayerOf(level, unused, t)'
      BY <3>2
    <3>4. seen' \subseteq Ids
      BY <1>5, <3>1 DEF IsFabric, InputInv
    <3> QED  BY <2>3, <3>3, <3>4, <1>1 DEF NetqInv
  <2> QED  BY <2>2, <2>3
<1>6. CASE provider = "netq" /\ nextNetqLayer
  <2>1. phase = "levels"
    BY <1>6 DEF nextNetqLayer
  <2>2. CASE ~(nextLayer \subseteq unused)
    <3>1. phase' = "crashed" /\ UNCHANGED <<fabric, seen>>
      BY <1>1, <1>6, <2>2 DEF nextNetqLayer, buildVars
    <3>2. ~Orderly
      <4> SUFFICES ASSUME Orderly PROVE FALSE
        OBVIOUS
      <4>1. PICK t \in Nat : LayerOf(level, unused, t)
        BY <1>6, <2>1 DEF NetqInv
      <4>2. seen \subseteq Ids /\ nextLayer # {}
        BY <1>6, <2>1, <2>2 DEF NetqInv
      <4> QED  BY <1>6, <2>2, <4>1, <4>2, OrderlyLayer
    <3> QED  BY <1>1, <1>6, <3>1, <3>2, SameLinks DEF NetqInv
  <2>3. CASE nextLayer \subseteq unused /\ nextLayer = {}
    <3>1. phase' \notin {"nodes", "levels", "crashed"}
      BY <1>6, <2>3 DEF nextNetqLayer, NewMerger
    <3> QED  BY <1>3, <1>6, <3>1
  <2>4. CASE nextLayer \subseteq unused /\ nextLayer # {}
    <3>1. /\ phase' = "levels" /\ level' = nextLayer
          /\ unused' = unused \ nextLayer /\ UNCHANGED <<fabric, seen>>
      BY <1>1, <1>6, <2>1, <2>4 DEF nextNetqLayer
    <3>2. seen \subseteq Ids
      BY <1>6, <2>1 DEF NetqInv
    <3>3. ASSUME Orderly PROVE \E t \in Nat : LayerOf(level, unused, t)'
      <4>1. PICK t \in Nat : LayerOf(level, unused, t)
        BY <1>6, <2>1, <3>3 DEF NetqInv
      <4>2. PICK u \in Nat : LayerOf(nextLayer, unused \ nextLayer, u)
        BY <1>6, <2>4, <3>2, <3>3, <4>1, OrderlyLayer
      <4>3. \A v : tierMap(v)' = tierMap(v)
        BY <3>1, SameLinks
      <4>4. /\ \A v \in level' : v \in seen' /\ tierMap(v)' = u
            /\ \A s \in seen' \cap Switches : tierMap(s)' > u => s \in unused'
        BY <3>1, <4>2, <4>3 DEF LayerOf
      <4>5. LayerOf(level, unused, u)'
        BY <4>4 DEF LayerOf
      <4> QED  BY <4>5
    <3>4. Orderly' <=> Orderly
      BY <3>1, SameLinks
    <3> QED  BY <1>1, <3>1, <3>2, <3>3, <3>4 DEF NetqInv
  <2> QED  BY <2>2, <2>3, <2>4
<1>7. CASE provider = "netq" /\ MergerStep
  BY <1>3, <1>7 DEF MergerStep, MergerNext, traverse, NextTierUp, EndLayer, mergeVertex
<1>8. CASE /\ provider = "netq"
           /\ \/ readDomains \/ discoverLocal \/ unreadableOutput \/ login \/ buildTree
              \/ loadModel \/ addRoots \/ endLoop \/ makeResult
  BY <1>3, <1>8 DEF readDomains, discoverLocal, unreadableOutput, login, buildTree, loadModel,
                    addRoots, endLoop, makeResult, OnPrem
<1>9. ASSUME provider = "netq", NEW n \in Hosts, skipNode(n) \/ missNode(n) \/ discoverNode(n)
      PROVE  NetqInv'
  BY <1>9 DEF skipNode, missNode, discoverNode, NetqInv
<1> QED  BY <1>2, <1>4, <1>5, <1>6, <1>7, <1>8, <1>9 DEF FabricNext

\* A device list whose links name listed devices and skip no tier in use does
\* not bring the server down, for any number of devices and any numbers of
\* tiers (parseNetq).
THEOREM OrderlyListsAreSafe == FabricSpec => []OrderlyListIsSafe
<1>1. FabricInit => InputInv /\ DomainsInv /\ NetqInv
  BY DEF FabricInit, InputInv, DomainsInv, NetqInv
<1>2. NetqInv => OrderlyListIsSafe
  BY DEF NetqInv, Orderly, OrderlyListIsSafe
<1> QED  BY <1>1, <1>2, FabricInitInv, FabricNextInv, DomainsStep, NetqStep, PTL DEF FabricSpec

----------------------------------------------------------------------------
(* Model files.                                                             *)

\* What is reached from v is closed, and is in every closed set with v.
LEMMA ReachedFacts ==
    ASSUME NEW f \in [Ids -> SUBSET Ids], NEW v \in Ids
    PROVE  /\ v \in Reached(f, v) /\ Reached(f, v) \subseteq Ids
           /\ \A u \in Reached(f, v) : f[u] \subseteq Reached(f, v)
           /\ \A C \in SUBSET Ids : v \in C /\ (\A u \in C : f[u] \subseteq C) => Reached(f, v) \subseteq C
           /\ \A w \in Reached(f, v) : w # v => \E u \in Reached(f, v) : w \in f[u]
<1> DEFINE R == Reached(f, v)
<1>1. v \in R /\ R \subseteq Ids
  BY DEF Reached
<1>2. \A C \in SUBSET Ids : v \in C /\ (\A u \in C : f[u] \subseteq C) => R \subseteq C
  BY DEF Reached
<1>3. \A u \in R : f[u] \subseteq R
  BY DEF Reached
<1>4. ASSUME NEW w \in R, w # v, \A u \in R : w \notin f[u] PROVE FALSE
  <2> DEFINE C == R \ {w}
  <2> HIDE DEF R
  <2>1. C \in SUBSET Ids /\ v \in C /\ \A u \in C : f[u] \subseteq C
    BY <1>1, <1>3, <1>4
  <2> HIDE DEF C
  <2>2. R \subseteq C
    BY <1>2, <2>1
  <2> QED  BY <2>2 DEF C
<1> QED  BY <1>1, <1>2, <1>3, <1>4

\* The graph of a model that is accepted: no vertex is below two others.
modelGraph(m) == [v \in Ids |-> IF v \in Names(m) THEN subVertices(m, v) ELSE {}]

\* The entries of the file that count.
LEMMA EntryFacts ==
    ASSUME NEW m, IsModel(m)
    PROVE  /\ Names(m) \subseteq Switches
           /\ \A j \in DOMAIN m.blocks : m.blocks[j].nodes \subseteq Hosts
           /\ \A s : swmap(m, s) \subseteq Names(m) /\ cbmap(m, s) \subseteq Names(m)
<1> DEFINE Entry == [name : Switches, subs : SUBSET Switches, holds : SUBSET Blocks]
           Block == [name : Blocks, nodes : SUBSET Hosts, nvlink : BOOLEAN]
           ss == m.switches
           bs == m.blocks
<1>1. ss \in Seq(Entry) /\ bs \in Seq(Block)
  BY DEF IsModel
<1>2. /\ \A e \in Entry : e.name \in Switches
      /\ \A e \in Block : e.nodes \subseteq Hosts
  OBVIOUS
<1> HIDE DEF Entry, Block, ss, bs
<1>3. (\A k \in DOMAIN ss : ss[k] \in Entry) /\ (\A k \in DOMAIN bs : bs[k] \in Block)
  BY <1>1
<1>4. /\ \A k \in DOMAIN m.switches : m.switches[k].name \in Switches
      /\ \A j \in DOMAIN m.blocks : m.blocks[j].nodes \subseteq Hosts
  BY <1>2, <1>3 DEF ss, bs
<1> QED  BY <1>4 DEF Names, swmap, cbmap

\* In a model that is accepted nothing is named twice.
LEMMA AcceptedFacts ==
    ASSUME NEW m, ~setNodeMapFails(m)
    PROVE  /\ \A s : \A p, q \in swmap(m, s) : p = q
           /\ \A b : \A p, q \in cbmap(m, b) : p = q
           /\ \A j, k \in DOMAIN m.blocks :
                  m.blocks[j].nodes \cap m.blocks[k].nodes # {} => j = k
<1>1. /\ \A j, k \in DOMAIN m.switches :
             j # k => /\ m.switches[j].subs \cap m.switches[k].subs = {}
                      /\ m.switches[j].holds \cap m.switches[k].holds = {}
      /\ \A j, k \in DOMAIN m.blocks : j # k => m.blocks[j].nodes \cap m.blocks[k].nodes = {}
  BY DEF setNodeMapFails
<1>2. ASSUME NEW s, NEW p \in swmap(m, s), NEW q \in swmap(m, s) PROVE p = q
  <2>1. PICK j \in DOMAIN m.switches : s \in m.switches[j].subs /\ p = m.switches[j].name
    BY DEF swmap
  <2>2. PICK k \in DOMAIN m.switches : s \in m.switches[k].subs /\ q = m.switches[k].name
    BY DEF swmap
  <2> QED  BY <1>1, <2>1, <2>2
<1>3. ASSUME NEW b, NEW p \in cbmap(m, b), NEW q \in cbmap(m, b) PROVE p = q
  <2>1. PICK j \in DOMAIN m.switches : b \in m.switches[j].holds /\ p = m.switches[j].name
    BY DEF cbmap
  <2>2. PICK k \in DOMAIN m.switches : b \in m.switches[k].holds /\ q = m.switches[k].name
    BY DEF cbmap
  <2> QED  BY <1>1, <2>1, <2>2
<1> QED  BY <1>1, <1>2, <1>3

\* Switch u has node h through a block, the first of its name.
Holds(m, u, h) ==
    \E k \in DOMAIN m.blocks :
        h \in m.blocks[k].nodes /\ First(m, k) /\ u \in cbmap(m, m.blocks[k].name)

LEMMA ModelGraphFacts ==
    ASSUME NEW m, IsModel(m), ~setNodeMapFails(m)
    PROVE  /\ modelGraph(m) \in [Ids -> SUBSET Ids]
           /\ \A v \in Ids : modelGraph(m)[v] # {} => v \in Names(m)
           /\ \A u, v, w \in Ids : w \in modelGraph(m)[u] /\ w \in modelGraph(m)[v] => u = v
           /\ \A u \in Ids, s \in Switches :
                  s \in modelGraph(m)[u] <=> s \in Names(m) /\ u \in swmap(m, s)
           /\ \A u \in Ids, h \in Hosts : h \in modelGraph(m)[u] <=> Holds(m, u, h)
<1> DEFINE g == modelGraph(m)
<1>1. /\ Names(m) \subseteq Switches /\ Names(m) \subseteq Ids
      /\ \A k \in DOMAIN m.blocks : m.blocks[k].nodes \subseteq Hosts
      /\ \A s : swmap(m, s) \subseteq Names(m) /\ cbmap(m, s) \subseteq Names(m)
      /\ Ids = Hosts \cup Switches /\ Hosts \cap Switches = {}
  BY FabricAssumption, EntryFacts
<1>2. \A v \in Ids : g[v] = IF v \in Names(m) THEN subVertices(m, v) ELSE {}
  BY DEF modelGraph
<1>3. \A u, w : w \in subVertices(m, u) <=>
          (w \in Names(m) /\ u \in swmap(m, w)) \/ Holds(m, u, w)
  BY DEF subVertices, Holds
<1>4. g \in [Ids -> SUBSET Ids]
  <2>1. \A v \in Ids : (IF v \in Names(m) THEN subVertices(m, v) ELSE {}) \in SUBSET Ids
    <3>1. \A u, w : Holds(m, u, w) => w \in Hosts
      BY <1>1 DEF Holds
    <3> QED  BY <1>1, <1>3, <3>1
  <2> QED  BY <2>1 DEF modelGraph
<1> HIDE DEF g
<1>5. ASSUME NEW u \in Ids, NEW s \in Switches
      PROVE  s \in g[u] <=> s \in Names(m) /\ u \in swmap(m, s)
  <2>1. ~Holds(m, u, s)
    BY <1>1 DEF Holds
  <2>2. swmap(m, s) \subseteq Names(m)
    BY <1>1
  <2> QED  BY <1>2, <1>3, <2>1, <2>2
<1>6. ASSUME NEW u \in Ids, NEW h \in Hosts
      PROVE  h \in g[u] <=> Holds(m, u, h)
  <2>1. h \notin Names(m)
    BY <1>1
  <2>2. Holds(m, u, h) => u \in Names(m)
    BY <1>1 DEF Holds
  <2> QED  BY <1>2, <1>3, <2>1, <2>2
<1>7. ASSUME NEW u \in Ids, NEW v \in Ids, NEW w \in Ids, w \in g[u], w \in g[v]
      PROVE  u = v
  <2>1. CASE w \in Switches
    BY <1>5, <1>7, <2>1, AcceptedFacts
  <2>2. CASE w \in Hosts
    <3>1. Holds(m, u, w) /\ Holds(m, v, w)
      BY <1>6, <1>7, <2>2
    <3>2. PICK j \in DOMAIN m.blocks : w \in m.blocks[j].nodes /\ u \in cbmap(m, m.blocks[j].name)
      BY <3>1 DEF Holds
    <3>3. PICK k \in DOMAIN m.blocks : w \in m.blocks[k].nodes /\ v \in cbmap(m, m.blocks[k].name)
      BY <3>1 DEF Holds
    <3>4. j = k
      BY <3>2, <3>3, AcceptedFacts
    <3> QED  BY <3>2, <3>3, <3>4, AcceptedFacts
  <2> QED  BY <1>1, <2>1, <2>2
<1> QED  BY <1>2, <1>4, <1>5, <1>6, <1>7 DEF g

\* What is below one root is below no other.
LEMMA RootsApart ==
    ASSUME NEW m, IsModel(m), ~setNodeMapFails(m),
           NEW q \in modelRoots(m), NEW r \in modelRoots(m),
           NEW x, x \in Reached(modelGraph(m), q), x \in Reached(modelGraph(m), r)
    PROVE  q = r
<1> DEFINE g == modelGraph(m)
           Q == Reached(g, q)
           R == Reached(g, r)
<1> SUFFICES ASSUME q # r PROVE FALSE
  OBVIOUS
<1>1. /\ g \in [Ids -> SUBSET Ids]
      /\ \A u, v, w \in Ids : w \in g[u] /\ w \in g[v] => u = v
  BY ModelGraphFacts
<1>2. /\ q \in Ids /\ r \in Ids
      /\ \A u \in Ids : q \notin g[u] /\ r \notin g[u]
  BY ModelGraphFacts, EntryFacts, FabricAssumption DEF modelRoots
<1> HIDE DEF g
<1>3. /\ q \in Q /\ Q \subseteq Ids /\ \A u \in Q : g[u] \subseteq Q
      /\ \A w \in Q : w # q => \E u \in Q : w \in g[u]
  BY <1>1, <1>2, ReachedFacts
<1>4. \A C \in SUBSET Ids : r \in C /\ (\A u \in C : g[u] \subseteq C) => R \subseteq C
  BY <1>1, <1>2, ReachedFacts
<1> HIDE DEF Q, R
<1> DEFINE C == Ids \ Q
<1>5. C \in SUBSET Ids /\ r \in C
  BY <1>2, <1>3
<1>6. ASSUME NEW u \in C, NEW w \in g[u], w \in Q PROVE FALSE
  <2>1. w \in Ids /\ u \in Ids /\ w # q
    BY <1>1, <1>2, <1>6
  <2>2. PICK v \in Q : w \in g[v]
    BY <1>3, <1>6, <2>1
  <2>3. u = v
    BY <1>1, <1>3, <1>6, <2>1, <2>2
  <2> QED  BY <1>6, <2>2, <2>3
<1>7. \A u \in C : g[u] \subseteq C
  BY <1>1, <1>6
<1>8. R \subseteq C
  BY <1>4, <1>5, <1>7
<1> QED  BY <1>8 DEF Q, R, g

\* A node that a switch has through a block is below a root.
LEMMA HeldIsReached ==
    ASSUME NEW m, IsModel(m), ~setNodeMapFails(m),
           NEW h \in Hosts, NEW s, Holds(m, s, h)
    PROVE  \E r \in modelRoots(m) : h \in Reached(modelGraph(m), r)
<1> DEFINE g == modelGraph(m)
           Lost(t) == \A r \in modelRoots(m) : t \notin Reached(g, r)
           C == {t \in Names(m) : Lost(t)}
<1>1. g \in [Ids -> SUBSET Ids] /\ Names(m) \subseteq Ids /\ Names(m) \subseteq Switches
  BY ModelGraphFacts, EntryFacts, FabricAssumption
<1>2. \A t \in Names(m) : swmap(m, t) \subseteq Names(m) /\ \A p \in swmap(m, t) : t \in g[p]
  BY <1>1, ModelGraphFacts, EntryFacts
<1>3. s \in Names(m) /\ h \in g[s]
  <2>1. s \in Names(m)
    BY EntryFacts DEF Holds
  <2> QED  BY <1>1, <2>1, ModelGraphFacts
<1>4. modelRoots(m) \subseteq Ids /\ \A t \in Names(m) : swmap(m, t) = {} => t \in modelRoots(m)
  BY <1>1 DEF modelRoots
<1> HIDE DEF g
<1>5. \A r \in modelRoots(m) : r \in Reached(g, r) /\ \A u \in Reached(g, r) : g[u] \subseteq Reached(g, r)
  BY <1>1, <1>4, ReachedFacts
<1>6. ASSUME NEW t \in C PROVE swmap(m, t) \cap C # {}
  <2>1. t \in Names(m) /\ Lost(t)
    OBVIOUS
  <2>2. t \notin modelRoots(m)
    BY <1>5, <2>1
  <2>3. PICK p \in swmap(m, t) : TRUE
    BY <1>4, <2>1, <2>2
  <2>4. p \in Names(m) /\ t \in g[p]
    BY <1>2, <2>1
  <2>5. Lost(p)
    BY <1>5, <2>1, <2>4
  <2> QED  BY <2>3, <2>4, <2>5
<1>7. s \notin C
  <2>1. ~Circular(m, s)
    BY DEF setNodeMapFails, Holds
  <2>2. C \in SUBSET Names(m)
    OBVIOUS
  <2> HIDE DEF C
  <2> QED  BY <1>6, <2>1, <2>2 DEF Circular
<1>8. PICK r \in modelRoots(m) : s \in Reached(g, r)
  BY <1>3, <1>7
<1> QED  BY <1>3, <1>5, <1>8 DEF g

\* The result of the test provider is that of ToGraph for a model that is accepted.
ModelInv ==
    provider = "test" =>
        /\ phase \in {"start", "failed", "done"}
        /\ phase = "done" =>
               /\ ~setNodeMapFails(fabric)
               /\ roots = modelRoots(fabric)
               /\ \A r \in roots : found[r] = NodesUnder(modelGraph(fabric), r)

LEMMA ModelStep == InputInv /\ ModelInv /\ [FabricNext]_fabricVars => ModelInv'
<1> SUFFICES ASSUME InputInv, ModelInv, [FabricNext]_fabricVars PROVE ModelInv'
  OBVIOUS
<1>1. UNCHANGED inputVars
  BY DEF fabricVars, FabricNext, readDomains, discoverLocal, unreadableOutput, login, buildTree,
         nextNetqLayer, loadModel, MergerStep, addRoots, endLoop, makeResult, skipNode, missNode,
         discoverNode, readPremises
<1> SUFFICES ASSUME provider = "test" PROVE ModelInv'
  BY <1>1 DEF ModelInv, inputVars
<1>2. phase \in {"start", "failed", "done"}
  BY DEF ModelInv
<1>3. UNCHANGED fabricVars \/ loadModel
  BY <1>2 DEF FabricNext, readDomains, discoverLocal, unreadableOutput, login, buildTree, OnPrem,
         nextNetqLayer, MergerStep, MergerNext, traverse, NextTierUp, EndLayer, mergeVertex, addRoots,
         endLoop, makeResult, skipNode, missNode, discoverNode, readPremises
<1>4. CASE UNCHANGED fabricVars
  BY <1>4 DEF fabricVars, inputVars, resultVars, ModelInv
<1>5. CASE loadModel /\ setNodeMapFails(fabric)
  BY <1>1, <1>5 DEF loadModel, ModelInv, inputVars
<1>6. CASE loadModel /\ ~setNodeMapFails(fabric)
  <2>1. /\ phase' = "done" /\ roots' = modelRoots(fabric)
        /\ found' = [v \in Ids |-> IF v \in roots' THEN NodesUnder(modelGraph(fabric), v) ELSE {}]
    BY <1>6 DEF loadModel, modelGraph
  <2>2. IsModel(fabric)
    BY FabricAssumption DEF InputInv
  <2>3. roots' \subseteq Ids
    BY <2>1, <2>2, EntryFacts, FabricAssumption DEF modelRoots
  <2> QED  BY <1>1, <1>6, <2>1, <2>3 DEF ModelInv, inputVars
<1> QED  BY <1>3, <1>4, <1>5, <1>6

\* A model that is accepted has a node below exactly one root if a switch
\* holds its block and the block is the first of its name, and below none
\* otherwise, for every file (setNodeMap, ToGraph).
THEOREM ModelsAreKept == FabricSpec => []ModelKept
<1>1. FabricInit => InputInv /\ ModelInv
  BY DEF FabricInit, InputInv, ModelInv
<1>2. ASSUME InputInv, ModelInv PROVE ModelKept
  <2> SUFFICES ASSUME phase = "done", provider = "test", NEW h \in Hosts
               PROVE  Cardinality({r \in roots : h \in found[r]}) =
                          IF \E k \in DOMAIN fabric.blocks :
                                 /\ h \in fabric.blocks[k].nodes
                                 /\ First(fabric, k)
                                 /\ cbmap(fabric, fabric.blocks[k].name) # {}
                          THEN 1 ELSE 0
    BY DEF ModelKept
  <2> DEFINE g == modelGraph(fabric)
             S == {r \in roots : h \in found[r]}
             Held == \E k \in DOMAIN fabric.blocks :
                         /\ h \in fabric.blocks[k].nodes
                         /\ First(fabric, k)
                         /\ cbmap(fabric, fabric.blocks[k].name) # {}
  <2>1. /\ IsModel(fabric) /\ ~setNodeMapFails(fabric) /\ roots = modelRoots(fabric)
        /\ \A r \in roots : found[r] = NodesUnder(g, r)
    BY <1>2, FabricAssumption DEF InputInv, ModelInv
  <2>2. \A r \in roots : h \in found[r] <=> h \in Reached(g, r)
    BY <2>1 DEF NodesUnder
  <2>3. \A q, r \in S : q = r
    BY <2>1, <2>2, RootsApart
  <2>4. CASE Held
    <3>1. PICK s : Holds(fabric, s, h)
      BY <2>4 DEF Holds
    <3>3. PICK r \in modelRoots(fabric) : h \in Reached(g, r)
      BY <2>1, <3>1, HeldIsReached
    <3>4. S = {r}
      BY <2>1, <2>2, <2>3, <3>3
    <3> HIDE DEF S
    <3>5. Cardinality(S) = 1
      BY <3>4, FS_Singleton
    <3> QED  BY <2>4, <3>5 DEF S
  <2>5. CASE ~Held
    <3>1. ASSUME NEW r \in S PROVE FALSE
      <4>1. r \in modelRoots(fabric) /\ h \in Reached(g, r)
        BY <2>1, <2>2
      <4>2. g \in [Ids -> SUBSET Ids] /\ r \in Ids /\ h # r
        <5>1. g \in [Ids -> SUBSET Ids]
          BY <2>1, ModelGraphFacts
        <5>2. r \in Switches
          BY <2>1, <4>1, EntryFacts DEF modelRoots
        <5> HIDE DEF g
        <5> QED  BY <5>1, <5>2, FabricAssumption
      <4>3. \E u \in Ids : h \in g[u]
        BY <4>1, <4>2, ReachedFacts
      <4>4. \E u : Holds(fabric, u, h)
        BY <2>1, <4>3, ModelGraphFacts
      <4> QED  BY <2>5, <4>4 DEF Holds
    <3>2. S = {}
      BY <3>1
    <3> HIDE DEF S
    <3>3. Cardinality(S) = 0
      BY <3>2, FS_EmptySet
    <3> QED  BY <2>5, <3>3 DEF S
  <2> QED  BY <2>4, <2>5
<1>3. InputInv /\ [FabricNext]_fabricVars => InputInv'
  BY DEF InputInv, inputVars, fabricVars, FabricNext, readDomains, discoverLocal, unreadableOutput,
         login, buildTree, nextNetqLayer, loadModel, MergerStep, addRoots, endLoop, makeResult, skipNode,
         missNode, discoverNode, readPremises
<1> QED  BY <1>1, <1>2, <1>3, ModelStep, PTL DEF FabricSpec

----------------------------------------------------------------------------
(* Nodes that are heard of.                                                 *)

OnPremFabric == provider \in OnPrem /\ IsFabric(fabric)

\* Components are closed; as links have two ends, two of them are equal or apart.
LEMMA ComponentFacts ==
    ASSUME OnPremFabric, NEW s \in Switches
    PROVE  /\ s \in Component(s) /\ Component(s) \subseteq Switches
           /\ \A r \in Component(s) : fabric.conn[r] \subseteq Component(s)
           /\ \A r \in Component(s) : Component(r) = Component(s)
<1>1. \A r \in Switches :
          /\ r \in Component(r) /\ Component(r) \subseteq Switches /\ Closed(Component(r))
          /\ \A C \in SUBSET Switches : r \in C /\ Closed(C) => Component(r) \subseteq C
  <2> SUFFICES ASSUME NEW r \in Switches
               PROVE  /\ r \in Component(r) /\ Component(r) \subseteq Switches /\ Closed(Component(r))
                      /\ \A C \in SUBSET Switches : r \in C /\ Closed(C) => Component(r) \subseteq C
    OBVIOUS
  <2>1. /\ r \in Component(r) /\ Component(r) \subseteq Switches
        /\ \A C \in SUBSET Switches : r \in C /\ Closed(C) => Component(r) \subseteq C
    BY DEF Component
  <2>2. \A t \in Switches : fabric.conn[t] \subseteq Switches
    BY DEF OnPremFabric, IsFabric
  <2>3. Closed(Component(r))
    BY <2>2 DEF Component, Closed
  <2> QED  BY <2>1, <2>3
<1>2. ASSUME NEW r \in Component(s) PROVE Component(r) = Component(s)
  <2> DEFINE S == Component(s)
             R == Component(r)
             C == S \ R
  <2>1. r \in Switches /\ R \subseteq S
    BY <1>1
  <2>2. s \in R
    <3> SUFFICES ASSUME s \notin R PROVE FALSE
      OBVIOUS
    <3>1. C \in SUBSET Switches /\ s \in C /\ r \notin C
      BY <1>1, <2>1
    <3>2. Closed(C)
      <4> SUFFICES ASSUME NEW t \in C, NEW u \in fabric.conn[t] PROVE u \in C
        BY DEF Closed
      <4>1. t \in Switches /\ u \in Switches /\ t \in S /\ t \notin R
        BY <1>1, <2>1 DEF OnPremFabric, IsFabric
      <4>2. u \in S
        BY <1>1, <4>1 DEF Closed
      <4>3. t \in fabric.conn[u]
        BY <4>1 DEF OnPremFabric, IsFabric
      <4>4. u \notin R
        BY <1>1, <2>1, <4>1, <4>3 DEF Closed
      <4> QED  BY <4>2, <4>4
    <3>3. S \subseteq C
      BY <1>1, <3>1, <3>2
    <3> QED  BY <3>1, <3>3
  <2>3. S \subseteq R
    BY <1>1, <2>1, <2>2
  <2> QED  BY <2>1, <2>3
<1> QED  BY <1>1, <1>2 DEF Closed

\* None of the switches of h is lost when parsing, and their fabric is balanced.
Sound(h) ==
    \A s \in Switches : h \in fabric.attach[s] =>
        s \notin fabric.cut /\ Balanced(ParseIbnetdiscoverFile(Component(s)))

LEMMA SameFabric ==
    ASSUME fabric' = fabric
    PROVE  /\ \A s : Component(s)' = Component(s)
           /\ \A s : ParseIbnetdiscoverFile(Component(s))' = ParseIbnetdiscoverFile(Component(s))
           /\ \A S : hcaHosts(S)' = hcaHosts(S)
           /\ \A h : Sound(h)' = Sound(h)
           /\ Balanced(seen)' = Balanced(seen')
           /\ \A d : IsDistance(seen, d)' = IsDistance(seen', d) /\ BalancedBy(seen, d)' = BalancedBy(seen', d)
<1>1. \A s : Component(s)' = Component(s)
  BY DEF Component, Closed
<1>2. \A S : hcaHosts(S)' = hcaHosts(S) /\ ParseIbnetdiscoverFile(S)' = ParseIbnetdiscoverFile(S)
  BY DEF hcaHosts, ParseIbnetdiscoverFile
<1>3. \A C, d : IsDistance(C, d)' = IsDistance(C, d) /\ BalancedBy(C, d)' = BalancedBy(C, d)
  BY DEF IsDistance, BalancedBy
<1>4. \A C : Balanced(C)' = Balanced(C)
  BY <1>3 DEF Balanced
<1>5. Balanced(seen)' = Balanced(seen')
  BY <1>4
<1>6. \A h : Sound(h)' = Sound(h)
  BY <1>1, <1>2, <1>4 DEF Sound
<1>7. \A s : ParseIbnetdiscoverFile(Component(s))' = ParseIbnetdiscoverFile(Component(s))
  BY <1>1 DEF ParseIbnetdiscoverFile
<1>8. \A d : IsDistance(seen, d)' = IsDistance(seen', d) /\ BalancedBy(seen, d)' = BalancedBy(seen', d)
  BY <1>3
<1> QED  BY <1>1, <1>2, <1>5, <1>6, <1>7, <1>8

Building == {"levels", "traverse", "tier", "merge", "merged"}

\* The levels of an output: a switch with requested nodes is in the first, and
\* in a balanced fabric everything but the last level is below something.
BuiltInv ==
    provider \in OnPrem /\ phase \in Building =>
        /\ cnt >= 1
        /\ \E s \in Switches : /\ seen = ParseIbnetdiscoverFile(Component(s))
                               /\ hcaHosts(Component(s)) \subseteq visited
        /\ \A v \in Ids : rank[v] <= cnt /\ (rank[v] > 0 => v \in seen)
        /\ \A s \in seen : fabric.attach[s] \cap Requested # {} =>
               rank[s] = 1 /\ below[s] = fabric.attach[s] \cap Requested
        /\ Balanced(seen) =>
               \A v \in Ids : 0 < rank[v] /\ rank[v] < cnt => \E u \in Ids : v \in below[u]

\* In a balanced fabric the levels follow the distance from the nodes.
Follows(d) ==
    /\ IsDistance(seen, d) /\ BalancedBy(seen, d)
    /\ level = {s \in seen : d[s] = cnt - 1}
    /\ unused = {s \in seen : d[s] >= cnt}

DistanceInv ==
    provider \in OnPrem /\ phase = "levels" =>
        /\ unused \subseteq seen
        /\ \A v \in Ids : v \in level <=> rank[v] = cnt
        /\ Balanced(seen) => \E d \in [seen -> 0..MaxTier] : Follows(d)

\* The last level comes up again as the top tier, merged.
TopInv ==
    provider \in OnPrem =>
        /\ phase = "traverse" => \A v \in Ids : rank[v] = cnt => v \in tiers[cnt]
        /\ phase \in {"tier", "merge"} =>
               \A v \in Ids : rank[v] = cnt =>
                   Merged(v) \/ (cur < cnt /\ v \in tiers[cnt]) \/ (phase = "merge" /\ v \in rest)
        /\ phase = "merged" =>
               /\ \A v \in Ids : rank[v] = cnt => Merged(v)
               /\ \A v \in tiers[cnt] : rank[v] = cnt
        /\ phase = "merged" \/ (phase = "tier" /\ cur = cnt) =>
               \A v \in have : rank[v] = cnt => v \in tiers[cnt]
        /\ phase \in {"tier", "merge", "merged"} =>
               \A v \in Ids : rank[v] = 0 => refs[v] = v

\* A node that was visited is in the tree, or in the output that is at hand.
Waits(h) == phase \in Building /\ \E s \in seen : h \in fabric.attach[s]

RootsInv ==
    provider \in OnPrem =>
        /\ phase \in Building \cup {"start", "nodes", "result", "done", "failed"}
        /\ \A r \in roots : r \in Switches /\ hcaHosts(Component(r)) \subseteq visited
        /\ phase \in Building => seen \cap roots = {}
        /\ phase = "start" => visited = {}
        /\ phase \notin {"start", "failed"} => Requested \subseteq todo \cup visited \cup missed
        /\ phase \in {"result", "done"} => todo = {}
        /\ \A h \in visited \cap Requested : Sound(h) => h \in InTree \/ Waits(h)

\* The two providers take no steps of the others, and keep the request.
LEMMA OnPremSteps ==
    ASSUME RootsInv, provider \in OnPrem, FabricNext
    PROVE  /\ UNCHANGED inputVars
           /\ \/ readDomains \/ unreadableOutput \/ buildTree \/ MergerStep \/ addRoots \/ endLoop
              \/ makeResult
              \/ \E n \in Hosts : skipNode(n) \/ missNode(n) \/ discoverNode(n)
<1>1. UNCHANGED inputVars
  BY DEF FabricNext, readDomains, discoverLocal, unreadableOutput, login, buildTree, nextNetqLayer,
         loadModel, MergerStep, addRoots, endLoop, makeResult, skipNode, missNode, discoverNode,
         readPremises
<1>2. provider \notin {"cw", "netq", "test"} /\ phase # "premises"
  BY DEF OnPrem, RootsInv, Building
<1> QED  BY <1>1, <1>2 DEF FabricNext, discoverLocal, login, nextNetqLayer, loadModel, readPremises

\* The levels and the output stay as they are.
LEMMA SameLevels ==
    ASSUME BuiltInv, phase \in Building, UNCHANGED <<inputVars, givenVars, seen, visited>>
    PROVE  BuiltInv'
<1> SUFFICES ASSUME provider \in OnPrem PROVE BuiltInv'
  BY DEF BuiltInv, inputVars
<1>1. fabric' = fabric /\ seen' = seen /\ visited' = visited /\ below' = below /\ rank' = rank /\ cnt' = cnt
  BY DEF inputVars, givenVars
<1>2. /\ cnt >= 1
      /\ \A v \in Ids : rank[v] <= cnt /\ (rank[v] > 0 => v \in seen)
      /\ \A s \in seen : fabric.attach[s] \cap Requested # {} =>
             rank[s] = 1 /\ below[s] = fabric.attach[s] \cap Requested
      /\ Balanced(seen) =>
             \A v \in Ids : 0 < rank[v] /\ rank[v] < cnt => \E u \in Ids : v \in below[u]
  BY DEF BuiltInv
<1>3. PICK s \in Switches : /\ seen = ParseIbnetdiscoverFile(Component(s))
                            /\ hcaHosts(Component(s)) \subseteq visited
  BY DEF BuiltInv
<1>4. /\ seen' = ParseIbnetdiscoverFile(Component(s))'
      /\ hcaHosts(Component(s))' \subseteq visited'
  <2>1. \A S : hcaHosts(S)' = hcaHosts(S)
    BY <1>1, SameFabric
  <2>2. Component(s)' = Component(s)
    BY <1>1, SameFabric
  <2>3. hcaHosts(Component(s))' = hcaHosts(Component(s))
    BY <1>1, <2>2 DEF hcaHosts
  <2> QED  BY <1>1, <1>3, <2>3, SameFabric
<1>5. Balanced(seen)' = Balanced(seen)
  BY <1>1, SameFabric
<1> QED  BY <1>1, <1>2, <1>4, <1>5 DEF BuiltInv

\* The first level: the switches with requested nodes, at distance 0.
LEMMA FirstLevel ==
    ASSUME OnPremFabric, UNCHANGED inputVars, NEW s \in Switches,
           findLeaves(ParseIbnetdiscoverFile(Component(s))),
           hcaHosts(Component(s)) \subseteq visited'
    PROVE  BuiltInv' /\ DistanceInv'
<1> DEFINE S == ParseIbnetdiscoverFile(Component(s))
           leaves == {t \in S : fabric.attach[t] \cap Requested # {}}
<1>1. /\ below' = [v \in Ids |-> IF v \in leaves THEN fabric.attach[v] \cap Requested ELSE {}]
      /\ rank' = [v \in Ids |-> IF v \in leaves THEN 1 ELSE 0]
      /\ level' = leaves /\ unused' = S \ leaves /\ cnt' = 1 /\ phase' = "levels" /\ seen' = S
      /\ fabric' = fabric
  BY DEF findLeaves, inputVars
<1>2. S \subseteq Switches /\ S \subseteq Ids
  BY ParsedSwitches, FabricAssumption
<1>3. S' = S /\ hcaHosts(Component(s))' = hcaHosts(Component(s))
  <2>1. Component(s)' = Component(s)
    BY <1>1, SameFabric
  <2>2. hcaHosts(Component(s))' = hcaHosts(Component(s))
    BY <1>1, <2>1 DEF hcaHosts
  <2> QED  BY <1>1, <2>2, SameFabric
<1>4. \A t \in S : t \in leaves <=> fabric.attach[t] \cap Requested # {}
  OBVIOUS
<1>5. leaves \subseteq S
  OBVIOUS
<1> HIDE DEF leaves
<1>6. /\ cnt' >= 1
      /\ \A v \in Ids : rank'[v] <= cnt' /\ (rank'[v] > 0 => v \in seen')
      /\ \A t \in seen' : fabric'.attach[t] \cap Requested # {} =>
             rank'[t] = 1 /\ below'[t] = fabric'.attach[t] \cap Requested
      /\ \A v \in Ids : ~(0 < rank'[v] /\ rank'[v] < cnt')
  <2> HIDE DEF S
  <2> QED  BY <1>1, <1>2, <1>4, <1>5
<1>7. seen' = ParseIbnetdiscoverFile(Component(s))' /\ hcaHosts(Component(s))' \subseteq visited'
  BY <1>1, <1>3
<1>8. BuiltInv'
  BY <1>6, <1>7 DEF BuiltInv
<1>9. unused' \subseteq seen' /\ \A v \in Ids : v \in level' <=> rank'[v] = cnt'
  <2> HIDE DEF S
  <2> QED  BY <1>1, <1>2, <1>5
<1>10. ASSUME Balanced(seen)' PROVE \E d \in [seen' -> 0..MaxTier] : Follows(d)'
  <2> HIDE DEF S
  <2>1. Balanced(seen')
    BY <1>1, <1>10, SameFabric
  <2>2. PICK d \in [seen' -> 0..MaxTier] : IsDistance(seen', d) /\ BalancedBy(seen', d)
    BY <2>1 DEF Balanced
  <2>3. IsDistance(seen, d)' /\ BalancedBy(seen, d)'
    BY <1>1, <2>2, SameFabric
  <2>4. \A t \in S : d[t] \in Nat /\ (d[t] = 0 <=> t \in leaves)
    BY <1>1, <1>4, <2>2, MergerAssumption DEF IsDistance
  <2>5. level' = {t \in seen' : d[t] = cnt' - 1} /\ unused' = {t \in seen' : d[t] >= cnt'}
    BY <1>1, <1>5, <2>4
  <2>6. Follows(d)'
    BY <2>3, <2>5 DEF Follows
  <2> QED  BY <2>6
<1>11. DistanceInv'
  BY <1>9, <1>10 DEF DistanceInv
<1> QED  BY <1>8, <1>11

\* In a balanced fabric the next level is the next distance, and every switch
\* of the last level is below one of it.
LEMMA NextDistance ==
    ASSUME OnPremFabric, NEW d \in [seen -> 0..MaxTier], Follows(d), cnt \in Nat, cnt >= 1,
           cnt < MaxTier
    PROVE  /\ Upper = {s \in seen : d[s] = cnt}
           /\ unused \ Upper = {s \in seen : d[s] >= cnt + 1}
           /\ Upper # {} => \A s \in level : \E r \in Upper : s \in fabric.conn[r]
<1>1. /\ IsDistance(seen, d) /\ BalancedBy(seen, d)
      /\ level = {s \in seen : d[s] = cnt - 1}
      /\ unused = {s \in seen : d[s] >= cnt}
      /\ \A s \in seen : d[s] \in Nat /\ d[s] \in 0..MaxTier
      /\ MaxTier \in Nat
  BY MergerAssumption DEF Follows
<1>2. ASSUME NEW s \in Upper PROVE s \in seen /\ d[s] = cnt
  <2>1. s \in seen /\ d[s] >= cnt
    BY <1>1 DEF Upper
  <2>2. PICK r \in level : r \in fabric.conn[s]
    BY DEF Upper
  <2>3. r \in seen /\ d[r] = cnt - 1
    BY <1>1
  <2>4. d[s] <= d[r] + 1
    BY <1>1, <2>1, <2>2, <2>3 DEF IsDistance
  <2> QED  BY <1>1, <2>1, <2>3, <2>4
<1>3. ASSUME NEW s \in seen, d[s] = cnt PROVE s \in Upper
  <2>1. d[s] \in 1..(MaxTier - 1)
    BY <1>1, <1>3
  <2>2. PICK r \in fabric.conn[s] \cap seen : d[r] = d[s] - 1
    BY <1>1, <2>1 DEF IsDistance
  <2>3. r \in level /\ s \in unused
    BY <1>1, <1>3, <2>2
  <2> QED  BY <2>2, <2>3 DEF Upper
<1>4. Upper = {s \in seen : d[s] = cnt}
  BY <1>2, <1>3
<1>5. unused \ Upper = {s \in seen : d[s] >= cnt + 1}
  BY <1>1, <1>4
<1>6. ASSUME NEW t \in Upper, NEW s \in level PROVE \E r \in Upper : s \in fabric.conn[r]
  <2>1. s \in seen /\ t \in seen /\ d[s] = cnt - 1 /\ d[t] = cnt
    BY <1>1, <1>2
  <2>2. PICK r \in seen : d[r] = d[s] + 1 /\ s \in fabric.conn[r]
    BY <1>1, <2>1 DEF BalancedBy
  <2>3. d[r] = cnt
    BY <2>1, <2>2
  <2> QED  BY <1>3, <2>2, <2>3
<1> QED  BY <1>4, <1>5, <1>6

\* A level more.
LEMMA LevelMore ==
    ASSUME FabricInv, OnPremFabric, BuiltInv, DistanceInv, buildTree, Upper # {}
    PROVE  BuiltInv' /\ DistanceInv'
<1>1. /\ phase = "levels" /\ phase' = "levels" /\ cnt < MaxTier /\ cnt' = cnt + 1
      /\ below' = [v \in Ids |-> IF v \in Upper THEN fabric.conn[v] \cap level ELSE below[v]]
      /\ rank' = [v \in Ids |-> IF v \in Upper THEN cnt + 1 ELSE rank[v]]
      /\ level' = Upper /\ unused' = unused \ Upper
      /\ fabric' = fabric /\ seen' = seen /\ visited' = visited /\ provider' = provider
  BY DEF buildTree, inputVars, resultVars
<1>2. /\ below \in [Ids -> SUBSET Ids] /\ rank \in [Ids -> 0..MaxTier] /\ cnt \in 0..MaxTier
      /\ cnt \in Nat /\ \A v \in Ids : rank[v] \in Nat
      /\ unused \subseteq Switches /\ Switches \subseteq Ids /\ level \subseteq Ids
      /\ \A v \in unused : rank[v] = 0
  BY <1>1, FabricAssumption, MergerAssumption DEF FabricInv, LevelInv, MergerTypeOK, LevelsInv
<1>3. provider \in OnPrem /\ phase \in Building
  BY <1>1 DEF OnPremFabric, Building
<1>4. /\ cnt >= 1
      /\ \A v \in Ids : rank[v] <= cnt /\ (rank[v] > 0 => v \in seen)
      /\ \A s \in seen : fabric.attach[s] \cap Requested # {} =>
             rank[s] = 1 /\ below[s] = fabric.attach[s] \cap Requested
      /\ Balanced(seen) =>
             \A v \in Ids : 0 < rank[v] /\ rank[v] < cnt => \E u \in Ids : v \in below[u]
      /\ unused \subseteq seen
      /\ \A v \in Ids : v \in level <=> rank[v] = cnt
      /\ Balanced(seen) => \E d \in [seen -> 0..MaxTier] : Follows(d)
  BY <1>1, <1>3 DEF BuiltInv, DistanceInv
<1>5. Upper \subseteq unused
  BY DEF Upper
<1>6. /\ cnt' >= 1
      /\ \A v \in Ids : rank'[v] <= cnt' /\ (rank'[v] > 0 => v \in seen')
      /\ \A v \in Ids : v \in level' <=> rank'[v] = cnt'
      /\ unused' \subseteq seen'
  BY <1>1, <1>2, <1>4, <1>5
<1>7. ASSUME NEW s \in seen, fabric.attach[s] \cap Requested # {}
      PROVE  rank'[s] = 1 /\ below'[s] = fabric.attach[s] \cap Requested
  <2>1. rank[s] = 1 /\ below[s] = fabric.attach[s] \cap Requested
    BY <1>4, <1>7
  <2>2. s \notin Upper
    BY <1>2, <1>5, <2>1
  <2>3. s \in Ids
    <3>1. seen \subseteq Switches
      BY <1>3, ParsedSwitches DEF BuiltInv
    <3> QED  BY <1>2, <3>1
  <2> QED  BY <1>1, <2>1, <2>2, <2>3
<1>8. Balanced(seen)' = Balanced(seen)
  BY <1>1, SameFabric
<1>9. ASSUME Balanced(seen), NEW v \in Ids, 0 < rank'[v], rank'[v] < cnt'
      PROVE  \E u \in Ids : v \in below'[u]
  <2>1. v \notin Upper /\ rank'[v] = rank[v]
    BY <1>1, <1>2, <1>9
  <2>2. CASE rank[v] = cnt
    <3>1. PICK d \in [seen -> 0..MaxTier] : Follows(d)
      BY <1>4, <1>9
    <3>2. PICK r \in Upper : v \in fabric.conn[r]
      BY <1>1, <1>2, <1>4, <2>2, <3>1, NextDistance
    <3>3. r \in Ids /\ v \in level
      BY <1>2, <1>4, <1>5, <2>2
    <3>4. v \in below'[r]
      BY <1>1, <3>2, <3>3
    <3> QED  BY <3>3, <3>4
  <2>3. CASE rank[v] < cnt
    <3>1. PICK u \in Ids : v \in below[u]
      BY <1>4, <1>9, <2>1, <2>3
    <3>2. rank[u] > 0
      BY <1>2, <3>1 DEF FabricInv, LevelInv, Layers
    <3>3. u \notin Upper
      BY <1>2, <1>5, <3>2
    <3> QED  BY <1>1, <3>1, <3>3
  <2> QED  BY <1>1, <1>2, <1>9, <2>1, <2>2, <2>3
<1>10. PICK s \in Switches : /\ seen = ParseIbnetdiscoverFile(Component(s))
                             /\ hcaHosts(Component(s)) \subseteq visited
  BY <1>3 DEF BuiltInv
<1>11. seen' = ParseIbnetdiscoverFile(Component(s))' /\ hcaHosts(Component(s))' \subseteq visited'
  <2>1. Component(s)' = Component(s)
    BY <1>1, SameFabric
  <2>2. hcaHosts(Component(s))' = hcaHosts(Component(s))
    BY <1>1, <2>1 DEF hcaHosts
  <2> QED  BY <1>1, <1>10, <2>2, SameFabric
<1>12. BuiltInv'
  BY <1>1, <1>6, <1>7, <1>8, <1>9, <1>11 DEF BuiltInv
<1>13. ASSUME Balanced(seen) PROVE \E d \in [seen' -> 0..MaxTier] : Follows(d)'
  <2>1. PICK d \in [seen -> 0..MaxTier] : Follows(d)
    BY <1>4, <1>13
  <2>2. IsDistance(seen, d)' /\ BalancedBy(seen, d)'
    BY <1>1, <2>1, SameFabric DEF Follows
  <2>3. /\ Upper = {t \in seen : d[t] = cnt}
        /\ unused \ Upper = {t \in seen : d[t] >= cnt + 1}
    BY <1>1, <1>2, <1>4, <2>1, NextDistance
  <2>4. /\ level' = {t \in seen : d[t] = cnt' - 1}
        /\ unused' = {t \in seen : d[t] >= cnt'}
    BY <1>1, <1>2, <2>3
  <2>5. Follows(d)'
    BY <1>1, <2>2, <2>4 DEF Follows
  <2> QED  BY <1>1, <2>5
<1>14. DistanceInv'
  BY <1>1, <1>6, <1>8, <1>13 DEF DistanceInv
<1> QED  BY <1>12, <1>14

\* The last level becomes the top tier.
LEMMA TopGiven ==
    ASSUME FabricInv, provider \in OnPrem, phase = "levels", DistanceInv, NewMerger(level),
           UNCHANGED <<inputVars, buildVars>>
    PROVE  TopInv'
<1>1. /\ tiers' = [k \in 0..MaxTier |-> IF k = cnt THEN level ELSE {}]
      /\ refs' = [v \in Ids |-> v] /\ have' = {}
      /\ phase' = (IF level = {} THEN "merged" ELSE "traverse")
      /\ rank' = rank /\ cnt' = cnt /\ provider' = provider
  BY DEF NewMerger, inputVars, buildVars, givenVars
<1>2. cnt \in 0..MaxTier /\ \A v \in Ids : v \in level <=> rank[v] = cnt
  BY DEF FabricInv, LevelInv, MergerTypeOK, DistanceInv
<1>3. tiers'[cnt] = level
  BY <1>1, <1>2
<1>4. CASE level = {}
  BY <1>1, <1>2, <1>3, <1>4 DEF TopInv
<1>5. CASE level # {}
  BY <1>1, <1>2, <1>3, <1>5 DEF TopInv
<1> QED  BY <1>4, <1>5

\* traverse leaves the top tier alone.
LEMMA TopTraversed ==
    ASSUME FabricInv, provider \in OnPrem, provider' = provider, BuiltInv, TopInv, traverse
    PROVE  TopInv'
<1>1. /\ phase = "traverse" /\ rank' = rank /\ cnt' = cnt /\ refs' = refs
      /\ refs = [v \in Ids |-> v]
      /\ \A v \in Ids : rank[v] = cnt => v \in tiers[cnt]
  BY DEF traverse, givenVars, FabricInv, TraverseInv, TopInv
<1>2. /\ cur \in 0..MaxTier /\ cnt \in 0..MaxTier /\ cur <= cnt /\ cnt >= 1 /\ MaxTier \in Nat
      /\ tiers \in [0..MaxTier -> SUBSET Ids]
      /\ \A v \in tiers[cur] : v \in Ids /\ rank[v] = cur
  BY <1>1, MergerAssumption DEF FabricInv, LevelInv, MergerTypeOK, TiersInv, BuiltInv, Building
<1>3. CASE \E v \in tiers[cur] : IsLeaf(v)
  <2>1. cur = 0
    BY <1>2, <1>3, LeavesAreNodes DEF FabricInv
  <2>2. phase' = "tier" /\ cur' = cur /\ tiers' = tiers
    BY <1>3 DEF traverse
  <2> QED  BY <1>1, <1>2, <2>1, <2>2 DEF TopInv
<1>4. CASE ~\E v \in tiers[cur] : IsLeaf(v)
  <2>1. phase' = "traverse" /\ cur > 0 /\ tiers' = [tiers EXCEPT ![cur - 1] = NextLayer(tiers[cur])]
    BY <1>1, <1>4 DEF traverse
  <2>2. tiers'[cnt] = tiers[cnt]
    BY <1>2, <2>1
  <2> QED  BY <1>1, <2>1, <2>2 DEF TopInv
<1> QED  BY <1>3, <1>4

\* Its turn comes last.
LEMMA TopNext ==
    ASSUME FabricInv, provider \in OnPrem, provider' = provider, TopInv, NextTierUp
    PROVE  TopInv'
<1>1. /\ phase = "tier" /\ UNCHANGED <<rank, cnt, tiers, have, refs>>
      /\ rank' = rank /\ cnt' = cnt /\ tiers' = tiers /\ have' = have /\ refs' = refs
  BY DEF NextTierUp, givenVars
<1>2. /\ \A v \in Ids : rank[v] = cnt => Merged(v) \/ (cur < cnt /\ v \in tiers[cnt])
      /\ cur = cnt => \A v \in have : rank[v] = cnt => v \in tiers[cnt]
      /\ \A v \in Ids : rank[v] = 0 => refs[v] = v
  BY <1>1 DEF TopInv
<1>3. /\ cur \in 0..MaxTier /\ cnt \in 0..MaxTier /\ cur <= cnt /\ MaxTier \in Nat
      /\ \A k \in 0..MaxTier : \A v \in tiers[k] : rank[v] = k
  BY <1>1, MergerAssumption DEF FabricInv, LevelInv, MergerTypeOK, TiersInv
<1>4. \A v \in Ids : Merged(v)' <=> Merged(v)
  BY <1>1 DEF Merged
<1>5. CASE cur < cnt
  <2>1. cur' = cur + 1 /\ rest' = tiers[cur + 1] /\ phase' = "merge"
    BY <1>5 DEF NextTierUp
  <2>2. cur + 1 = cnt \/ cur + 1 < cnt
    BY <1>3, <1>5
  <2>3. \A v \in Ids : rank[v] = cnt => Merged(v)' \/ (cur' < cnt /\ v \in tiers[cnt]) \/ v \in rest'
    BY <1>2, <1>4, <2>1, <2>2
  <2> QED  BY <1>1, <1>2, <2>1, <2>3 DEF TopInv
<1>6. CASE cur = cnt
  <2>1. phase' = "merged"
    BY <1>3, <1>6 DEF NextTierUp
  <2>2. \A v \in Ids : rank[v] = cnt => Merged(v)'
    BY <1>2, <1>3, <1>4, <1>6
  <2> QED  BY <1>1, <1>2, <1>3, <1>6, <2>1, <2>2 DEF TopInv
<1> QED  BY <1>3, <1>5, <1>6

\* Then it is merged vertex by vertex.
LEMMA TopMerged ==
    ASSUME FabricInv, provider \in OnPrem, provider' = provider, TopInv, NEW x \in Ids, mergeVertex(x)
    PROVE  TopInv'
<1>1. /\ phase = "merge" /\ phase' = "merge" /\ rest' = rest \ {x}
      /\ rank' = rank /\ cnt' = cnt /\ tiers' = tiers /\ cur' = cur
  BY MergeVertexFacts DEF mergeVertex, givenVars
<1>2. /\ refs \in [Ids -> Ids] /\ ~Merged(x) /\ rank[x] = cur /\ cur > 0
      /\ \A f \in kept : f \in have /\ f # x
  BY <1>1, MergeVertexFacts DEF FabricInv, LevelInv, MergerTypeOK, MergeInv, Merged
<1>3. \/ \E f \in kept : refs' = [refs EXCEPT ![x] = f] /\ have' = have
      \/ have' = have \cup {x} /\ refs' = refs
  BY DEF mergeVertex
<1>4. /\ \A v \in Ids : Merged(v) \/ v = x => Merged(v)'
      /\ \A v \in Ids : v # x => refs'[v] = refs[v]
  BY <1>2, <1>3 DEF Merged
<1>5. /\ \A v \in Ids : rank[v] = cnt => Merged(v) \/ (cur < cnt /\ v \in tiers[cnt]) \/ v \in rest
      /\ \A v \in Ids : rank[v] = 0 => refs[v] = v
  BY <1>1 DEF TopInv
<1>6. \A v \in Ids : rank[v] = cnt => Merged(v)' \/ (cur < cnt /\ v \in tiers[cnt]) \/ v \in rest'
  BY <1>1, <1>4, <1>5
<1>7. \A v \in Ids : rank[v] = 0 => refs'[v] = v
  BY <1>2, <1>4, <1>5
<1> QED  BY <1>1, <1>6, <1>7 DEF TopInv

\* What is kept of it is the top tier.
LEMMA TopEnds ==
    ASSUME FabricInv, provider \in OnPrem, provider' = provider, TopInv, EndLayer
    PROVE  TopInv'
<1>1. /\ phase = "merge" /\ phase' = "tier" /\ rest = {} /\ tiers' = [tiers EXCEPT ![cur] = kept]
      /\ rank' = rank /\ cnt' = cnt /\ cur' = cur /\ have' = have /\ refs' = refs
  BY DEF EndLayer, givenVars
<1>2. /\ \A v \in Ids : rank[v] = cnt => Merged(v) \/ (cur < cnt /\ v \in tiers[cnt])
      /\ \A v \in Ids : rank[v] = 0 => refs[v] = v
  BY <1>1 DEF TopInv
<1>3. /\ cur \in 0..MaxTier /\ cnt \in 0..MaxTier /\ MaxTier \in Nat
      /\ tiers \in [0..MaxTier -> SUBSET Ids]
      /\ kept = {v \in have : rank[v] = cur}
  BY <1>1, MergerAssumption DEF FabricInv, LevelInv, MergerTypeOK, MergeInv
<1>4. \A v \in Ids : Merged(v)' <=> Merged(v)
  BY <1>1 DEF Merged
<1>5. \A v \in Ids : rank[v] = cnt => Merged(v)' \/ (cur < cnt /\ v \in tiers'[cnt])
  BY <1>1, <1>2, <1>3, <1>4
<1>6. cur = cnt => \A v \in have : rank[v] = cnt => v \in tiers'[cnt]
  BY <1>1, <1>3
<1> QED  BY <1>1, <1>2, <1>5, <1>6 DEF TopInv

\* A set of numbers that is not empty has a least one.
LEMMA LeastOf ==
    ASSUME NEW S, S \subseteq Nat, S # {}
    PROVE  \E m \in S : \A n \in S : m <= n
<1>1. PICK m \in S : \A n \in S : ~(<<n, m>> \in OpToRel(<, Nat))
  BY NatLessThanWellFounded, WFMin, Zenon
<1>2. \A n \in S : ~(n < m)
  BY <1>1 DEF OpToRel
<1> QED  BY <1>2

\* In a balanced fabric everything that is in a level is below the top tier,
\* by induction on the distance from the last level.
LEMMA AllBelowTop ==
    ASSUME FabricInv, provider \in OnPrem, phase = "merged", BuiltInv, TopInv, Balanced(seen)
    PROVE  \A v \in Ids : rank[v] > 0 =>
               Merged(v) /\ \E r \in TopTier : refs[v] \in Reached(nodes, r)
<1> DEFINE Good(v) == Merged(v) /\ \E r \in TopTier : refs[v] \in Reached(nodes, r)
           Bad == {v \in Ids : rank[v] > 0 /\ ~Good(v)}
           Gaps == {cnt - rank[v] : v \in Bad}
<1>1. /\ cnt \in Nat /\ rank \in [Ids -> Nat] /\ nodes \in [Ids -> SUBSET Ids] /\ refs \in [Ids -> Ids]
      /\ below \in [Ids -> SUBSET Ids] /\ have \subseteq Ids /\ TopTier \subseteq Ids
  BY MergerAssumption DEF FabricInv, LevelInv, MergerTypeOK, TopTier
<1>2. /\ \A v \in Ids : rank[v] <= cnt
      /\ \A v \in Ids : 0 < rank[v] /\ rank[v] < cnt => \E u \in Ids : v \in below[u]
  BY DEF BuiltInv, Building
<1>3. /\ \A v \in Ids : rank[v] = cnt => Merged(v)
      /\ \A v \in have : rank[v] = cnt => v \in TopTier
  BY DEF TopInv, TopTier
<1>4. /\ \A v \in Ids : Merged(v) => refs[v] \in have
      /\ \A v \in Ids : rank[refs[v]] = rank[v]
      /\ \A v \in Ids : Merged(v) => \A w \in below[v] : Merged(w)
      /\ \A v \in Ids : Merged(v) => nodes[refs[v]] = signature(v)
      /\ \A v \in Ids : \A w \in below[v] : rank[w] + 1 = rank[v]
  BY DEF FabricInv, MergedInv, LevelInv, Layers
<1>5. \A r \in TopTier : r \in Reached(nodes, r)
                         /\ \A u \in Reached(nodes, r) : nodes[u] \subseteq Reached(nodes, r)
  BY <1>1, ReachedFacts
<1>6. ASSUME NEW v \in Ids, rank[v] = cnt PROVE Good(v)
  <2>1. Merged(v) /\ refs[v] \in have /\ rank[refs[v]] = cnt
    BY <1>3, <1>4, <1>6
  <2>2. refs[v] \in TopTier
    BY <1>3, <2>1
  <2> QED  BY <1>5, <2>1, <2>2
<1>7. ASSUME NEW u \in Ids, Good(u), NEW w \in below[u] PROVE Good(w)
  <2>1. Merged(w)
    BY <1>4, <1>7
  <2>2. refs[w] \in nodes[refs[u]]
    BY <1>4, <1>7 DEF signature
  <2>3. PICK r \in TopTier : refs[u] \in Reached(nodes, r)
    BY <1>7
  <2>4. refs[w] \in Reached(nodes, r)
    BY <1>5, <2>2, <2>3
  <2> QED  BY <2>1, <2>4
<1> HIDE DEF Good
<1>8. ASSUME Bad # {} PROVE FALSE
  <2>1. Gaps \subseteq Nat /\ Gaps # {}
    BY <1>1, <1>2, <1>8
  <2>2. PICK m \in Gaps : \A n \in Gaps : m <= n
    <3> HIDE DEF Gaps
    <3> QED  BY <2>1, LeastOf
  <2>3. PICK v \in Bad : m = cnt - rank[v]
    OBVIOUS
  <2>4. v \in Ids /\ rank[v] > 0 /\ ~Good(v) /\ rank[v] < cnt
    BY <1>1, <1>2, <1>6, <2>3
  <2>5. PICK u \in Ids : v \in below[u]
    BY <1>2, <2>4
  <2>6. rank[u] = rank[v] + 1 /\ ~Good(u)
    BY <1>1, <1>4, <1>7, <2>4, <2>5
  <2>7. u \in Bad
    BY <1>1, <2>4, <2>6
  <2>8. cnt - rank[u] \in Gaps
    BY <2>7
  <2>9. m <= cnt - rank[u]
    BY <2>2, <2>8
  <2> QED  BY <1>1, <2>3, <2>4, <2>6, <2>9
<1> QED  BY <1>8 DEF Good

\* So are its requested nodes.
LEMMA NodesBelowTop ==
    ASSUME FabricInv, provider \in OnPrem, phase = "merged", BuiltInv, TopInv, Balanced(seen),
           NEW s \in seen, NEW h \in Requested, h \in fabric.attach[s]
    PROVE  \E r \in TopTier : h \in NodesUnder(nodes, r)
<1>1. /\ rank \in [Ids -> Nat] /\ nodes \in [Ids -> SUBSET Ids] /\ TopTier \subseteq Ids
  BY MergerAssumption DEF FabricInv, LevelInv, MergerTypeOK, TopTier
<1>2. s \in Ids
  <2>1. seen \subseteq Switches
    BY ParsedSwitches DEF BuiltInv, Building
  <2> QED  BY <2>1, FabricAssumption
<1>3. rank[s] = 1 /\ h \in below[s]
  BY DEF BuiltInv, Building
<1>4. Merged(s) /\ \E r \in TopTier : refs[s] \in Reached(nodes, r)
  BY <1>2, <1>3, AllBelowTop
<1>5. h \in Ids /\ h \in Hosts /\ rank[h] = 0
  <2>1. h \in Ids /\ h \in Hosts
    BY FabricAssumption
  <2>2. rank[h] + 1 = rank[s]
    BY <1>2, <1>3 DEF FabricInv, LevelInv, Layers
  <2> QED  BY <1>1, <1>3, <2>1, <2>2
<1>6. refs[h] = h
  BY <1>5 DEF TopInv
<1>7. h \in nodes[refs[s]]
  <2>1. nodes[refs[s]] = signature(s)
    BY <1>2, <1>4 DEF FabricInv, MergedInv
  <2> QED  BY <1>3, <1>6, <2>1 DEF signature
<1>8. PICK r \in TopTier : refs[s] \in Reached(nodes, r)
  BY <1>4
<1>9. h \in Reached(nodes, r)
  BY <1>1, <1>7, <1>8, ReachedFacts
<1> QED  BY <1>5, <1>9 DEF NodesUnder

\* The roots, and what is visited, stay as they are.
LEMMA SameRoots ==
    ASSUME OnPremFabric, RootsInv, UNCHANGED <<inputVars, roots, found, visited>>,
           phase' \in Building \cup {"start", "nodes", "result", "done", "failed"},
           phase' \in Building => seen' \cap roots = {},
           phase' = "start" => visited = {},
           phase' \notin {"start", "failed"} => Requested \subseteq todo' \cup visited \cup missed',
           phase' \in {"result", "done"} => todo' = {},
           \A h \in visited \cap Requested : Sound(h) /\ Waits(h) => Waits(h)'
    PROVE  RootsInv'
<1>1. fabric' = fabric /\ provider' = provider /\ roots' = roots /\ found' = found /\ visited' = visited
  BY DEF inputVars
<1>2. /\ \A r \in roots : r \in Switches /\ hcaHosts(Component(r)) \subseteq visited
      /\ \A h \in visited \cap Requested : Sound(h) => h \in InTree \/ Waits(h)
  BY DEF RootsInv, OnPremFabric
<1>3. \A r : hcaHosts(Component(r))' = hcaHosts(Component(r))
  <2>1. \A r : Component(r)' = Component(r)
    BY <1>1, SameFabric
  <2> QED  BY <1>1, <2>1 DEF hcaHosts
<1>4. InTree' = InTree
  BY <1>1 DEF InTree
<1>5. \A h \in visited' \cap Requested : Sound(h)' => h \in InTree' \/ Waits(h)'
  BY <1>1, <1>2, <1>4, SameFabric
<1> QED  BY <1>1, <1>2, <1>3, <1>5 DEF RootsInv

\* A new output shares no switch with an earlier one: the node would have been visited.
LEMMA DiscoverRoots ==
    ASSUME OnPremFabric, RootsInv, NEW n \in Hosts, discoverNode(n)
    PROVE  BuiltInv' /\ DistanceInv' /\ RootsInv'
<1>1. PICK s \in Switches : /\ n \in fabric.attach[s]
                            /\ findLeaves(ParseIbnetdiscoverFile(Component(s)))
                            /\ visited' = visited \cup hcaHosts(Component(s))
  BY DEF discoverNode
<1>2. /\ phase = "nodes" /\ n \notin visited /\ todo' = todo \ {n} /\ phase' = "levels"
      /\ seen' = ParseIbnetdiscoverFile(Component(s))
      /\ fabric' = fabric /\ provider' = provider /\ provider \in OnPrem
      /\ roots' = roots /\ found' = found /\ missed' = missed
  BY <1>1 DEF discoverNode, findLeaves, inputVars, OnPremFabric
<1>3. BuiltInv' /\ DistanceInv'
  BY <1>1, <1>2, FirstLevel DEF inputVars
<1>4. /\ \A r \in roots : r \in Switches /\ hcaHosts(Component(r)) \subseteq visited
      /\ \A h \in visited \cap Requested : Sound(h) => h \in InTree
      /\ Requested \subseteq todo \cup visited \cup missed
  BY <1>2 DEF RootsInv, Waits, Building
<1>5. n \in visited'
  BY <1>1, ComponentFacts DEF hcaHosts
<1>6. ASSUME NEW r \in roots, r \in seen' PROVE FALSE
  <2>1. r \in Component(s)
    BY <1>2, <1>6 DEF ParseIbnetdiscoverFile
  <2>2. Component(r) = Component(s) /\ s \in Component(s)
    BY <2>1, ComponentFacts
  <2>3. fabric.attach[s] \subseteq hcaHosts(Component(r))
    BY <2>2 DEF hcaHosts
  <2> QED  BY <1>1, <1>2, <1>4, <2>3
<1>7. \A r : hcaHosts(Component(r))' = hcaHosts(Component(r))
  <2>1. \A r : Component(r)' = Component(r)
    BY <1>2, SameFabric
  <2> QED  BY <1>2, <2>1 DEF hcaHosts
<1>8. InTree' = InTree
  BY <1>2 DEF InTree
<1>9. ASSUME NEW h \in visited' \cap Requested, Sound(h)' PROVE h \in InTree' \/ Waits(h)'
  <2>1. Sound(h)
    BY <1>2, <1>9, SameFabric
  <2>2. CASE h \in visited
    BY <1>4, <1>8, <2>1, <2>2
  <2>3. CASE h \in hcaHosts(Component(s))
    <3>1. PICK t \in Component(s) : h \in fabric.attach[t]
      BY <2>3 DEF hcaHosts
    <3>2. t \in Switches
      BY ComponentFacts
    <3>3. t \notin fabric.cut
      BY <2>1, <3>1, <3>2 DEF Sound
    <3>4. t \in seen'
      BY <1>2, <3>3 DEF ParseIbnetdiscoverFile
    <3> QED  BY <1>2, <3>1, <3>4 DEF Waits, Building
  <2> QED  BY <1>1, <2>2, <2>3
<1>10. RootsInv'
  <2>1. \A r \in roots' : r \in Switches /\ hcaHosts(Component(r))' \subseteq visited'
    BY <1>1, <1>2, <1>4, <1>7
  <2>2. Requested \subseteq todo' \cup visited' \cup missed'
    BY <1>1, <1>2, <1>4, <1>5
  <2>3. seen' \cap roots' = {}
    BY <1>2, <1>6
  <2> QED  BY <1>2, <1>9, <2>1, <2>2, <2>3 DEF RootsInv, Building
<1> QED  BY <1>3, <1>10

\* The new roots replace none, and have the nodes of the output below them.
LEMMA AddedRoots ==
    ASSUME FabricInv, OnPremFabric, BuiltInv, TopInv, RootsInv, addRoots
    PROVE  RootsInv'
<1>1. /\ phase = "merged" /\ phase' = "nodes" /\ roots' = roots \cup TopTier /\ found' = AddTop
      /\ fabric' = fabric /\ provider' = provider /\ provider \in OnPrem
      /\ todo' = todo /\ visited' = visited /\ missed' = missed
  BY DEF addRoots, inputVars, OnPremFabric, OnPrem
<1>2. /\ \A r \in roots : r \in Switches /\ hcaHosts(Component(r)) \subseteq visited
      /\ \A h \in visited \cap Requested : Sound(h) => h \in InTree \/ Waits(h)
      /\ Requested \subseteq todo \cup visited \cup missed
      /\ seen \cap roots = {}
  BY <1>1 DEF RootsInv, Building
<1>3. PICK s \in Switches : /\ seen = ParseIbnetdiscoverFile(Component(s))
                            /\ hcaHosts(Component(s)) \subseteq visited
  BY <1>1 DEF BuiltInv, Building
<1>4. \A t \in seen : t \in Switches /\ t \in Component(s) /\ Component(t) = Component(s)
  BY <1>3, ComponentFacts DEF ParseIbnetdiscoverFile
<1>5. TopTier \subseteq seen /\ TopTier \subseteq Ids
  <2>1. \A v \in TopTier : v \in Ids /\ rank[v] = cnt
    BY <1>1 DEF TopInv, TopTier, FabricInv, LevelInv, MergerTypeOK
  <2>2. cnt >= 1 /\ cnt \in Nat /\ \A v \in Ids : rank[v] > 0 => v \in seen
    BY <1>1, MergerAssumption DEF BuiltInv, Building, FabricInv, LevelInv, MergerTypeOK
  <2> QED  BY <2>1, <2>2
<1>6. \A r : hcaHosts(Component(r))' = hcaHosts(Component(r))
  <2>1. \A r : Component(r)' = Component(r)
    BY <1>1, SameFabric
  <2> QED  BY <1>1, <2>1 DEF hcaHosts
<1>7. \A r \in roots' : r \in Switches /\ hcaHosts(Component(r))' \subseteq visited'
  BY <1>1, <1>2, <1>3, <1>4, <1>5, <1>6
<1>8. /\ \A r \in roots : found'[r] = found[r]
      /\ \A r \in TopTier : found'[r] = NodesUnder(nodes, r)
  BY <1>1, <1>2, <1>5, FabricAssumption DEF AddTop
<1>9. ASSUME NEW h \in visited \cap Requested, Sound(h)' PROVE h \in InTree'
  <2>1. Sound(h)
    BY <1>1, <1>9, SameFabric
  <2>2. CASE h \in InTree
    BY <1>1, <1>8, <2>2 DEF InTree
  <2>3. CASE Waits(h)
    <3>1. PICK t \in seen : h \in fabric.attach[t]
      BY <2>3 DEF Waits
    <3>2. Balanced(seen)
      BY <1>3, <1>4, <2>1, <3>1 DEF Sound
    <3>3. PICK r \in TopTier : h \in NodesUnder(nodes, r)
      BY <1>1, <3>1, <3>2, NodesBelowTop
    <3> QED  BY <1>1, <1>8, <3>3 DEF InTree
  <2> QED  BY <1>2, <2>1, <2>2, <2>3
<1> QED  BY <1>1, <1>2, <1>7, <1>9 DEF RootsInv, Building

HeardInv == BuiltInv /\ DistanceInv /\ TopInv /\ RootsInv

\* Steps of the merger.
LEMMA MergerHeard ==
    ASSUME FabricInv, OnPremFabric, HeardInv, MergerStep
    PROVE  HeardInv'
<1>1. /\ UNCHANGED <<inputVars, givenVars, seen, resultVars>> /\ provider' = provider
      /\ provider \in OnPrem
  BY DEF MergerStep, MergerNext, traverse, NextTierUp, EndLayer, mergeVertex, inputVars, OnPremFabric
<1>2. /\ phase \in {"traverse", "tier", "merge"} /\ phase' \in {"traverse", "tier", "merge", "merged"}
      /\ phase \in Building /\ phase' \in Building
  BY DEF MergerStep, MergerNext, traverse, NextTierUp, EndLayer, mergeVertex, Building
<1>3. BuiltInv'
  BY <1>1, <1>2, SameLevels DEF HeardInv, resultVars
<1>4. DistanceInv'
  BY <1>2 DEF DistanceInv
<1>5. TopInv'
  BY <1>1, TopTraversed, TopNext, TopMerged, TopEnds DEF MergerStep, MergerNext, HeardInv
<1>6. RootsInv'
  <2>1. /\ seen' = seen /\ fabric' = fabric /\ roots' = roots /\ found' = found /\ visited' = visited
        /\ todo' = todo /\ missed' = missed
    BY <1>1 DEF inputVars, resultVars
  <2>2. \A h : Waits(h) => Waits(h)'
    BY <1>2, <2>1 DEF Waits
  <2>3. seen \cap roots = {} /\ Requested \subseteq todo \cup visited \cup missed
    BY <1>1, <1>2 DEF HeardInv, RootsInv
  <2> QED  BY <1>1, <1>2, <2>1, <2>2, <2>3, SameRoots DEF HeardInv
<1> QED  BY <1>3, <1>4, <1>5, <1>6 DEF HeardInv

\* Steps of buildTree.
LEMMA BuildHeard ==
    ASSUME FabricInv, OnPremFabric, HeardInv, buildTree
    PROVE  HeardInv'
<1>1. /\ UNCHANGED <<inputVars, seen, resultVars>> /\ provider' = provider /\ provider \in OnPrem
      /\ seen' = seen /\ fabric' = fabric /\ roots' = roots /\ found' = found /\ visited' = visited
      /\ todo' = todo /\ missed' = missed
      /\ phase = "levels" /\ phase' \in {"levels", "traverse", "merged"}
      /\ phase \in Building /\ phase' \in Building
  BY DEF buildTree, inputVars, buildVars, resultVars, OnPremFabric, NewMerger, Building
<1>2. RootsInv'
  <2>1. \A h : Waits(h) => Waits(h)'
    BY <1>1 DEF Waits
  <2>2. seen \cap roots = {} /\ Requested \subseteq todo \cup visited \cup missed
    BY <1>1 DEF HeardInv, RootsInv
  <2> QED  BY <1>1, <2>1, <2>2, SameRoots DEF HeardInv
<1>3. CASE Upper = {}
  <2>1. NewMerger(level) /\ UNCHANGED buildVars /\ phase' # "levels"
    BY <1>3 DEF buildTree, NewMerger
  <2>2. BuiltInv'
    BY <1>1, <2>1, SameLevels DEF HeardInv, buildVars
  <2>3. TopInv'
    BY <1>1, <2>1, TopGiven DEF HeardInv
  <2> QED  BY <1>2, <2>1, <2>2, <2>3 DEF HeardInv, DistanceInv
<1>4. CASE Upper # {}
  <2>1. phase' = "levels"
    BY <1>1, <1>4 DEF buildTree
  <2> QED  BY <1>2, <1>4, <2>1, LevelMore DEF HeardInv, TopInv
<1> QED  BY <1>3, <1>4

LEMMA HeardStep == FabricInv /\ InputInv /\ HeardInv /\ [FabricNext]_fabricVars => HeardInv'
<1> SUFFICES ASSUME FabricInv, InputInv, HeardInv, [FabricNext]_fabricVars PROVE HeardInv'
  OBVIOUS
<1>1. UNCHANGED inputVars
  BY DEF fabricVars, FabricNext, readDomains, discoverLocal, unreadableOutput, login, buildTree,
         nextNetqLayer, loadModel, MergerStep, addRoots, endLoop, makeResult, skipNode, missNode,
         discoverNode, readPremises
<1> SUFFICES ASSUME provider \in OnPrem PROVE HeardInv'
  BY <1>1 DEF HeardInv, BuiltInv, DistanceInv, TopInv, RootsInv, inputVars
<1>2. OnPremFabric
  BY FabricAssumption DEF OnPremFabric, InputInv, OnPrem
<1>3. fabric' = fabric /\ provider' = provider
  BY <1>1 DEF inputVars
<1>4. ASSUME UNCHANGED <<roots, found, visited>>,
             phase \notin Building, phase' \in {"nodes", "result", "done", "failed"},
             phase' # "failed" => Requested \subseteq todo' \cup visited \cup missed',
             phase' \in {"result", "done"} => todo' = {}
      PROVE  HeardInv'
  <2>1. phase' \notin Building /\ phase' # "start"
    BY <1>4 DEF Building
  <2>2. BuiltInv' /\ DistanceInv' /\ TopInv'
    BY <1>4, <2>1 DEF BuiltInv, DistanceInv, TopInv, Building
  <2>3. \A h : ~Waits(h)
    BY <1>4 DEF Waits
  <2>4. RootsInv'
    BY <1>1, <1>2, <1>4, <2>1, <2>3, SameRoots DEF HeardInv
  <2> QED  BY <2>2, <2>4 DEF HeardInv
<1>5. CASE UNCHANGED fabricVars
  <2>1. /\ UNCHANGED <<inputVars, givenVars, seen, visited, roots, found>>
        /\ phase' = phase /\ seen' = seen /\ roots' = roots /\ todo' = todo /\ missed' = missed
        /\ visited' = visited /\ rank' = rank /\ cnt' = cnt /\ level' = level /\ unused' = unused
        /\ tiers' = tiers /\ cur' = cur /\ rest' = rest /\ have' = have /\ refs' = refs
    BY <1>5 DEF fabricVars, inputVars, buildVars, givenVars, resultVars, mergerVars
  <2>2. BuiltInv'
    BY <2>1, SameLevels DEF HeardInv, BuiltInv
  <2>3. TopInv'
    BY <1>3, <2>1 DEF HeardInv, TopInv, Merged
  <2>4. DistanceInv'
    <3>1. Balanced(seen)' = Balanced(seen) /\ \A d : Follows(d)' = Follows(d)
      BY <1>3, <2>1, SameFabric DEF Follows
    <3> QED  BY <1>3, <2>1, <3>1 DEF HeardInv, DistanceInv
  <2>5. RootsInv'
    <3>1. \A h : Waits(h)' = Waits(h)
      BY <1>3, <2>1 DEF Waits
    <3>2. /\ phase \in Building \cup {"start", "nodes", "result", "done", "failed"}
          /\ phase \in Building => seen \cap roots = {}
          /\ phase = "start" => visited = {}
          /\ phase \notin {"start", "failed"} => Requested \subseteq todo \cup visited \cup missed
          /\ phase \in {"result", "done"} => todo = {}
      BY DEF HeardInv, RootsInv
    <3> QED  BY <1>2, <2>1, <3>1, <3>2, SameRoots DEF HeardInv
  <2> QED  BY <2>2, <2>3, <2>4, <2>5 DEF HeardInv
<1>6. CASE FabricNext
  <2>1. phase = "nodes" => Requested \subseteq todo \cup visited \cup missed
    BY DEF HeardInv, RootsInv
  <2>2. phase \in {"start", "nodes", "result"} => phase \notin Building
    BY DEF Building
  <2>3. CASE readDomains
    BY <1>4, <2>2, <2>3 DEF readDomains
  <2>4. CASE unreadableOutput
    BY <1>4, <2>2, <2>4 DEF unreadableOutput, resultVars
  <2>5. CASE endLoop
    <3>1. phase = "nodes" /\ phase' = "result" /\ todo' = {}
      BY <2>5 DEF endLoop, resultVars, HeardInv, RootsInv, Building, OnPrem
    <3> QED  BY <1>4, <2>1, <2>2, <2>5, <3>1 DEF endLoop, resultVars
  <2>6. CASE makeResult
    <3>1. phase = "result" /\ phase' = "done" /\ todo' = todo /\ missed' = missed
          /\ UNCHANGED <<roots, found, visited>>
      BY <2>6 DEF makeResult
    <3>2. todo = {} /\ Requested \subseteq todo \cup visited \cup missed
      BY <3>1 DEF HeardInv, RootsInv
    <3> QED  BY <1>4, <2>2, <3>1, <3>2
  <2>7. ASSUME NEW n \in Hosts, skipNode(n) \/ missNode(n) PROVE HeardInv'
    <3>1. /\ phase = "nodes" /\ phase' = "nodes" /\ todo' = todo \ {n}
          /\ n \in visited \cup missed' /\ missed \subseteq missed'
          /\ UNCHANGED <<roots, found, visited>>
      BY <2>7 DEF skipNode, missNode
    <3>2. Requested \subseteq todo' \cup visited \cup missed'
      BY <2>1, <3>1
    <3> QED  BY <1>4, <2>2, <3>1, <3>2
  <2>8. ASSUME NEW n \in Hosts, discoverNode(n) PROVE HeardInv'
    <3>1. BuiltInv' /\ DistanceInv' /\ RootsInv'
      BY <1>2, <2>8, DiscoverRoots DEF HeardInv
    <3>2. phase' = "levels"
      BY <2>8 DEF discoverNode, findLeaves
    <3> QED  BY <3>1, <3>2 DEF HeardInv, TopInv
  <2>9. CASE addRoots
    <3>1. RootsInv'
      BY <1>2, <2>9, AddedRoots DEF HeardInv
    <3>2. phase' = "nodes"
      BY <2>9 DEF addRoots, OnPrem
    <3> QED  BY <3>1, <3>2 DEF HeardInv, BuiltInv, DistanceInv, TopInv, Building
  <2>10. CASE buildTree
    BY <1>2, <2>10, BuildHeard
  <2>11. CASE MergerStep
    BY <1>2, <2>11, MergerHeard
  <2> QED
    BY <1>6, <2>3, <2>4, <2>5, <2>6, <2>7, <2>8, <2>9, <2>10, <2>11, OnPremSteps DEF HeardInv
<1> QED  BY <1>5, <1>6

\* A node disappears from the tree only for the reasons given: ibnetdiscover
\* told nothing on it, a switch of it was lost when parsing, or its fabric is
\* not balanced (getIbTree, buildTree, Merger).  This is of infiniband-bm and
\* infiniband-k8s; the theorem above adds the model files.
THEOREM HeardNodesAreKept == FabricSpec => []NodesKept
<1>1. FabricInit => InputInv /\ HeardInv
  <2> SUFFICES ASSUME FabricInit PROVE InputInv /\ HeardInv
    OBVIOUS
  <2>1. phase = "start" /\ phase \notin Building /\ roots = {} /\ visited = {}
    BY DEF FabricInit, Building
  <2> QED  BY <2>1 DEF FabricInit, InputInv, HeardInv, BuiltInv, DistanceInv, TopInv, RootsInv
<1>2. ASSUME HeardInv PROVE DiscoveredKept
  <2> SUFFICES ASSUME phase = "done", provider \in OnPrem, NEW h \in Requested \ missed,
                      h \notin InTree
               PROVE  \E s \in Switches : /\ h \in fabric.attach[s]
                                          /\ \/ s \in fabric.cut
                                             \/ ~Balanced(ParseIbnetdiscoverFile(Component(s)))
    BY DEF DiscoveredKept
  <2>1. Requested \subseteq todo \cup visited \cup missed /\ todo = {} /\ ~Waits(h)
    BY <1>2 DEF HeardInv, RootsInv, Waits, Building
  <2>2. h \in visited \cap Requested
    BY <2>1
  <2>3. ~Sound(h)
    BY <1>2, <2>1, <2>2 DEF HeardInv, RootsInv
  <2> QED  BY <2>3 DEF Sound
<1>3. InputInv /\ [FabricNext]_fabricVars => InputInv'
  BY DEF InputInv, inputVars, fabricVars, FabricNext, readDomains, discoverLocal, unreadableOutput,
         login, buildTree, nextNetqLayer, loadModel, MergerStep, addRoots, endLoop, makeResult, skipNode,
         missNode, discoverNode, readPremises
<1>4. DiscoveredKept /\ ModelKept => NodesKept
  BY DEF NodesKept
<1> QED  BY <1>1, <1>2, <1>3, <1>4, FabricInitInv, FabricNextInv, HeardStep, ModelsAreKept, PTL
         DEF FabricSpec
==============================================================================
