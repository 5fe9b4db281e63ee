---------------------------- MODULE SwitchMerger ----------------------------
(***************************************************************************)
(* pkg/topology/merger.go: a Clos fabric becomes nearly a tree by merging  *)
(* the switches of a tier that have the same switches or nodes below them. *)
(*                                                                         *)
(* A vertex is its ID.  The tiers have the numbers of the levels in which  *)
(* the caller found their vertices: 0 for nodes, cnt for the top.  The     *)
(* code visits the vertices of a tier in an order it gets by sorting IDs;  *)
(* here any order may come up, and nothing that is checked depends on it.  *)
(***************************************************************************)
EXTENDS Naturals

CONSTANTS
    Ids,        \* IDs of switches and nodes
    MaxTier     \* bound: number of the highest tier

VARIABLES
    phase,      \* what the program does
    below,      \* the graph to merge: the IDs in v.Vertices
    rank,       \* history: the level in which an ID was found, 0 if in none
    cnt,        \* the number of the top tier
    tiers,      \* m.tiers
    cur,        \* the tier that is visited
    rest,       \* its vertices that mergeLayer has still to visit
    kept,       \* its vertices that mergeLayer has kept: filters and result
    nodes,      \* m.nodes: the IDs in the Vertices of a merged vertex
    have,       \* the keys of m.nodes
    refs,       \* m.refs: where an ID has gone, itself if it has no entry
    nilChild    \* history: a merged vertex got a nil child

givenVars  == <<below, rank, cnt>>
mergerVars == <<tiers, cur, rest, kept, nodes, have, refs, nilChild>>

ASSUME MergerAssumption == MaxTier \in Nat

MergerInit ==
    /\ tiers = [k \in 0..MaxTier |-> {}]
    /\ cur = 0
    /\ rest = {}
    /\ kept = {}
    /\ nodes = [v \in Ids |-> {}]
    /\ have = {}
    /\ refs = [v \in Ids |-> v]
    /\ nilChild = FALSE

\* NewMerger: a merger of its own for every graph.
NewMerger(top) ==
    /\ phase' = IF top = {} THEN "merged" ELSE "traverse"
    /\ tiers' = [k \in 0..MaxTier |-> IF k = cnt THEN top ELSE {}]
    /\ cur' = cnt
    /\ rest' = {}
    /\ kept' = {}
    /\ nodes' = [v \in Ids |-> {}]
    /\ have' = {}
    /\ refs' = [v \in Ids |-> v]
    /\ nilChild' = FALSE

IsLeaf(v) == below[v] = {}

\* The vertices below a tier, without those that are in the tier.
NextLayer(layer) == (UNION {below[v] : v \in layer}) \ layer

\* traverse: one layer.  The first with a leaf ends the recursion.
traverse ==
    /\ phase = "traverse"
    /\ LET layer == tiers[cur]
       IN  IF \E v \in layer : IsLeaf(v)
           THEN /\ have' = {v \in layer : IsLeaf(v)}
                /\ phase' = "tier"
                /\ UNCHANGED <<cur, tiers>>
           ELSE /\ cur > 0
                /\ cur' = cur - 1
                /\ tiers' = [tiers EXCEPT ![cur - 1] = NextLayer(layer)]
                /\ UNCHANGED <<have, phase>>
    /\ UNCHANGED <<givenVars, rest, kept, nodes, refs, nilChild>>

\* Merge: the next tier, or the end.
NextTierUp ==
    /\ phase = "tier"
    /\ IF cur < cnt
       THEN /\ cur' = cur + 1
            /\ rest' = tiers[cur + 1]
            /\ kept' = {}
            /\ phase' = "merge"
       ELSE /\ phase' = "merged"
            /\ UNCHANGED <<cur, rest, kept>>
    /\ UNCHANGED <<givenVars, tiers, nodes, have, refs, nilChild>>

\* The IDs below v, with those that were merged replaced.
signature(v) == {refs[w] : w \in below[v]}

\* Mutant: a superset counts as the same signature.
SameIfCovered(f, v) == signature(v) \subseteq nodes[f]

\* Mutant: a vertex is compared with itself only.
SameID(f, v) == f = v

\* slices.Equal(f.signature, signature)
SameSignature(f, v) == nodes[f] = signature(v)

\* mergeLayer: one vertex.
mergeVertex(v) ==
    /\ phase = "merge"
    /\ v \in rest
    /\ rest' = rest \ {v}
    /\ \/ \E f \in kept :
             /\ SameSignature(f, v)
             /\ refs' = [refs EXCEPT ![v] = f]
             /\ UNCHANGED <<kept, nodes, have, nilChild>>
       \/ /\ ~\E f \in kept : SameSignature(f, v)
          /\ kept' = kept \cup {v}
          /\ nodes' = [nodes EXCEPT ![v] = signature(v)]
          /\ nilChild' = (nilChild \/ ~(signature(v) \subseteq have))
          /\ have' = have \cup {v}
          /\ UNCHANGED refs
    /\ UNCHANGED <<phase, givenVars, tiers, cur>>

\* m.tiers[i] = m.mergeLayer(m.tiers[i])
EndLayer ==
    /\ phase = "merge"
    /\ rest = {}
    /\ tiers' = [tiers EXCEPT ![cur] = kept]
    /\ phase' = "tier"
    /\ UNCHANGED <<givenVars, cur, rest, kept, nodes, have, refs, nilChild>>

TopTier == tiers[cnt]

MergerNext ==
    \/ traverse \/ NextTierUp \/ EndLayer
    \/ \E v \in Ids : mergeVertex(v)

----------------------------------------------------------------------------
(* Properties.                                                              *)

\* Merging forgets no connection and makes none up: below the vertex that
\* stands for v are exactly the vertices that stand for those below v, and
\* none of them is nil, which every walk of the graph would dereference
\* (mergeLayer: merged.Vertices[id] = m.nodes[id]).
MergeKeepsChildren ==
    /\ ~nilChild
    /\ phase \in {"tier", "merge", "merged"} =>
        \A v \in Ids : v \in have \/ refs[v] # v =>
            nodes[refs[v]] = {refs[w] : w \in below[v]}

\* No two switches that are left have the same vertices below them, in one
\* tier or in two (mergeLayer).
NoTwins == \A v, w \in have : nodes[v] = nodes[w] /\ nodes[v] # {} => v = w
=============================================================================
