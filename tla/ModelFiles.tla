----------------------------- MODULE ModelFiles -----------------------------
(***************************************************************************)
(* pkg/models/model.go: the clusters that the test provider and the        *)
(* simulators read from a file.  A model is a record of two lists, in the  *)
(* order of the file: the switches it defines, each with the switches      *)
(* (`subs') and the capacity blocks (`holds') it names as being below it,  *)
(* defined or not; and the capacity blocks, each with its nodes and        *)
(* whether it has NVLink.  Nothing checks that the names in a list differ. *)
(* A name that is repeated within one entry is an error, as is one that is *)
(* repeated in two, so that the contents of an entry are sets.             *)
(***************************************************************************)
EXTENDS Naturals, FiniteSets, Sequences

\* The switches the model defines.
Names(m) == {m.switches[k].name : k \in DOMAIN m.switches}

\* swmap and cbmap: what names the switch or the block.
swmap(m, s) == {m.switches[k].name : k \in {j \in DOMAIN m.switches : s \in m.switches[j].subs}}
cbmap(m, b) == {m.switches[k].name : k \in {j \in DOMAIN m.switches : b \in m.switches[j].holds}}

\* getNetworkLayers goes up from s and comes back to a switch that it has
\* visited: there are switches from which it gets to no other.
Circular(m, s) ==
    \E C \in SUBSET Names(m) : s \in C /\ \A t \in C : swmap(m, t) \cap C # {}

\* setNodeMap returns an error.  Only the switches above a block are looked at.
setNodeMapFails(m) ==
    \/ \E j, k \in DOMAIN m.switches :
           /\ j # k
           /\ \/ m.switches[j].subs \cap m.switches[k].subs # {}
              \/ m.switches[j].holds \cap m.switches[k].holds # {}
    \/ \E k \in DOMAIN m.blocks : \E s \in cbmap(m, m.blocks[k].name) : Circular(m, s)
    \/ \E j, k \in DOMAIN m.blocks : j # k /\ m.blocks[j].nodes \cap m.blocks[k].nodes # {}

\* ToGraph stops at the first block of a name to find the nodes of a switch ...
First(m, k) == \A j \in 1..(k - 1) : m.blocks[j].name # m.blocks[k].name

\* ... and the last overwrites the others in blockVertexMap.
Last(m, k) == \A j \in DOMAIN m.blocks : m.blocks[j].name = m.blocks[k].name => j <= k

\* ToGraph: what is below a switch; all entries of one name share a vertex.  A
\* switch that is named but not defined is a nil pointer there.
subVertices(m, s) ==
    {t \in Names(m) : s \in swmap(m, t)}
        \cup UNION {m.blocks[k].nodes :
                        k \in {j \in DOMAIN m.blocks :
                                   First(m, j) /\ s \in cbmap(m, m.blocks[j].name)}}

\* ToGraph: the switches that no other names.
modelRoots(m) == {s \in Names(m) : swmap(m, s) = {}}

\* The vertices below the root of the blocks, with their nodes.
blockVertices(m) ==
    UNION {{m.blocks[k].name} \X m.blocks[k].nodes : k \in {j \in DOMAIN m.blocks : Last(m, j)}}
=============================================================================
