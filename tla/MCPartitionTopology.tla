------------------------ MODULE MCPartitionTopology ------------------------
(* A small instance of PartitionTopology for TLC.                           *)
EXTENDS PartitionTopology

CONSTANTS i1, i2, i3, i4, sb, ss, st, a1, a2, a3, ghost

\* Instances on a block switch, on the spine above it, on another switch and
\* on none.
MCUp == [v \in {i1, i2, i3, i4, sb, ss, st} |->
            CASE v = i1 -> sb [] v = i2 -> ss [] v = i3 -> st [] v = sb -> ss
              [] OTHER -> None]

MCTier == [s \in {sb, ss, st} |-> CASE s = sb -> 1 [] s = ss -> 2 [] OTHER -> 1]

RankIn(s) == [v \in ToSet(s) |-> CHOOSE k \in DOMAIN s : s[k] = v]

MCOrders ==
    LET s == <<i1, i2, i3, i4, NoTopology, sb, ss, st>>
    IN  {RankIn(<<NoInstance>> \o s), RankIn(<<NoInstance>> \o Reverse(s))}

MCSizeRequests == {<<>>, <<2>>, <<1, 2>>}

Section(p, n, part, sz, d) ==
    [plugin |-> p, nodes |-> n, partition |-> part, sizes |-> sz, default |-> d]

\* Topologies with given and discovered nodes, with a node that is not in the
\* cluster, without nodes, and with an unknown plugin.
MCSections ==
    {[t1 |-> Section("tree", {i1, i4}, None, <<>>, FALSE),
      t2 |-> Section("block", {i1, i2, i3}, None, <<2>>, FALSE)],
     [t1 |-> Section("tree", {}, "p1", <<>>, FALSE), t2 |-> Section("flat", {}, None, <<>>, TRUE)],
     [t1 |-> Section("block", {}, "p2", <<>>, FALSE)],
     [t1 |-> Section("tree", {i3, ghost}, None, <<>>, TRUE)],
     [t1 |-> Section("flat", {}, None, <<>>, FALSE)],
     [t1 |-> Section("other", {i1}, None, <<>>, FALSE)]}

MCDiscovered == [p \in {"p1", "p2"} |-> IF p = "p1" THEN {i2, i3} ELSE {i2, i3, i4, ghost}]

\* Nothing tells accelerator domains apart: they are first named in this order.
\* A node without an instance ID comes with at most one of them.
InOrder == /\ domains[a2] # {} => domains[a1] # {} /\ NoInstance \notin i2n
           /\ domains[a3] # {} => domains[a2] # {}

MCPartitionNext == PartitionNext /\ InOrder'

\* NewNetworkTopology and Generate are sequential code: each step is taken.
MCPartitionSpec ==
    PartitionInit /\ [][MCPartitionNext]_partitionVars /\ WF_partitionVars(MCPartitionNext)
=============================================================================
