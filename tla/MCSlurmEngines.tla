--------------------------- MODULE MCSlurmEngines ---------------------------
(* A small instance of SlurmEngines for TLC.                                *)
EXTENDS SlurmEngines

CONSTANTS
    n1, n2, n3, p1, p2, p3, r1, r2,
    DomainSizes,     \* numbers of nodes in a block
    MaxBlocks,       \* bound: how many blocks
    RequestedSizes,  \* sizes in a request
    MaxRequested,    \* bound: how many sizes in a request
    MaxChanges,      \* bound: how many changes from outside
    MaxExecs         \* bound: how many executions after the first

\* Two pods on one node, and two nodes in one region.
MCPodNode == [p \in {p1, p2, p3} |-> IF p = p3 THEN n2 ELSE n1]
MCNodeOrder == <<n1, n2, n3>>
MCRegion  == [n \in {n1, n2, n3} |-> IF n = n3 THEN r2 ELSE r1]

\* node08, node09, node10.
MCNames ==
    [n \in {n1, n2, n3} |->
        Host("node", 2, CASE n = n1 -> 8 [] n = n2 -> 9 [] OTHER -> 10)]

Request(engine, plugin, sizes, fake, path, again) ==
    [engine |-> engine, valid |-> TRUE, plugin |-> plugin, sizes |-> sizes, fake |-> fake,
     path |-> path, reconfigure |-> again]

NoCluster(req, sh) ==
    [request |-> req, shape |-> sh, naming |-> MCNames, up |-> {}, annotated |-> {}, ready |-> {},
     cm |-> None, changes |-> 0, execs |-> 0]

\* slurm in a cluster that changes.
SlurmScenarios ==
    {[NoCluster(Request("slurm", plugin, <<>>, FALSE, TRUE, again), <<>>)
        EXCEPT !.up = nodes, !.changes = MaxChanges, !.execs = MaxExecs] :
        plugin \in {"", "tree"}, again \in BOOLEAN, nodes \in {{n1, n2, n3}, {n1}}}

\* slinky in a cluster that changes, with and without a ConfigMap; without
\* the plugin parameter it fails.
SlinkyScenarios ==
    {[NoCluster(Request("slinky", plugin, <<>>, FALSE, TRUE, FALSE), <<>>)
        EXCEPT !.up = {n1, n2}, !.annotated = tags, !.ready = pods, !.cm = map,
               !.changes = MaxChanges, !.execs = MaxExecs] :
        plugin \in {"", "tree"}, tags \in {{n1}, {n1, n2}}, pods \in SUBSET {p1, p3},
        map \in {None, [version |-> <<"others", 0>>, data |-> None, others |-> 0]}}

\* Block sizes: all small inputs of getBlockSize.
SizeScenarios ==
    {NoCluster(Request("slurm", "block", sizes, fake, FALSE, FALSE), sh) :
        sizes \in BoundedSeq(RequestedSizes, MaxRequested) \cup {<<2, BadNumber>>},
        fake \in BOOLEAN, sh \in BoundedSeq(DomainSizes, MaxBlocks)}

\* Names: all choices of three from a few, regular and not.
SomeNames ==
    {Host("node", 1, 8), Host("node", 2, 8), Host("node", 1, 9), Host("node", 2, 9),
     Host("node", 2, 10), Host("node", 2, 12), Host("node", 0, 0), Host("x", 1, 9)}

NameScenarios ==
    {[NoCluster(Request("slurm", "tree", <<>>, FALSE, FALSE, FALSE), <<>>)
        EXCEPT !.naming = n1 :> a @@ n2 :> b @@ n3 :> c, !.up = {n1, n2, n3}] :
        <<a, b, c>> \in {t \in SomeNames \X SomeNames \X SomeNames :
                           t[1] # t[2] /\ t[2] # t[3] /\ t[1] # t[3]}}

\* Parameters that cannot be decoded.
InvalidScenarios ==
    {[NoCluster(Request(engine, "tree", <<>>, FALSE, TRUE, FALSE), <<>>)
        EXCEPT !.request.valid = FALSE, !.up = {n1}] : engine \in {"slurm", "slinky"}}

MCScenarios == SlurmScenarios \cup SlinkyScenarios \cup SizeScenarios \cup NameScenarios
               \cup InvalidScenarios
=============================================================================
