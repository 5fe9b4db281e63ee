------------------------- MODULE MCFabricDiscovery -------------------------
(***************************************************************************)
(* Small fabrics of up to four switches, with two requested hosts and one  *)
(* that is not requested.                                                  *)
(***************************************************************************)
EXTENDS FabricDiscovery, FiniteSetsExt, TLC

CONSTANTS h1, h2, h3, s1, s2, s3, s4, b1, b2

MCIds == Hosts \cup Switches

Symmetric(L) == [s \in Switches |-> {r \in Switches : r # s /\ {r, s} \in L}]

SameClique == [h \in Hosts |-> {<<"ClusterUUID", "u">>, <<"CliqueId", "1">>}]

\* A network: its links, the switches of each host, and the rest as usual.
Network(L, home) ==
    [conn |-> Symmetric(L), attach |-> [s \in Switches |-> {h \in Hosts : s \in home[h]}],
     cut |-> {}, tier |-> [s \in Switches |-> 1], listed |-> Ids,
     smi |-> SameClique, pods |-> [h \in Hosts |-> 1]]

Links == kSubset(2, Switches)

\* The switches of h1, h2 and h3.
Homes(a, b, c) == h1 :> a @@ h2 :> b @@ h3 :> c

\* All networks with every host on one switch, or h1 and h2 on two.  The names
\* of switches do not matter, so that those of h1 can be fixed.
SingleHomed == {Network(L, Homes({s1}, {b}, {c})) : L \in SUBSET Links, b, c \in Switches}
DualHomed   == {Network(L, Homes({s1, s2}, B, {s1})) : L \in SUBSET Links, B \in Links}

\* Two leaves below two spines.
Clos == Network({{s1, s3}, {s1, s4}, {s2, s3}, {s2, s4}}, Homes({s1}, {s2}, {s1}))

CutShort == {[Clos EXCEPT !.cut = {s}] : s \in Switches}

\* Outputs of nvidia-smi: none, without a clique, two cliques, ambiguous.
Outputs == {{}, {<<"ClusterUUID", "u">>}, {<<"ClusterUUID", "u">>, <<"CliqueId", "1">>},
            {<<"ClusterUUID", "u">>, <<"CliqueId", "2">>},
            {<<"ClusterUUID", "u">>, <<"CliqueId", "1">>, <<"CliqueId", "2">>}}

OtherCliques ==
    {[Clos EXCEPT !.smi = Homes(A, B, {}), !.pods = Homes(n, m, 0)] :
        A, B \in Outputs, n, m \in 0..2}

\* Device lists: switches that are not classified (0) or of any other tier
\* (each one above the code's number), and one that is left out.
Listed ==
    {[Network(L, Homes(A, B, {s1})) EXCEPT
         !.tier = s1 :> a @@ s2 :> b @@ s3 :> c @@ s4 :> 2, !.listed = Ids \ missing] :
        L \in SUBSET {{s1, s2}, {s1, s3}, {s2, s3}, {s3, s4}}, a, b, c \in 0..3,
        A \in {{s1}, {s1, s2}}, B \in {{s1}, {s3}, {s4}}, missing \in {{}, {s3}}}

\* Models: three switch entries, two of them perhaps of one name, with any
\* switches below them, s4 not being defined; two blocks, perhaps of one name
\* or with a common node, that are held by one or two switches or by none.
Models ==
    {[switches |-> <<[name |-> s1, subs |-> A, holds |-> H[1]],
                     [name |-> s2, subs |-> B, holds |-> H[2]],
                     [name |-> third, subs |-> C, holds |-> {}]>>,
      blocks |-> <<[name |-> b1, nodes |-> {h1}, nvlink |-> FALSE],
                   [name |-> other, nodes |-> N, nvlink |-> nvl]>>] :
        A \in SUBSET Switches, B \in SUBSET {s1, s3, s4}, C \in SUBSET {s1, s2},
        third \in {s1, s3}, other \in {b1, b2},
        H \in {<<{b1}, {b2}>>, <<{b1, b2}, {}>>, <<{b1}, {b1}>>, <<{b1}, {}>>},
        N \in {{h2, h3}, {h1, h2}}, nvl \in BOOLEAN}

MCFabrics == [p \in Providers |->
                 CASE p = "netq" -> Listed
                   [] p = "test" -> Models
                   [] p = "cw" -> CutShort
                   [] p = "infiniband-k8s" -> OtherCliques
                   [] OTHER -> SingleHomed \cup DualHomed \cup CutShort \cup OtherCliques]

MCPremises == {Ids \ {h2, s4}, {h2, s4}}
=============================================================================
