-------------------------- MODULE MCTopologyServer --------------------------
(* A small instance of TopologyServer for TLC.                              *)
EXTENDS TopologyServer

MCProviders == {"aws", "test"}
MCEngines == {"k8s"}

\* A request that names everything, one that relies on the configuration and
\* one for an unknown provider.
MCPayloads ==
    {[provider |-> "test", engine |-> "k8s", nodes |-> TRUE],
     [provider |-> "",     engine |-> "",    nodes |-> FALSE],
     [provider |-> "none", engine |-> "k8s", nodes |-> TRUE]}

MCItems == [provider : MCProviders \cup {"", "none"}, engine : MCEngines \cup {""},
            nodes : BOOLEAN]
=============================================================================
