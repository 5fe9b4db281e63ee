--------------------------- MODULE MCControlLoop ---------------------------
(* Small instances of ControlLoop for TLC.                                  *)
EXTENDS ControlLoop

MCLabels == [input : Cliques \cup {NoClique}, output : Outputs]
=============================================================================
