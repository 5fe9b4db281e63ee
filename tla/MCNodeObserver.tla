--------------------------- MODULE MCNodeObserver ---------------------------
(* A small instance of NodeObserver for TLC.                                *)
EXTENDS NodeObserver
=============================================================================
