--------------------------- MODULE MCConnections ---------------------------
(* Channels that may replace each other: a broken one, its duplicates, and *)
(* the one that is left.                                                   *)
EXTENDS Connections
=============================================================================
