---------------------------- MODULE MCSnowflake ----------------------------
(* TMs and clocks for checking Snowflake. *)
EXTENDS Snowflake

ConsecutiveNodes == [t \in Tms |-> t]
=============================================================================
