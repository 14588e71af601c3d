------------------------- MODULE MCLcnTransaction --------------------------
(* Call trees and environments for checking LcnTransaction on small groups. *)
EXTENDS LcnTransaction

TreeCaller  == <<0, 1, 0>>                  \* 1 calls 2; the starter calls 1 and 3
ChainCaller == [j \in 1 .. N |-> j - 1]     \* each joiner is called by the one before
All         == 0 .. N
=============================================================================
