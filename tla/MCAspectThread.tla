-------------------------- MODULE MCAspectThread --------------------------
(* Requests of clients, s1 and s2, and of other TCs, j and p, of which a   *)
(* run has some.                                                           *)
EXTENDS AspectThread, TLC
CONSTANTS s1, s2, j, p, g, t1, t2, f1
MCHeader == s1 :> Null @@ s2 :> Null @@ j :> g @@ p :> g
=============================================================================
