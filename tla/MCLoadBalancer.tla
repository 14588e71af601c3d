-------------------------- MODULE MCLoadBalancer --------------------------
(* Two TMs and one TC that makes two requests: the smallest world with a   *)
(* node to forward to.  Two handlers of a may share its leader, while one  *)
(* that forwards keeps b's only thread.                                    *)
EXTENDS LoadBalancer, TLC
CONSTANTS a, b, t, r1, r2
MCTms == {a, b}
MCTcs == {t}
MCFrom == r1 :> t @@ r2 :> t
MCKind == r1 :> "id" @@ r2 :> "transaction"
MCThreads == a :> 2 @@ b :> 1
=============================================================================
