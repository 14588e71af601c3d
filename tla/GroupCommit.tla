---------------------------- MODULE GroupCommit ----------------------------
(***************************************************************************)
(* What a transaction group promises, without messages, handlers or RPC:   *)
(* the starter decides the group once, every branch ends at most once, and *)
(* no branch ends against the decision.  LcnTransaction is shown to        *)
(* implement this specification.                                           *)
(***************************************************************************)
CONSTANT Branches      \* the local transactions of one group

VARIABLES decision,    \* "none" until the starter's business method has ended
          outcome      \* the fate of each branch's database work

vars == <<decision, outcome>>

Init == /\ decision = "none"
        /\ outcome = [b \in Branches |-> "working"]

(* The starter's business method ends.  It may decide to commit only while *)
(* every branch can still follow.                                          *)
Decide(d) ==
  /\ decision = "none"
  /\ d = "commit" => \A b \in Branches : outcome[b] = "working"
  /\ decision' = d
  /\ UNCHANGED outcome

Commit(b) ==
  /\ decision = "commit"
  /\ outcome[b] = "working"
  /\ outcome' = [outcome EXCEPT ![b] = "committed"]
  /\ UNCHANGED decision

(* A branch that gives up may roll back before the decision, never against *)
(* a decision to commit.                                                   *)
Rollback(b) ==
  /\ decision # "commit"
  /\ outcome[b] = "working"
  /\ outcome' = [outcome EXCEPT ![b] = "rolledBack"]
  /\ UNCHANGED decision

Next == \/ \E d \in {"commit", "rollback"} : Decide(d)
        \/ \E b \in Branches : Commit(b) \/ Rollback(b)

Spec == Init /\ [][Next]_vars
=============================================================================
