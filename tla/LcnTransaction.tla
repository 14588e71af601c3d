--------------------------- MODULE LcnTransaction ---------------------------
(***************************************************************************)
(* One LCN transaction group: the steps every TC (transaction client) runs *)
(* around its business method, the TM (transaction manager) handlers of    *)
(* the create, join and notify events, and the group record in Redis.      *)
(*                                                                         *)
(* Branch 0 is the starter.  The other branches are called by RPC, each by *)
(* one earlier branch, and each on a TC process of its own.  A request to  *)
(* the TM is answered or times out: messages may be delayed, reordered or  *)
(* never handled, and an answer may come after its requester has given up. *)
(* A request may also end in an exception: no TM is connected, no lock can  *)
(* be had, or a late answer to an earlier request is taken for this one's.  *)
(* How a thread waits for an answer, and when one fails to reach it, is the *)
(* subject of LockContext; which TM handles a message is left open.        *)
(***************************************************************************)
EXTENDS Naturals

CONSTANTS N,           \* number of joining branches
          Caller,      \* Caller[j] is the branch whose business method calls j
          Propagates,  \* branches whose business method lets a failed RPC fail it
          Fragile      \* branches whose database connection may break

Starter  == 0
Joiners  == 1 .. N
Branches == 0 .. N

ASSUME NAssumption == N \in Nat
ASSUME CallerAssumption ==
  /\ Caller \in [Joiners -> Branches]
  /\ \A j \in Joiners : Caller[j] < j
ASSUME EnvironmentAssumption == Propagates \subseteq Branches /\ Fragile \subseteq Branches

VARIABLES
  pc,        \* where the aspect around each branch's business method is
  ok,        \* TransactionInfo.successReturn of each branch
  callee,    \* the joiner a branch is blocked on, 0 when it is on none
  work,      \* what became of the branch's database connection
  group,     \* the transaction group stored under the group id in Redis
  requests,  \* messages sent to the TM that no handler has taken yet
  handling,  \* join and notify handlers between their GET and their SET
  replies,   \* messages the TM has sent back to their sender
  events     \* TransactionCommitEvents on their way to a joiner

tcVars == <<pc, ok, callee, work>>
tmVars == <<group, requests, handling, replies, events>>
vars   == <<pc, ok, callee, work, group, requests, handling, replies, events>>

-----------------------------------------------------------------------------
(* Messages and the group record *)

CreateMsg    == [type |-> "create", from |-> Starter]
JoinMsg(j)   == [type |-> "join",   from |-> j]
NotifyMsg(s) == [type |-> "notify", from |-> Starter, success |-> s]

Message == {CreateMsg} \cup {JoinMsg(j) : j \in Joiners} \cup {NotifyMsg(s) : s \in BOOLEAN}

NoGroup == [state |-> "ABSENT", joined |-> {}]
Group   == {NoGroup} \cup [state : {"JOIN", "COMMIT", "ROLLBACK"}, joined : SUBSET Joiners]

(* Mutant: parser does not look at its flag. *)
ParserAlwaysCommit(flag) == "COMMIT"

(* TransactionState.parser *)
Parser(flag) == IF flag THEN "COMMIT" ELSE "ROLLBACK"

(* LcnCommitor.commit on a branch's connection: a connection that is not   *)
(* there, or no longer usable, is left as it is (an exception, swallowed   *)
(* or thrown, ends the step all the same).                                 *)
Committed(w, state) ==
  IF w # "open" THEN w ELSE IF state THEN "committed" ELSE "rolledBack"

-----------------------------------------------------------------------------
Init ==
  /\ pc       = [b \in Branches |-> IF b = Starter THEN "begin" ELSE "idle"]
  /\ ok       = [b \in Branches |-> FALSE]
  /\ callee   = [b \in Branches |-> 0]
  /\ work     = [b \in Branches |-> "none"]
  /\ group    = NoGroup
  /\ requests = {} /\ handling = {} /\ replies = {} /\ events = {}

Goto(b, l) == pc' = [pc EXCEPT ![b] = l]
Send(m)    == requests' = requests \cup {m}

-----------------------------------------------------------------------------
(* TC: the starter creates the group (TransactionStepCreate) *)

SendCreate ==
  /\ pc[Starter] = "begin"
  /\ Send(CreateMsg)
  /\ Goto(Starter, "creating")
  /\ UNCHANGED <<ok, callee, work, group, handling, replies, events>>

CreateAnswered ==
  /\ pc[Starter] = "creating"
  /\ CreateMsg \in replies
  /\ Goto(Starter, "business")
  /\ UNCHANGED <<ok, callee, work, tmVars>>

(* The exception, of the request or of run, reaches the aspect: no          *)
(* business, but the group is still notified of the failure.               *)
CreateFails ==
  /\ pc[Starter] \in {"begin", "creating"}
  /\ Goto(Starter, "notify")
  /\ UNCHANGED <<ok, callee, work, tmVars>>

-----------------------------------------------------------------------------
(* TC: the business method of a branch *)

(* Its local transaction ends: the commit or rollback is intercepted and   *)
(* the connection is kept for the group.                                   *)
HoldConnection(b) ==
  /\ pc[b] \in {"business", "unwinding"}
  /\ callee[b] = 0
  /\ work[b] = "none"
  /\ work' = [work EXCEPT ![b] = "open"]
  /\ UNCHANGED <<pc, ok, callee, tmVars>>

Call(b, j) ==
  /\ pc[b] = "business"
  /\ callee[b] = 0
  /\ Caller[j] = b
  /\ pc[j] = "idle"
  /\ callee' = [callee EXCEPT ![b] = j]
  /\ Goto(j, "business")
  /\ UNCHANGED <<ok, work, tmVars>>

(* Mutant: the aspect starts the join and returns before it is answered. *)
ReturnedBeforeJoin(j) ==
  ok[j] /\ pc[j] \in {"joining", "failed", "joined", "waiting", "inDoubt", "done"}

(* Mutant: the aspect does not throw the business method's exception again. *)
ReturnedWhateverHappened(j) == pc[j] \in {"joined", "waiting", "inDoubt", "done"}

(* A joiner's method returns only after it has joined the group. *)
Returned(j) == ok[j] /\ pc[j] \in {"joined", "waiting", "inDoubt", "done"}

RpcReturns(b) ==
  /\ callee[b] # 0
  /\ Returned(callee[b])
  /\ callee' = [callee EXCEPT ![b] = 0]
  /\ UNCHANGED <<pc, ok, work, tmVars>>

(* The callee failed, or the RPC framework gave up on it while it runs on. *)
RpcFails(b) ==
  /\ callee[b] # 0
  /\ callee' = [callee EXCEPT ![b] = 0]
  /\ Goto(b, IF b \in Propagates THEN "unwinding" ELSE "business")
  /\ UNCHANGED <<ok, work, tmVars>>

(* TransactionContext.tryEndTransaction: CREATE turns into NOTIFY, a       *)
(* called branch joins.                                                    *)
EndStep(b) == IF b = Starter THEN "notify" ELSE "join"

BusinessSucceeds(b) ==
  /\ pc[b] = "business"
  /\ callee[b] = 0
  /\ ok' = [ok EXCEPT ![b] = TRUE]
  /\ Goto(b, EndStep(b))
  /\ UNCHANGED <<callee, work, tmVars>>

BusinessFails(b) ==
  /\ pc[b] \in {"business", "unwinding"}
  /\ callee[b] = 0
  /\ Goto(b, EndStep(b))
  /\ UNCHANGED <<ok, callee, work, tmVars>>

-----------------------------------------------------------------------------
(* TC: a called branch joins the group (TransactionStepJoin) *)

SendJoin(j) ==
  /\ pc[j] = "join"
  /\ Send(JoinMsg(j))
  /\ Goto(j, "joining")
  /\ UNCHANGED <<ok, callee, work, group, handling, replies, events>>

JoinAnswered(j) ==
  /\ pc[j] = "joining"
  /\ JoinMsg(j) \in replies
  /\ Goto(j, "joined")
  /\ UNCHANGED <<ok, callee, work, tmVars>>

JoinTimedOut(j) ==
  /\ pc[j] = "joining"
  /\ work' = [work EXCEPT ![j] = Committed(@, FALSE)]
  /\ Goto(j, "failed")
  /\ UNCHANGED <<ok, callee, tmVars>>

(* The request's exception leaves run before the rollback: the branch fails *)
(* with its connection as it is.                                            *)
JoinThrows(j) ==
  /\ pc[j] \in {"join", "joining"}
  /\ Goto(j, "failed")
  /\ UNCHANGED <<ok, callee, work, tmVars>>

(* The executor's thread registers its lock.  Without database work there  *)
(* is no JdbcTransaction and the thread dies on it.                        *)
AwaitCommit(j) ==
  /\ pc[j] = "joined"
  /\ Goto(j, IF work[j] = "none" THEN "done" ELSE "waiting")
  /\ UNCHANGED <<ok, callee, work, tmVars>>

(* An event that finds no waiting lock is dropped. *)
CommitEventArrives(e) ==
  /\ e \in events
  /\ events' = events \ {e}
  /\ IF pc[e.to] = "waiting"
     THEN /\ work' = [work EXCEPT ![e.to] = Committed(@, e.commit)]
          /\ Goto(e.to, "done")
     ELSE UNCHANGED <<pc, work>>
  /\ UNCHANGED <<ok, callee, group, requests, handling, replies>>

(* Mutant: the wait has no timeout. *)
AwaitForever(j) == pc[j] = "waiting" /\ UNCHANGED vars

(* No event within maxWaitTransactionTime, or no lock to wait on: the       *)
(* thread ends and leaves the connection as it is.                         *)
AwaitEnds(j) ==
  /\ pc[j] = "waiting" \/ (pc[j] = "joined" /\ work[j] # "none")
  /\ Goto(j, "inDoubt")
  /\ UNCHANGED <<ok, callee, work, tmVars>>

-----------------------------------------------------------------------------
(* TC: the starter notifies the group (TransactionStepNotify) *)

SendNotify ==
  /\ pc[Starter] = "notify"
  /\ Send(NotifyMsg(ok[Starter]))
  /\ Goto(Starter, "notifying")
  /\ UNCHANGED <<ok, callee, work, group, handling, replies, events>>

(* Mutant: any answer makes the starter commit. *)
NotifyAnsweredCommits ==
  /\ pc[Starter] = "notifying"
  /\ \E s \in BOOLEAN : NotifyMsg(s) \in replies
  /\ work' = [work EXCEPT ![Starter] = Committed(@, TRUE)]
  /\ Goto(Starter, "done")
  /\ UNCHANGED <<ok, callee, tmVars>>

NotifyAnswered ==
  /\ pc[Starter] = "notifying"
  /\ \E s \in BOOLEAN :
       /\ NotifyMsg(s) \in replies
       /\ work' = [work EXCEPT ![Starter] = Committed(@, s /\ ok[Starter])]
  /\ Goto(Starter, "done")
  /\ UNCHANGED <<ok, callee, tmVars>>

(* A successful starter tries again until it is answered. *)
NotifyRetried ==
  /\ pc[Starter] = "notifying"
  /\ ok[Starter]
  /\ Send(NotifyMsg(ok[Starter]))
  /\ UNCHANGED <<tcVars, group, handling, replies, events>>

NotifyTimedOut ==
  /\ pc[Starter] = "notifying"
  /\ ~ok[Starter]
  /\ work' = [work EXCEPT ![Starter] = Committed(@, FALSE)]
  /\ Goto(Starter, "done")
  /\ UNCHANGED <<ok, callee, tmVars>>

(* An exception ends the step and its retries: the starter neither commits  *)
(* nor rolls back, whatever the TM has made of the group.                   *)
NotifyThrows ==
  /\ pc[Starter] \in {"notify", "notifying"}
  /\ Goto(Starter, "failed")
  /\ UNCHANGED <<ok, callee, work, tmVars>>

-----------------------------------------------------------------------------
(* The database drops a connection: its work is rolled back there. *)
ConnectionBreaks(b) ==
  /\ b \in Fragile
  /\ work[b] = "open"
  /\ work' = [work EXCEPT ![b] = "rolledBack"]
  /\ UNCHANGED <<pc, ok, callee, tmVars>>

-----------------------------------------------------------------------------
(* TM: the handlers; join and notify are a GET and a SET that other        *)
(* handlers may come between.                                              *)

HandleCreate ==
  /\ CreateMsg \in requests
  /\ requests' = requests \ {CreateMsg}
  /\ group' = [state |-> "JOIN", joined |-> {}]
  /\ replies' = replies \cup {CreateMsg}
  /\ UNCHANGED <<tcVars, handling, events>>

(* Mutant: the join handler answers before it has stored the group. *)
ReadGroupAndAnswer(m) ==
  /\ m \in requests
  /\ m.type \in {"join", "notify"}
  /\ requests' = requests \ {m}
  /\ handling' = handling \cup {[msg |-> m, seen |-> group]}
  /\ replies' = IF m.type = "join" THEN replies \cup {m} ELSE replies
  /\ UNCHANGED <<tcVars, group, events>>

ReadGroup(m) ==
  /\ m \in requests
  /\ m.type \in {"join", "notify"}
  /\ requests' = requests \ {m}
  /\ handling' = handling \cup {[msg |-> m, seen |-> group]}
  /\ UNCHANGED <<tcVars, group, replies, events>>

(* Mutant: the join handler starts a new list of joiners. *)
WriteJoinAlone(h) ==
  /\ h.msg.type = "join"
  /\ handling' = handling \ {h}
  /\ group' = IF h.seen = NoGroup THEN group ELSE [h.seen EXCEPT !.joined = {h.msg.from}]
  /\ replies' = replies \cup {h.msg}
  /\ UNCHANGED <<tcVars, requests, events>>

WriteJoin(h) ==
  /\ h.msg.type = "join"
  /\ handling' = handling \ {h}
  /\ group' = IF h.seen = NoGroup THEN group
              ELSE [h.seen EXCEPT !.joined = @ \cup {h.msg.from}]
  /\ replies' = replies \cup {h.msg}
  /\ UNCHANGED <<tcVars, requests, events>>

(* Mutant: the notify handler tells the joiners but does not store the group. *)
WriteNotifyUnstored(h) ==
  /\ h.msg.type = "notify"
  /\ handling' = handling \ {h}
  /\ events' = events \cup {[to |-> j, commit |-> h.msg.success] : j \in h.seen.joined}
  /\ replies' = replies \cup {h.msg}
  /\ UNCHANGED <<tcVars, group, requests>>

(* Mutant: the notify handler answers only when the group is missing. *)
WriteNotifyUnanswered(h) ==
  /\ h.msg.type = "notify"
  /\ handling' = handling \ {h}
  /\ IF h.seen = NoGroup
     THEN replies' = replies \cup {h.msg} /\ UNCHANGED <<group, events>>
     ELSE /\ group' = [h.seen EXCEPT !.state = Parser(h.msg.success)]
          /\ events' = events \cup {[to |-> j, commit |-> group'.state = "COMMIT"] :
                                      j \in h.seen.joined}
          /\ UNCHANGED replies
  /\ UNCHANGED <<tcVars, requests>>

WriteNotify(h) ==
  /\ h.msg.type = "notify"
  /\ handling' = handling \ {h}
  /\ IF h.seen = NoGroup
     THEN UNCHANGED <<group, events>>
     ELSE /\ group' = [h.seen EXCEPT !.state = Parser(h.msg.success)]
          /\ events' = events \cup {[to |-> j, commit |-> group'.state = "COMMIT"] :
                                      j \in h.seen.joined}
  /\ replies' = replies \cup {h.msg}
  /\ UNCHANGED <<tcVars, requests>>

-----------------------------------------------------------------------------
StarterStep == SendCreate \/ CreateAnswered \/ CreateFails
               \/ SendNotify \/ NotifyAnswered \/ NotifyRetried \/ NotifyTimedOut \/ NotifyThrows

BusinessStep(b) == \/ HoldConnection(b) \/ RpcReturns(b) \/ RpcFails(b)
                   \/ BusinessSucceeds(b) \/ BusinessFails(b)
                   \/ \E j \in Joiners : Call(b, j)

JoinerStep(j) == SendJoin(j) \/ JoinAnswered(j) \/ JoinTimedOut(j) \/ JoinThrows(j)
                 \/ AwaitCommit(j) \/ AwaitEnds(j)

ManagerStep == \/ HandleCreate
               \/ \E m \in requests : ReadGroup(m)
               \/ \E h \in handling : WriteJoin(h) \/ WriteNotify(h)

(* Nothing is left to do: every branch has ended and no message is left. *)
Quiescent ==
  /\ pc[Starter] \in {"failed", "done"}
  /\ \A j \in Joiners : pc[j] \in {"idle", "failed", "inDoubt", "done"}
  /\ \A b \in Branches : callee[b] = 0
  /\ requests = {} /\ handling = {} /\ events = {}

Finished == Quiescent /\ UNCHANGED vars

Next == \/ StarterStep
        \/ \E b \in Branches : BusinessStep(b)
        \/ \E j \in Joiners : JoinerStep(j)
        \/ \E e \in events : CommitEventArrives(e)
        \/ \E b \in Branches : ConnectionBreaks(b)
        \/ ManagerStep
        \/ Finished

Spec == Init /\ [][Next]_vars

(* The TC's threads run: a business method ends, an RPC returns or times    *)
(* out, and a timed wait ends.  The TM may be down.                        *)
TcFairness ==
  /\ WF_vars(SendCreate) /\ WF_vars(CreateFails) /\ WF_vars(SendNotify)
  /\ WF_vars(NotifyTimedOut)
  /\ \A b \in Branches : /\ WF_vars(BusinessFails(b))
                         /\ WF_vars(RpcFails(b))
  /\ \A j \in Joiners : /\ WF_vars(SendJoin(j)) /\ WF_vars(JoinTimedOut(j))
                        /\ WF_vars(AwaitCommit(j)) /\ WF_vars(AwaitEnds(j))

(* The TM handles notify messages, and a starter that keeps asking gets an  *)
(* answer within the time it waits for one.                                *)
TmFairness ==
  /\ WF_vars(\E s \in BOOLEAN : ReadGroup(NotifyMsg(s)))
  /\ WF_vars(\E h \in handling : WriteNotify(h))
  /\ SF_vars(NotifyAnswered)

FairSpec == Spec /\ TcFairness

-----------------------------------------------------------------------------
(* Properties.  Where a property needs it, "failures propagate" means       *)
(* Propagates = Branches and "connections hold" means Fragile = {}.         *)

States == {"begin", "creating", "idle", "business", "unwinding", "join", "joining",
           "joined", "waiting", "inDoubt", "failed", "notify", "notifying", "done"}

(* Every variable holds a value the code can give it. *)
TypeOK ==
  /\ pc \in [Branches -> States]
  /\ ok \in [Branches -> BOOLEAN]
  /\ callee \in [Branches -> Branches]
  /\ work \in [Branches -> {"none", "open", "committed", "rolledBack"}]
  /\ group \in Group
  /\ requests \subseteq Message
  /\ handling \subseteq [msg : Message, seen : Group]
  /\ replies \subseteq Message
  /\ events \subseteq [to : Joiners, commit : BOOLEAN]

Is(b, fate) == work[b] = fate

(* When failures propagate and connections hold, no branch of a group is    *)
(* committed while another one is rolled back: what @LcnTransaction is for. *)
Agreement == \A a, b \in Branches : ~(Is(a, "committed") /\ Is(b, "rolledBack"))

(* Whatever breaks and whoever swallows failures, no branch commits for a   *)
(* starter whose own business method did not succeed.                       *)
NoCommitAfterFailure == (\E b \in Branches : Is(b, "committed")) => ok[Starter]

(* When failures propagate, a branch whose own business method failed never *)
(* commits what it did before it failed, although the rollback of its local *)
(* transaction only keeps the connection for the group.                     *)
NoFailedBranchCommits == \A b \in Branches : Is(b, "committed") => ok[b]

(* When failures propagate, the TM's record says COMMIT as soon as any      *)
(* branch has committed: late join handlers do not write an older one back. *)
CommitKnownToTm == (\E b \in Branches : Is(b, "committed")) => group.state = "COMMIT"

(* When failures propagate, a group recorded as COMMIT lists every branch   *)
(* that was ever called: no join was lost between a GET and a SET, so the   *)
(* notify handler tells all of them.                                        *)
CommittedGroupIsComplete ==
  group.state = "COMMIT" => group.joined = {j \in Joiners : pc[j] # "idle"}

(* When failures propagate, the record of a committed group never changes.  *)
CommitStands == [][group.state = "COMMIT" => group' = group]_vars

Ended(b) == pc[b] \in {"idle", "failed", "inDoubt", "done"}

(* With or without a TM, every called branch ends, and so does a starter    *)
(* whose business method failed: none of them waits for ever.               *)
NobodyHangsWithoutTm ==
  /\ \A j \in Joiners : []<>Ended(j)
  /\ <>[](ok[Starter] \/ Ended(Starter))

(* A starter that keeps asking a TM that answers comes to its end, and it   *)
(* does not end with its connection open beside a joiner that committed,    *)
(* unless an exception has taken it out of its notify step.                 *)
StarterFollows ==
  TmFairness => <>[](/\ Ended(Starter)
                     /\ \/ pc[Starter] = "failed"
                        \/ ~Is(Starter, "open")
                        \/ \A j \in Joiners : ~Is(j, "committed"))

Decided == pc[Starter] \in {"notify", "notifying", "failed", "done"}

Decision == IF ~Decided THEN "none"
            ELSE IF ok[Starter] THEN "commit" ELSE "rollback"

Outcome == [b \in Branches |-> IF work[b] \in {"none", "open"} THEN "working" ELSE work[b]]

Abstract == INSTANCE GroupCommit WITH decision <- Decision, outcome <- Outcome

(* When failures propagate and connections hold, the protocol implements    *)
(* the abstract group commit: one decision, and no branch ends against it.  *)
ImplementsGroupCommit == Abstract!Spec

-----------------------------------------------------------------------------
(* The inductive invariant behind Agreement and ImplementsGroupCommit.       *)

BusinessOver == {"join", "joining", "joined", "waiting", "inDoubt", "failed",
                 "notify", "notifying", "done"}

(* Which states belong to which kind of branch, and what they say of the   *)
(* branch's callee and result.                                             *)
ControlOK ==
  /\ pc[Starter] \in {"begin", "creating", "business", "unwinding"}
                      \cup {"notify", "notifying", "failed", "done"}
  /\ \A j \in Joiners : pc[j] \notin {"begin", "creating", "notify", "notifying"}
  /\ \A b \in Branches : callee[b] # 0 => pc[b] = "business" /\ Caller[callee[b]] = b
  /\ \A b \in Branches : ok[b] => pc[b] \in BusinessOver

(* Everything on its way to or from the TM tells the starter's result. *)
MessagesTellTheResult ==
  /\ \A s \in BOOLEAN : /\ NotifyMsg(s) \in requests \cup replies => Decided /\ s = ok[Starter]
                        /\ \A h \in handling : h.msg = NotifyMsg(s) => Decided /\ s = ok[Starter]
  /\ \A e \in events : Decided /\ e.commit = ok[Starter]

CommittedAsDecided == \A b \in Branches : Is(b, "committed") => Decided /\ ok[Starter]

(* A branch whose method is bound to fail. *)
Failing(b) == pc[b] = "unwinding" \/ (pc[b] \in BusinessOver /\ ~ok[b])

(* A called joiner that has not returned successfully holds its caller back, *)
(* or has failed it.                                                         *)
UnfinishedHoldsCaller ==
  \A j \in Joiners : pc[j] # "idle" /\ ~Returned(j) =>
    callee[Caller[j]] = j \/ Failing(Caller[j])

RolledBackHasReason ==
  \A b \in Branches : Is(b, "rolledBack") =>
    (b \in Joiners /\ pc[b] = "failed") \/ (Decided /\ ~ok[Starter])

(* Holds in every environment. *)
DecisionInv == TypeOK /\ ControlOK /\ MessagesTellTheResult /\ CommittedAsDecided

(* Holds when failures propagate and connections hold. *)
AgreementInv == DecisionInv /\ UnfinishedHoldsCaller /\ RolledBackHasReason
=============================================================================
