-------------------------- MODULE LcnRecordProofs ---------------------------
(***************************************************************************)
(* Proofs about the group record the TM keeps, when failures propagate:     *)
(* although the join and notify handlers read the record and write it back  *)
(* later, no handler of a group that commits loses what another has written.*)
(* While nothing has failed the call tree runs one branch at a time, so     *)
(* that only one join is on its way; and a group that has seen a failure is *)
(* never told to commit.                                                    *)
(***************************************************************************)
EXTENDS LcnTransactionProofs

Unfinished(j) == pc[j] # "idle" /\ ~Returned(j)

(* A joiner whose join failed. *)
GaveUp(b) == b \in Joiners /\ pc[b] = "failed"

(* Something failed: the starter will be told, or has failed itself. *)
Doomed == \E b \in Branches : Failing(b) \/ GaveUp(b)

(* The branch whose turn it is: it is not blocked on one that still runs. *)
Tip(b) == /\ b = Starter \/ Unfinished(b)
          /\ callee[b] = 0 \/ Returned(callee[b])

OneTip == \A a, b \in Branches : Tip(a) /\ Tip(b) => a = b

(* A COMMIT in the record, or in a handler's copy of it, was decided. *)
CommitMeansDecided ==
  /\ group.state = "COMMIT" => Decided /\ ok[Starter]
  /\ \A h \in handling : h.seen.state = "COMMIT" => Decided /\ ok[Starter]

(* The group is created before any branch is called, and only then. *)
CreateOK ==
  /\ pc[Starter] \in {"begin", "creating"} => \A j \in Joiners : pc[j] = "idle"
  /\ CreateMsg \in requests => pc[Starter] = "creating" /\ CreateMsg \notin replies
  /\ CreateMsg \in replies => pc[Starter] # "begin" /\ group # NoGroup
  /\ pc[Starter] \notin {"begin", "creating"} => CreateMsg \in replies

(* A join on its way belongs to a branch that waits for it, and a handler's *)
(* copy of the record is the record; an answered join is in it.             *)
JoinsOK ==
  /\ \A j \in Joiners :
       /\ JoinMsg(j) \in requests => /\ pc[j] = "joining" /\ JoinMsg(j) \notin replies
                                     /\ \A h \in handling : h.msg # JoinMsg(j)
       /\ JoinMsg(j) \in replies =>
            j \in group.joined /\ pc[j] \in {"joining", "joined", "waiting", "inDoubt", "done"}
       /\ pc[j] \in {"joined", "waiting", "inDoubt", "done"} => JoinMsg(j) \in replies
  /\ \A h \in handling : h.msg.type = "join" =>
       pc[h.msg.from] = "joining" /\ h.msg \notin replies /\ h.seen = group
  /\ \A j \in group.joined : pc[j] # "idle"

(* A notify handler's copy lists the joiners of the record, and what anyone *)
(* has heard or done of the decision is in the record.                      *)
NotifyOK ==
  /\ \A h \in handling : h.msg.type = "notify" => h.seen # NoGroup /\ h.seen.joined = group.joined
  /\ events # {} => group.state = "COMMIT"
  /\ \A s \in BOOLEAN : NotifyMsg(s) \in replies => group.state = "COMMIT"
  /\ \A b \in Branches : Is(b, "committed") => group.state = "COMMIT"

CalledHasWork == \A b \in Branches : work[b] # "none" => pc[b] # "idle"

RecordInv == /\ DecisionInv /\ UnfinishedHoldsCaller /\ CalledHasWork /\ CommitMeansDecided
             /\ ~Doomed => OneTip /\ CreateOK /\ JoinsOK /\ NotifyOK

-----------------------------------------------------------------------------
(* A group that commits has seen no failure *)

LEMMA CommitMeansSound ==
  ASSUME TypeOK, ControlOK, UnfinishedHoldsCaller, Decided, ok[Starter]
  PROVE  ~Doomed
<1> SUFFICES ASSUME NEW b \in Branches, Failing(b) \/ GaveUp(b) PROVE FALSE
  BY DEF Doomed
<1>1. CASE b = Starter
  BY <1>1, BranchFacts DEF Failing, GaveUp, Decided
<1>2. CASE b \in Joiners
  <2>1. pc[b] # "idle"
    BY DEF Failing, GaveUp, BusinessOver
  <2>2. Returned(b)
    BY <1>2, <2>1, DecidedMeansReturned
  <2> QED  BY <2>2 DEF Returned, Failing, GaveUp
<1> QED  BY <1>1, <1>2, BranchFacts

(* A failure stays one. *)
LEMMA DoomedStable ==
  ASSUME DecisionInv, [Next]_vars, Doomed
  PROVE  Doomed'
<1> PICK b \in Branches : Failing(b) \/ GaveUp(b)
  BY DEF Doomed
<1> DEFINE Goal == (Failing(b) \/ GaveUp(b))'
<1>1. SUFFICES Goal
  BY DEF Doomed
<1> USE BranchFacts DEF DecisionInv, TypeOK, ControlOK, Goto, tcVars, tmVars, Failing, GaveUp, BusinessOver
<1>2. CASE UNCHANGED <<pc, ok>>
  BY <1>2
<1>3. CASE StarterStep
  <2>1. CASE SendCreate      BY <2>1 DEF SendCreate
  <2>2. CASE CreateAnswered  BY <2>2 DEF CreateAnswered
  <2>3. CASE CreateFails  BY <2>3 DEF CreateFails
  <2>4. CASE SendNotify      BY <2>4 DEF SendNotify
  <2>5. CASE NotifyAnswered  BY <2>5 DEF NotifyAnswered
  <2>6. CASE NotifyRetried   BY <2>6 DEF NotifyRetried
  <2>7. CASE NotifyTimedOut  BY <2>7 DEF NotifyTimedOut
  <2>8. CASE NotifyThrows  BY <2>8 DEF NotifyThrows
  <2> QED  BY <1>3, <2>1, <2>2, <2>3, <2>4, <2>5, <2>6, <2>7, <2>8 DEF StarterStep
<1>4. ASSUME NEW c \in Branches, BusinessStep(c) PROVE Goal
  <2>1. CASE HoldConnection(c)    BY <2>1 DEF HoldConnection
  <2>2. CASE RpcReturns(c)        BY <2>2 DEF RpcReturns
  <2>3. CASE RpcFails(c)          BY <2>3 DEF RpcFails
  <2>4. CASE BusinessSucceeds(c)  BY <2>4 DEF BusinessSucceeds, EndStep
  <2>5. CASE BusinessFails(c)     BY <2>5 DEF BusinessFails, EndStep
  <2>6. ASSUME NEW j \in Joiners, Call(c, j) PROVE Goal  BY <2>6 DEF Call
  <2> QED  BY <1>4, <2>1, <2>2, <2>3, <2>4, <2>5, <2>6 DEF BusinessStep
<1>5. ASSUME NEW j \in Joiners, JoinerStep(j) PROVE Goal
  <2>1. CASE SendJoin(j)       BY <2>1 DEF SendJoin
  <2>2. CASE JoinAnswered(j)   BY <2>2 DEF JoinAnswered
  <2>3. CASE JoinTimedOut(j)   BY <2>3 DEF JoinTimedOut
  <2>4. CASE AwaitCommit(j)    BY <2>4 DEF AwaitCommit
  <2>5. CASE AwaitEnds(j)  BY <2>5 DEF AwaitEnds
  <2>6. CASE JoinThrows(j)  BY <2>6 DEF JoinThrows
  <2> QED  BY <1>5, <2>1, <2>2, <2>3, <2>4, <2>5, <2>6 DEF JoinerStep
<1>6. ASSUME NEW e \in events, CommitEventArrives(e) PROVE Goal
  BY <1>6 DEF CommitEventArrives
<1>7. ASSUME NEW c \in Branches, ConnectionBreaks(c) PROVE Goal
  BY <1>2, <1>7 DEF ConnectionBreaks
<1>8. CASE ManagerStep
  BY <1>2, <1>8 DEF ManagerStep, HandleCreate, ReadGroup, WriteJoin, WriteNotify
<1>9. CASE UNCHANGED vars
  BY <1>2, <1>9 DEF vars
<1> QED  BY <1>3, <1>4, <1>5, <1>6, <1>7, <1>8, <1>9 DEF Next, Finished

-----------------------------------------------------------------------------
LEMMA CalledHasWorkStep == DecisionInv /\ CalledHasWork /\ [Next]_vars => CalledHasWork'
<1> SUFFICES ASSUME DecisionInv, CalledHasWork, [Next]_vars PROVE CalledHasWork'
  OBVIOUS
<1> USE BranchFacts DEF DecisionInv, TypeOK, ControlOK, CalledHasWork, Goto, tcVars, tmVars
<1>1. CASE StarterStep
  <2>1. CASE SendCreate      BY <2>1 DEF SendCreate
  <2>2. CASE CreateAnswered  BY <2>2 DEF CreateAnswered
  <2>3. CASE CreateFails  BY <2>3 DEF CreateFails
  <2>4. CASE SendNotify      BY <2>4 DEF SendNotify
  <2>5. CASE NotifyAnswered  BY <2>5 DEF NotifyAnswered
  <2>6. CASE NotifyRetried   BY <2>6 DEF NotifyRetried
  <2>7. CASE NotifyTimedOut  BY <2>7 DEF NotifyTimedOut
  <2>8. CASE NotifyThrows  BY <2>8 DEF NotifyThrows
  <2> QED  BY <1>1, <2>1, <2>2, <2>3, <2>4, <2>5, <2>6, <2>7, <2>8 DEF StarterStep
<1>2. ASSUME NEW c \in Branches, BusinessStep(c) PROVE CalledHasWork'
  <2>1. CASE HoldConnection(c)    BY <2>1 DEF HoldConnection
  <2>2. CASE RpcReturns(c)        BY <2>2 DEF RpcReturns
  <2>3. CASE RpcFails(c)          BY <2>3 DEF RpcFails
  <2>4. CASE BusinessSucceeds(c)  BY <2>4 DEF BusinessSucceeds, EndStep
  <2>5. CASE BusinessFails(c)     BY <2>5 DEF BusinessFails, EndStep
  <2>6. ASSUME NEW j \in Joiners, Call(c, j) PROVE CalledHasWork'  BY <2>6 DEF Call
  <2> QED  BY <1>2, <2>1, <2>2, <2>3, <2>4, <2>5, <2>6 DEF BusinessStep
<1>3. ASSUME NEW j \in Joiners, JoinerStep(j) PROVE CalledHasWork'
  <2>1. CASE SendJoin(j)       BY <2>1 DEF SendJoin
  <2>2. CASE JoinAnswered(j)   BY <2>2 DEF JoinAnswered
  <2>3. CASE JoinTimedOut(j)   BY <2>3 DEF JoinTimedOut
  <2>4. CASE AwaitCommit(j)    BY <2>4 DEF AwaitCommit
  <2>5. CASE AwaitEnds(j)  BY <2>5 DEF AwaitEnds
  <2>6. CASE JoinThrows(j)  BY <2>6 DEF JoinThrows
  <2> QED  BY <1>3, <2>1, <2>2, <2>3, <2>4, <2>5, <2>6 DEF JoinerStep
<1>4. ASSUME NEW e \in events, CommitEventArrives(e) PROVE CalledHasWork'
  BY <1>4 DEF CommitEventArrives
<1>5. ASSUME NEW c \in Branches, ConnectionBreaks(c) PROVE CalledHasWork'
  BY <1>5 DEF ConnectionBreaks
<1>6. CASE ManagerStep
  BY <1>6 DEF ManagerStep, HandleCreate, ReadGroup, WriteJoin, WriteNotify
<1>7. CASE UNCHANGED vars
  BY <1>7 DEF vars
<1> QED  BY <1>1, <1>2, <1>3, <1>4, <1>5, <1>6, <1>7 DEF Next, Finished

-----------------------------------------------------------------------------
(* What the handlers do to a record *)

LEMMA GroupForm ==
  /\ NoGroup.state = "ABSENT" /\ NoGroup.joined = {}
  /\ \A g \in Group : g # NoGroup => g.state \in {"JOIN", "COMMIT", "ROLLBACK"}
  /\ \A g, h \in Group : g.state = h.state /\ g.joined = h.joined => g = h
  /\ \A g \in Group, j \in Joiners : g # NoGroup =>
       /\ [g EXCEPT !.joined = @ \cup {j}].state = g.state
       /\ [g EXCEPT !.joined = @ \cup {j}].joined = g.joined \cup {j}
  /\ \A g \in Group, f \in BOOLEAN : g # NoGroup =>
       /\ [g EXCEPT !.state = Parser(f)].state = Parser(f)
       /\ [g EXCEPT !.state = Parser(f)].joined = g.joined
BY DEF Group, NoGroup

LEMMA JoinWrite ==
  ASSUME TypeOK, NEW h \in handling, WriteJoin(h)
  PROVE  /\ h.msg.from \in Joiners /\ h.msg = JoinMsg(h.msg.from) /\ h.seen \in Group
         /\ h.seen = NoGroup => group' = group
         /\ h.seen # NoGroup => /\ group' # NoGroup
                                /\ group'.state = h.seen.state
                                /\ group'.joined = h.seen.joined \cup {h.msg.from}
<1>1. h.msg \in Message /\ h.seen \in Group
  BY DEF TypeOK
<1>2. h.msg.from \in Joiners /\ h.msg = JoinMsg(h.msg.from)
  BY <1>1, MessageTypes DEF WriteJoin
<1>3. h.seen = NoGroup => group' = group
  BY DEF WriteJoin
<1>4. h.seen # NoGroup => group' = [h.seen EXCEPT !.joined = @ \cup {h.msg.from}]
  BY DEF WriteJoin
<1>5. h.seen # NoGroup => /\ group'.state = h.seen.state
                          /\ group'.joined = h.seen.joined \cup {h.msg.from}
  <2> SUFFICES ASSUME h.seen # NoGroup
               PROVE  /\ group'.state = h.seen.state
                      /\ group'.joined = h.seen.joined \cup {h.msg.from}
    OBVIOUS
  <2>1. [h.seen EXCEPT !.joined = @ \cup {h.msg.from}].state = h.seen.state
    BY <1>1, <1>2, GroupForm, Zenon
  <2>2. [h.seen EXCEPT !.joined = @ \cup {h.msg.from}].joined = h.seen.joined \cup {h.msg.from}
    BY <1>1, <1>2, GroupForm, Zenon
  <2> QED  BY <1>4, <2>1, <2>2, Zenon
<1>6. h.seen # NoGroup => group' # NoGroup
  BY <1>5, GroupForm
<1> QED  BY <1>1, <1>2, <1>3, <1>5, <1>6

LEMMA NotifyWrite ==
  ASSUME TypeOK, NEW h \in handling, WriteNotify(h)
  PROVE  /\ h.msg.success \in BOOLEAN /\ h.msg = NotifyMsg(h.msg.success) /\ h.seen \in Group
         /\ h.seen = NoGroup => UNCHANGED <<group, events>>
         /\ h.seen # NoGroup => /\ group' # NoGroup
                                /\ group'.state = Parser(h.msg.success)
                                /\ group'.joined = h.seen.joined
<1>1. h.msg \in Message /\ h.seen \in Group
  BY DEF TypeOK
<1>2. h.msg.success \in BOOLEAN /\ h.msg = NotifyMsg(h.msg.success)
  BY <1>1, MessageTypes DEF WriteNotify
<1>3. h.seen = NoGroup => UNCHANGED <<group, events>>
  BY DEF WriteNotify
<1>4. h.seen # NoGroup => group' = [h.seen EXCEPT !.state = Parser(h.msg.success)]
  BY DEF WriteNotify
<1>5. h.seen # NoGroup => /\ group'.state = Parser(h.msg.success)
                          /\ group'.joined = h.seen.joined
  <2> SUFFICES ASSUME h.seen # NoGroup
               PROVE  group'.state = Parser(h.msg.success) /\ group'.joined = h.seen.joined
    OBVIOUS
  <2>1. [h.seen EXCEPT !.state = Parser(h.msg.success)].state = Parser(h.msg.success)
    BY <1>1, <1>2, GroupForm, Zenon
  <2>2. [h.seen EXCEPT !.state = Parser(h.msg.success)].joined = h.seen.joined
    BY <1>1, <1>2, GroupForm, Zenon
  <2> QED  BY <1>4, <2>1, <2>2, Zenon
<1>6. h.seen # NoGroup => group' # NoGroup
  BY <1>5, GroupForm DEF Parser
<1> QED  BY <1>1, <1>2, <1>3, <1>5, <1>6

LEMMA CommitMeansDecidedStep ==
  ASSUME DecisionInv, CommitMeansDecided, [Next]_vars
  PROVE  CommitMeansDecided'
<1> USE DEF CommitMeansDecided, tcVars, tmVars
<1>1. Decided /\ ok[Starter] => Decided' /\ ok'[Starter]
  BY DecisionStable
<1>2. CASE UNCHANGED <<group, handling>>
  BY <1>1, <1>2
<1>3. CASE StarterStep
  BY <1>2, <1>3 DEF StarterStep, SendCreate, CreateAnswered, CreateFails, SendNotify,
                    NotifyAnswered, NotifyRetried, NotifyTimedOut, NotifyThrows
<1>4. ASSUME NEW c \in Branches, BusinessStep(c) PROVE CommitMeansDecided'
  BY <1>2, <1>4 DEF BusinessStep, HoldConnection, RpcReturns, RpcFails, BusinessSucceeds,
                    BusinessFails, Call
<1>5. ASSUME NEW j \in Joiners, JoinerStep(j) PROVE CommitMeansDecided'
  BY <1>2, <1>5 DEF JoinerStep, SendJoin, JoinAnswered, JoinTimedOut, AwaitCommit, AwaitEnds, JoinThrows
<1>6. ASSUME NEW e \in events, CommitEventArrives(e) PROVE CommitMeansDecided'
  BY <1>2, <1>6 DEF CommitEventArrives
<1>7. ASSUME NEW c \in Branches, ConnectionBreaks(c) PROVE CommitMeansDecided'
  BY <1>2, <1>7 DEF ConnectionBreaks
<1>8. CASE HandleCreate
  <2>1. group'.state = "JOIN"  BY <1>8 DEF HandleCreate
  <2> QED  BY <1>1, <1>8, <2>1 DEF HandleCreate
<1>9. ASSUME NEW m \in requests, ReadGroup(m) PROVE CommitMeansDecided'
  <2>1. \A h \in handling' : h \in handling \/ h.seen = group
    BY <1>9 DEF ReadGroup
  <2> QED  BY <1>1, <1>9, <2>1 DEF ReadGroup
<1>10. ASSUME NEW h \in handling, WriteJoin(h) PROVE CommitMeansDecided'
  <2>1. group'.state \in {group.state, h.seen.state} /\ handling' \subseteq handling
    BY <1>10, JoinWrite DEF DecisionInv, WriteJoin
  <2> QED  BY <1>1, <1>10, <2>1
<1>11. ASSUME NEW h \in handling, WriteNotify(h) PROVE CommitMeansDecided'
  <2>1. handling' \subseteq handling
    BY <1>11 DEF WriteNotify
  <2>2. group' = group \/ group'.state = Parser(h.msg.success)
    BY <1>11, NotifyWrite DEF DecisionInv
  <2>3. h.msg.success \in BOOLEAN /\ h.msg = NotifyMsg(h.msg.success)
    BY <1>11, NotifyWrite DEF DecisionInv
  <2>4. Decided /\ h.msg.success = ok[Starter]
    BY <2>3 DEF DecisionInv, MessagesTellTheResult
  <2> QED  BY <1>1, <1>11, <2>1, <2>2, <2>4 DEF Parser
<1>12. CASE UNCHANGED vars
  BY <1>2, <1>12 DEF vars
<1> QED
  BY <1>3, <1>4, <1>5, <1>6, <1>7, <1>8, <1>9, <1>10, <1>11, <1>12 DEF Next, ManagerStep, Finished

-----------------------------------------------------------------------------
(* While nothing has failed, one branch runs at a time *)

LEMMA NotDoomed ==
  ASSUME ~Doomed
  PROVE  /\ \A b \in Branches : pc[b] # "unwinding" /\ ~GaveUp(b)
         /\ \A b \in Branches : pc[b] \in BusinessOver => ok[b]
BY DEF Doomed, Failing

LEMMA OneTipStep ==
  ASSUME Propagates = Branches, DecisionInv, UnfinishedHoldsCaller, OneTip,
         ~Doomed, ~Doomed', [Next]_vars
  PROVE  OneTip'
<1>1. /\ \A b \in Branches : pc[b] # "unwinding" /\ ~GaveUp(b)
      /\ \A b \in Branches : pc[b] \in BusinessOver => ok[b]
      /\ \A b \in Branches : pc'[b] # "unwinding" /\ ~GaveUp(b)'
      /\ \A b \in Branches : pc'[b] \in BusinessOver => ok'[b]
  BY NotDoomed DEF Doomed, Failing
<1>2. SUFFICES ASSUME NEW a \in Branches, NEW b \in Branches, Tip(a)', Tip(b)', a # b
               PROVE  FALSE
  BY DEF OneTip
<1>3. Tip(a) /\ Tip(b) => FALSE
  BY <1>2 DEF OneTip
<1> USE <1>2, BranchFacts DEF DecisionInv, TypeOK, ControlOK, Goto, tcVars, tmVars, Tip, Unfinished, Returned, GaveUp
<1>4. CASE UNCHANGED <<pc, ok, callee>>
  BY <1>3, <1>4
<1>5. CASE StarterStep
  <2>1. CASE SendCreate      BY <1>3, <2>1 DEF SendCreate
  <2>2. CASE CreateAnswered  BY <1>3, <2>2 DEF CreateAnswered
  <2>3. CASE CreateFails  BY <1>3, <2>3 DEF CreateFails
  <2>4. CASE SendNotify      BY <1>3, <2>4 DEF SendNotify
  <2>5. CASE NotifyAnswered  BY <1>3, <2>5 DEF NotifyAnswered
  <2>6. CASE NotifyRetried   BY <1>3, <2>6 DEF NotifyRetried
  <2>7. CASE NotifyTimedOut  BY <1>3, <2>7 DEF NotifyTimedOut
  <2>8. CASE NotifyThrows  BY <1>3, <2>8 DEF NotifyThrows
  <2> QED  BY <1>5, <2>1, <2>2, <2>3, <2>4, <2>5, <2>6, <2>7, <2>8 DEF StarterStep
<1>6. ASSUME NEW c \in Branches, BusinessStep(c) PROVE FALSE
  <2>1. CASE HoldConnection(c)    BY <1>4, <2>1 DEF HoldConnection
  <2>2. CASE RpcReturns(c)        BY <1>3, <2>2 DEF RpcReturns
  <2>3. CASE RpcFails(c)          BY <1>1, <2>3 DEF RpcFails
  <2>4. CASE BusinessSucceeds(c)  BY <1>3, <2>4 DEF BusinessSucceeds, EndStep
  <2>5. CASE BusinessFails(c)     BY <1>1, <2>5 DEF BusinessFails, EndStep, BusinessOver
  <2>6. ASSUME NEW j \in Joiners, Call(c, j) PROVE FALSE
    <3>1. Tip(c)
      BY <2>6 DEF Call
    <3>2. ASSUME NEW d \in Branches, Tip(d)', d # j PROVE FALSE
      <4>1. d # c
        BY <2>6, <3>2 DEF Call
      <4>2. Tip(d)
        BY <2>6, <3>2, <4>1 DEF Call
      <4> QED  BY <3>1, <4>1, <4>2 DEF OneTip
    <3> QED  BY <3>2
  <2> QED  BY <1>6, <2>1, <2>2, <2>3, <2>4, <2>5, <2>6 DEF BusinessStep
<1>7. ASSUME NEW j \in Joiners, JoinerStep(j) PROVE FALSE
  <2>1. CASE SendJoin(j)       BY <1>3, <2>1 DEF SendJoin
  <2>2. CASE JoinAnswered(j)
    <3>1. Tip(j)
      BY <2>2 DEF JoinAnswered
    <3>2. ASSUME NEW d \in Branches, Tip(d)' PROVE d = Caller[j]
      <4>1. ok[j]  BY <1>1, <2>2 DEF JoinAnswered, BusinessOver
      <4>2. d # j  BY <2>2, <3>2, <4>1 DEF JoinAnswered
      <4>3. ~Tip(d)  BY <3>1, <4>2 DEF OneTip
      <4>4. callee[d] = j  BY <2>2, <3>2, <4>2, <4>3 DEF JoinAnswered
      <4> QED  BY <4>4
    <3> QED  BY <3>2
  <2>3. CASE JoinTimedOut(j)   BY <1>1, <2>3 DEF JoinTimedOut
  <2>4. CASE AwaitCommit(j)    BY <1>3, <2>4 DEF AwaitCommit
  <2>5. CASE AwaitEnds(j)  BY <1>3, <2>5 DEF AwaitEnds
  <2>6. CASE JoinThrows(j)  BY <1>3, <2>6 DEF JoinThrows
  <2> QED  BY <1>7, <2>1, <2>2, <2>3, <2>4, <2>5, <2>6 DEF JoinerStep
<1>8. ASSUME NEW e \in events, CommitEventArrives(e) PROVE FALSE
  <2>1. CASE pc[e.to] # "waiting"
    BY <1>4, <1>8, <2>1 DEF CommitEventArrives
  <2>2. CASE pc[e.to] = "waiting"
    <3>1. e.to \in Branches /\ pc' = [pc EXCEPT ![e.to] = "done"] /\ UNCHANGED <<ok, callee>>
      BY <1>8, <2>2 DEF CommitEventArrives
    <3> QED  BY <1>3, <2>2, <3>1
  <2> QED  BY <2>1, <2>2
<1>9. ASSUME NEW c \in Branches, ConnectionBreaks(c) PROVE FALSE
  BY <1>4, <1>9 DEF ConnectionBreaks
<1>10. CASE ManagerStep
  BY <1>4, <1>10 DEF ManagerStep, HandleCreate, ReadGroup, WriteJoin, WriteNotify
<1>11. CASE UNCHANGED vars
  BY <1>4, <1>11 DEF vars
<1> QED  BY <1>5, <1>6, <1>7, <1>8, <1>9, <1>10, <1>11 DEF Next, Finished

-----------------------------------------------------------------------------
(* The group is created before any branch is called *)

LEMMA MessageKinds ==
  /\ CreateMsg.type = "create"
  /\ \A j \in Joiners : JoinMsg(j).type = "join" /\ JoinMsg(j).from = j
  /\ \A s \in BOOLEAN : NotifyMsg(s).type = "notify"
  /\ \A j \in Joiners : JoinMsg(j) # CreateMsg /\ \A s \in BOOLEAN : JoinMsg(j) # NotifyMsg(s)
  /\ \A s \in BOOLEAN : NotifyMsg(s) # CreateMsg
  /\ \A j, k \in Joiners : JoinMsg(j) = JoinMsg(k) => j = k
<1>1. /\ CreateMsg.type = "create"
      /\ \A j \in Joiners : JoinMsg(j).type = "join" /\ JoinMsg(j).from = j
      /\ \A s \in BOOLEAN : NotifyMsg(s).type = "notify"
  BY DEF CreateMsg, JoinMsg, NotifyMsg
<1> QED  BY <1>1

LEMMA CreateStep ==
  ASSUME DecisionInv, CreateOK, ~Doomed, ~Doomed', [Next]_vars
  PROVE  CreateOK'
<1>1. \A b \in Branches : pc'[b] \in BusinessOver => ok'[b]
  BY DEF Doomed, Failing
<1> USE BranchFacts, MessageKinds
        DEF DecisionInv, TypeOK, ControlOK, CreateOK, Goto, Send, tcVars, tmVars
<1>2. CASE UNCHANGED <<pc, group, requests, replies>>
  BY <1>2
<1>3. CASE StarterStep
  <2>1. CASE SendCreate      BY <2>1 DEF SendCreate
  <2>2. CASE CreateAnswered  BY <2>2 DEF CreateAnswered
  <2>3. CASE CreateFails  BY <1>1, <2>3 DEF CreateFails, BusinessOver
  <2>4. CASE SendNotify      BY <2>4 DEF SendNotify
  <2>5. CASE NotifyAnswered  BY <2>5 DEF NotifyAnswered
  <2>6. CASE NotifyRetried   BY <2>6 DEF NotifyRetried
  <2>7. CASE NotifyTimedOut  BY <2>7 DEF NotifyTimedOut
  <2>8. CASE NotifyThrows  BY <2>8 DEF NotifyThrows
  <2> QED  BY <1>3, <2>1, <2>2, <2>3, <2>4, <2>5, <2>6, <2>7, <2>8 DEF StarterStep
<1>4. ASSUME NEW c \in Branches, BusinessStep(c) PROVE CreateOK'
  <2>1. CASE HoldConnection(c)    BY <2>1 DEF HoldConnection
  <2>2. CASE RpcReturns(c)        BY <2>2 DEF RpcReturns
  <2>3. CASE RpcFails(c)          BY <2>3 DEF RpcFails
  <2>4. CASE BusinessSucceeds(c)  BY <2>4 DEF BusinessSucceeds, EndStep
  <2>5. CASE BusinessFails(c)     BY <2>5 DEF BusinessFails, EndStep
  <2>6. ASSUME NEW j \in Joiners, Call(c, j) PROVE CreateOK'  BY <2>6 DEF Call
  <2> QED  BY <1>4, <2>1, <2>2, <2>3, <2>4, <2>5, <2>6 DEF BusinessStep
<1>5. ASSUME NEW j \in Joiners, JoinerStep(j) PROVE CreateOK'
  <2>1. CASE SendJoin(j)       BY <2>1 DEF SendJoin
  <2>2. CASE JoinAnswered(j)   BY <2>2 DEF JoinAnswered
  <2>3. CASE JoinTimedOut(j)   BY <2>3 DEF JoinTimedOut
  <2>4. CASE AwaitCommit(j)    BY <2>4 DEF AwaitCommit
  <2>5. CASE AwaitEnds(j)  BY <2>5 DEF AwaitEnds
  <2>6. CASE JoinThrows(j)  BY <2>6 DEF JoinThrows
  <2> QED  BY <1>5, <2>1, <2>2, <2>3, <2>4, <2>5, <2>6 DEF JoinerStep
<1>6. ASSUME NEW e \in events, CommitEventArrives(e) PROVE CreateOK'
  BY <1>6 DEF CommitEventArrives
<1>7. ASSUME NEW c \in Branches, ConnectionBreaks(c) PROVE CreateOK'
  BY <1>2, <1>7 DEF ConnectionBreaks
<1>8. CASE HandleCreate
  <2>1. group' # NoGroup
    BY <1>8 DEF HandleCreate, NoGroup
  <2>2. /\ CreateMsg \notin requests' /\ pc[Starter] = "creating"
        /\ replies' = replies \cup {CreateMsg} /\ UNCHANGED pc
    BY <1>8 DEF HandleCreate
  <2> QED  BY <2>1, <2>2
<1>9. ASSUME NEW m \in requests, ReadGroup(m) PROVE CreateOK'
  BY <1>9 DEF ReadGroup
<1>10. ASSUME NEW h \in handling, WriteJoin(h) PROVE CreateOK'
  <2>1. group # NoGroup => group' # NoGroup
    BY <1>10, JoinWrite
  <2>2. h.msg # CreateMsg
    BY <1>10 DEF WriteJoin
  <2>3. replies' = replies \cup {h.msg} /\ UNCHANGED <<pc, requests>>
    BY <1>10 DEF WriteJoin
  <2> QED  BY <2>1, <2>2, <2>3
<1>11. ASSUME NEW h \in handling, WriteNotify(h) PROVE CreateOK'
  <2>1. group # NoGroup => group' # NoGroup
    BY <1>11, NotifyWrite
  <2>2. h.msg # CreateMsg
    BY <1>11 DEF WriteNotify
  <2>3. replies' = replies \cup {h.msg} /\ UNCHANGED <<pc, requests>>
    BY <1>11 DEF WriteNotify
  <2> QED  BY <2>1, <2>2, <2>3
<1>12. CASE UNCHANGED vars
  BY <1>2, <1>12 DEF vars
<1> QED
  BY <1>3, <1>4, <1>5, <1>6, <1>7, <1>8, <1>9, <1>10, <1>11, <1>12 DEF Next, ManagerStep, Finished

-----------------------------------------------------------------------------
(* Joins *)

LEMMA OneJoinAtATime ==
  ASSUME ControlOK, OneTip, NEW j \in Joiners, NEW k \in Joiners,
         pc[j] = "joining", pc[k] = "joining"
  PROVE  j = k
<1>1. ASSUME NEW i \in Joiners, pc[i] = "joining" PROVE Tip(i)
  BY <1>1, BranchFacts DEF ControlOK, Tip, Unfinished, Returned
<1> QED  BY <1>1, BranchFacts DEF OneTip

(* When a notify handler is at work all joins are over. *)
LEMMA NoJoinWhileNotifying ==
  ASSUME DecisionInv, UnfinishedHoldsCaller, ~Doomed, Decided
  PROVE  ok[Starter] /\ \A j \in Joiners : pc[j] # "joining"
<1>1. ok[Starter]
  BY BranchFacts DEF Doomed, Failing, BusinessOver, Decided
<1>2. ASSUME NEW j \in Joiners, pc[j] = "joining" PROVE FALSE
  <2>1. Returned(j)
    BY <1>1, <1>2, DecidedMeansReturned DEF DecisionInv
  <2> QED  BY <1>2, <2>1 DEF Returned
<1> QED  BY <1>1, <1>2

LEMMA NotifyHandlers ==
  ASSUME DecisionInv, NEW h \in handling, h.msg.type = "notify"
  PROVE  Decided /\ h.msg.success = ok[Starter]
<1>1. h.msg.success \in BOOLEAN /\ h.msg = NotifyMsg(h.msg.success)
  BY MessageTypes DEF DecisionInv, TypeOK
<1> QED  BY <1>1 DEF DecisionInv, MessagesTellTheResult

LEMMA JoinsStep ==
  ASSUME DecisionInv, UnfinishedHoldsCaller, OneTip, CreateOK, JoinsOK, NotifyOK,
         ~Doomed, ~Doomed', [Next]_vars
  PROVE  JoinsOK'
<1>1. \A b \in Branches : pc'[b] # "unwinding" /\ ~GaveUp(b)'
  BY DEF Doomed, Failing
<1> USE BranchFacts, MessageKinds
        DEF DecisionInv, TypeOK, JoinsOK, Goto, Send, tcVars, tmVars, GaveUp
<1>2. CASE UNCHANGED <<pc, group, requests, handling, replies>>
  BY <1>2
<1>3. CASE StarterStep
  <2>1. CASE SendCreate      BY <2>1 DEF SendCreate
  <2>2. CASE CreateAnswered  BY <2>2 DEF CreateAnswered
  <2>3. CASE CreateFails  BY <2>3 DEF CreateFails
  <2>4. CASE SendNotify      BY <2>4 DEF SendNotify
  <2>5. CASE NotifyAnswered  BY <2>5 DEF NotifyAnswered
  <2>6. CASE NotifyRetried   BY <2>6 DEF NotifyRetried
  <2>7. CASE NotifyTimedOut  BY <2>7 DEF NotifyTimedOut
  <2>8. CASE NotifyThrows  BY <2>8 DEF NotifyThrows
  <2> QED  BY <1>3, <2>1, <2>2, <2>3, <2>4, <2>5, <2>6, <2>7, <2>8 DEF StarterStep
<1>4. ASSUME NEW c \in Branches, BusinessStep(c) PROVE JoinsOK'
  <2>1. CASE HoldConnection(c)    BY <2>1 DEF HoldConnection
  <2>2. CASE RpcReturns(c)        BY <2>2 DEF RpcReturns
  <2>3. CASE RpcFails(c)          BY <2>3 DEF RpcFails, ControlOK
  <2>4. CASE BusinessSucceeds(c)  BY <2>4 DEF BusinessSucceeds, EndStep
  <2>5. CASE BusinessFails(c)     BY <2>5 DEF BusinessFails, EndStep
  <2>6. ASSUME NEW j \in Joiners, Call(c, j) PROVE JoinsOK'  BY <2>6 DEF Call
  <2> QED  BY <1>4, <2>1, <2>2, <2>3, <2>4, <2>5, <2>6 DEF BusinessStep
<1>5. ASSUME NEW j \in Joiners, JoinerStep(j) PROVE JoinsOK'
  <2>1. CASE SendJoin(j)       BY <2>1 DEF SendJoin
  <2>2. CASE JoinAnswered(j)
    <3>1. /\ pc[j] = "joining" /\ JoinMsg(j) \in replies /\ pc' = [pc EXCEPT ![j] = "joined"]
          /\ UNCHANGED <<group, requests, handling, replies>>
      BY <2>2 DEF JoinAnswered
    <3>2. \A h \in handling : h.msg.type = "join" => h.msg.from \in Joiners /\ h.msg.from # j
      BY <3>1, MessageTypes
    <3>3. JoinMsg(j) \notin requests
      BY <3>1
    <3> QED  BY <3>1, <3>2, <3>3
  <2>3. CASE JoinTimedOut(j)   BY <1>1, <2>3 DEF JoinTimedOut
  <2>4. CASE AwaitCommit(j)    BY <2>4 DEF AwaitCommit
  <2>5. CASE AwaitEnds(j)  BY <2>5 DEF AwaitEnds
  <2>6. CASE JoinThrows(j)  BY <1>1, <2>6 DEF JoinThrows
  <2> QED  BY <1>5, <2>1, <2>2, <2>3, <2>4, <2>5, <2>6 DEF JoinerStep
<1>6. ASSUME NEW e \in events, CommitEventArrives(e) PROVE JoinsOK'
  <2>1. CASE pc[e.to] # "waiting"
    BY <1>2, <1>6, <2>1 DEF CommitEventArrives
  <2>2. CASE pc[e.to] = "waiting"
    <3>1. /\ e.to \in Branches /\ pc' = [pc EXCEPT ![e.to] = "done"]
          /\ UNCHANGED <<group, requests, handling, replies>>
      BY <1>6, <2>2 DEF CommitEventArrives
    <3>2. \A h \in handling : h.msg.type = "join" => h.msg.from \in Joiners
      BY MessageTypes
    <3> QED  BY <2>2, <3>1, <3>2
  <2> QED  BY <2>1, <2>2
<1>7. ASSUME NEW c \in Branches, ConnectionBreaks(c) PROVE JoinsOK'
  BY <1>2, <1>7 DEF ConnectionBreaks
<1>8. CASE HandleCreate
  <2>1. \A j \in Joiners : pc[j] = "idle"
    BY <1>8 DEF HandleCreate, CreateOK
  <2>2. \A h \in handling : h.msg.type # "join"
    <3> SUFFICES ASSUME NEW h \in handling, h.msg.type = "join" PROVE FALSE
      OBVIOUS
    <3>1. h.msg \in Message
      OBVIOUS
    <3>2. h.msg.from \in Joiners
      BY <3>1, MessageTypes, Zenon
    <3> QED  BY <2>1, <3>2
  <2> QED  BY <1>8, <2>1, <2>2 DEF HandleCreate
<1>9. ASSUME NEW m \in requests, ReadGroup(m) PROVE JoinsOK'
  <2>1. m.type = "join" => m.from \in Joiners /\ m = JoinMsg(m.from)
    <3>1. m \in Message
      OBVIOUS
    <3> HIDE DEF DecisionInv, TypeOK, JoinsOK
    <3> QED  BY <3>1, MessageTypes
  <2>2. requests' = requests \ {m} /\ UNCHANGED <<pc, group, replies>>
    BY <1>9 DEF ReadGroup
  <2>3. \A h \in handling' : h \in handling \/ (h.msg = m /\ h.seen = group)
    BY <1>9 DEF ReadGroup
  <2>4. CASE m.type = "join"
    <3>1. PICK i \in Joiners : m = JoinMsg(i)
      BY <2>1, <2>4
    <3>2. pc[i] = "joining" /\ m \notin replies /\ m.from = i
      BY <3>1
    <3>3. \A h \in handling' : h.msg.type = "join" =>
            pc[h.msg.from] = "joining" /\ h.msg \notin replies /\ h.seen = group
      BY <2>3, <3>2
    <3>4. \A k \in Joiners : JoinMsg(k) \in requests' =>
            JoinMsg(k) \in requests /\ k # i /\ \A h \in handling' : h.msg # JoinMsg(k)
      BY <2>2, <2>3, <3>1
    <3> QED  BY <2>2, <3>3, <3>4
  <2>5. CASE m.type # "join"
    <3>1. \A j \in Joiners : m # JoinMsg(j)
      BY <2>5
    <3>2. \A h \in handling' : h \in handling \/ (h.msg.type # "join" /\ \A j \in Joiners : h.msg # JoinMsg(j))
      BY <2>3, <2>5, <3>1
    <3> QED  BY <2>2, <3>2
  <2> QED  BY <2>4, <2>5
<1>10. ASSUME NEW h \in handling, WriteJoin(h) PROVE JoinsOK'
  <2> DEFINE j == h.msg.from
  <2>1. /\ j \in Joiners /\ h.msg = JoinMsg(j) /\ h.msg.type = "join"
        /\ pc[j] = "joining" /\ h.seen = group
    BY <1>10, JoinWrite DEF WriteJoin
  <2>2. group # NoGroup
    <3> HIDE DEF j, DecisionInv, TypeOK, JoinsOK
    <3>1. pc[Starter] \notin {"begin", "creating"}
      BY <2>1 DEF CreateOK
    <3> QED  BY <3>1 DEF CreateOK
  <2>3. group'.joined = group.joined \cup {j}
    BY <1>10, <2>1, <2>2, JoinWrite
  <2>4. \A k \in handling' : k.msg.type # "join"
    <3>1. SUFFICES ASSUME NEW k \in handling, k # h, k.msg.type = "join" PROVE FALSE
      BY <1>10 DEF WriteJoin
    <3>2. k.msg.from \in Joiners /\ k.msg = JoinMsg(k.msg.from) /\ pc[k.msg.from] = "joining"
      BY <3>1, MessageTypes
    <3>3. k.msg.from = j
      <4> HIDE DEF j, DecisionInv, TypeOK, JoinsOK
      <4> QED  BY <2>1, <3>2, OneJoinAtATime DEF DecisionInv
    <3>4. k.msg = h.msg /\ k.seen = h.seen
      BY <2>1, <3>1, <3>2, <3>3
    <3> QED  BY <3>1, <3>4
  <2>5. /\ handling' \subseteq handling /\ replies' = replies \cup {JoinMsg(j)}
        /\ UNCHANGED <<pc, requests>>
    BY <1>10, <2>1 DEF WriteJoin
  <2>6. JoinMsg(j) \notin requests
    <3> HIDE DEF j
    <3> QED  BY <2>1
  <2> HIDE DEF j
  <2> QED  BY <2>1, <2>3, <2>4, <2>5, <2>6
<1>11. ASSUME NEW h \in handling, WriteNotify(h) PROVE JoinsOK'
  <2>1. h.msg.type = "notify"
    BY <1>11 DEF WriteNotify
  <2>2. \A k \in Joiners : pc[k] # "joining"
    BY <2>1, NotifyHandlers, NoJoinWhileNotifying
  <2>3. \A k \in handling : k.msg.type # "join"
    BY <2>2, MessageTypes
  <2>4. group'.joined = group.joined
    BY <1>11, <2>1, NotifyWrite DEF NotifyOK
  <2>5. /\ handling' \subseteq handling /\ replies' = replies \cup {h.msg}
        /\ UNCHANGED <<pc, requests>>
    BY <1>11 DEF WriteNotify
  <2> QED  BY <2>1, <2>2, <2>3, <2>4, <2>5
<1>12. CASE UNCHANGED vars
  BY <1>2, <1>12 DEF vars
<1> QED
  BY <1>3, <1>4, <1>5, <1>6, <1>7, <1>8, <1>9, <1>10, <1>11, <1>12 DEF Next, ManagerStep, Finished

-----------------------------------------------------------------------------
(* The decision *)

LEMMA NotifyStep ==
  ASSUME DecisionInv, UnfinishedHoldsCaller, CommitMeansDecided, CreateOK, JoinsOK, NotifyOK,
         ~Doomed, ~Doomed', [Next]_vars
  PROVE  NotifyOK'
<1> USE BranchFacts, MessageKinds DEF DecisionInv, TypeOK, NotifyOK, Is, Goto, tcVars, tmVars
<1>1. CASE UNCHANGED <<work, group, handling, replies, events>>
  BY <1>1
<1>2. CASE StarterStep
  <2>1. CASE NotifyAnswered
    <3>1. group.state = "COMMIT"
      BY <2>1 DEF NotifyAnswered
    <3> QED  BY <2>1, <3>1 DEF NotifyAnswered
  <2>2. CASE NotifyTimedOut
    BY <2>2 DEF NotifyTimedOut, Committed
  <2> QED
    BY <1>1, <1>2, <2>1, <2>2
       DEF StarterStep, SendCreate, CreateAnswered, CreateFails, SendNotify, NotifyRetried, NotifyThrows
<1>3. ASSUME NEW c \in Branches, BusinessStep(c) PROVE NotifyOK'
  <2>1. CASE HoldConnection(c)
    BY <2>1 DEF HoldConnection
  <2> QED
    BY <1>1, <1>3, <2>1 DEF BusinessStep, RpcReturns, RpcFails, BusinessSucceeds, BusinessFails, Call
<1>4. ASSUME NEW j \in Joiners, JoinerStep(j) PROVE NotifyOK'
  <2>1. CASE SendJoin(j)
    BY <1>1, <2>1 DEF SendJoin
  <2>2. CASE JoinTimedOut(j)
    BY <2>2 DEF JoinTimedOut, Committed
  <2> QED
    BY <1>1, <1>4, <2>1, <2>2 DEF JoinerStep, JoinAnswered, AwaitCommit, AwaitEnds, JoinThrows
<1>5. ASSUME NEW e \in events, CommitEventArrives(e) PROVE NotifyOK'
  <2>1. group.state = "COMMIT" /\ group' = group
    BY <1>5 DEF CommitEventArrives
  <2> QED  BY <1>5, <2>1 DEF CommitEventArrives
<1>6. ASSUME NEW c \in Branches, ConnectionBreaks(c) PROVE NotifyOK'
  BY <1>6 DEF ConnectionBreaks
<1>7. CASE HandleCreate
  <2>1. ~Decided
    BY <1>7 DEF HandleCreate, CreateOK, Decided
  <2>2. /\ events = {} /\ \A s \in BOOLEAN : NotifyMsg(s) \notin replies
        /\ \A b \in Branches : work[b] # "committed"
    BY <2>1 DEF MessagesTellTheResult, CommittedAsDecided
  <2>3. \A h \in handling : h.msg.type # "notify"
    BY <2>1, NotifyHandlers
  <2>4. UNCHANGED <<work, handling, events>> /\ replies' = replies \cup {CreateMsg}
    BY <1>7 DEF HandleCreate
  <2> QED  BY <2>2, <2>3, <2>4
<1>8. ASSUME NEW m \in requests, ReadGroup(m) PROVE NotifyOK'
  <2>1. m.type = "notify" => group # NoGroup
    <3>1. m.type = "notify" => m.success \in BOOLEAN /\ m = NotifyMsg(m.success)
      BY MessageTypes
    <3>2. m.type = "notify" => Decided
      BY <3>1 DEF MessagesTellTheResult
    <3> QED  BY <3>2 DEF CreateOK, Decided
  <2>2. \A h \in handling' : h \in handling \/ (h.msg = m /\ h.seen = group)
    BY <1>8 DEF ReadGroup
  <2>3. UNCHANGED <<work, group, replies, events>>
    BY <1>8 DEF ReadGroup
  <2> QED  BY <2>1, <2>2, <2>3
<1>9. ASSUME NEW h \in handling, WriteJoin(h) PROVE NotifyOK'
  <2>1. h.msg.from \in Joiners /\ pc[h.msg.from] = "joining" /\ h.seen = group
    BY <1>9, JoinWrite DEF WriteJoin, JoinsOK
  <2>2. group'.state = group.state
    BY <1>9, <2>1, JoinWrite
  <2>3. ~Decided
    BY <2>1, NoJoinWhileNotifying
  <2>4. \A k \in handling : k.msg.type # "notify"
    BY <2>3, NotifyHandlers
  <2>5. /\ handling' \subseteq handling /\ replies' = replies \cup {h.msg} /\ h.msg.type = "join"
        /\ UNCHANGED <<work, events>>
    BY <1>9 DEF WriteJoin
  <2> QED  BY <2>2, <2>4, <2>5
<1>10. ASSUME NEW h \in handling, WriteNotify(h) PROVE NotifyOK'
  <2>1. h.msg.type = "notify" /\ handling' \subseteq handling /\ UNCHANGED work
    BY <1>10 DEF WriteNotify
  <2>2. h.msg.success = TRUE
    BY <2>1, NotifyHandlers, NoJoinWhileNotifying
  <2>3. h.seen # NoGroup /\ h.seen.joined = group.joined
    BY <2>1
  <2>4. group'.state = "COMMIT" /\ group'.joined = group.joined
    BY <1>10, <2>2, <2>3, NotifyWrite DEF Parser
  <2> QED  BY <2>1, <2>4
<1>11. CASE UNCHANGED vars
  BY <1>1, <1>11 DEF vars
<1> QED
  BY <1>2, <1>3, <1>4, <1>5, <1>6, <1>7, <1>8, <1>9, <1>10, <1>11 DEF Next, ManagerStep, Finished

-----------------------------------------------------------------------------
LEMMA RecordInvInit == Init => RecordInv
<1> SUFFICES ASSUME Init PROVE RecordInv
  OBVIOUS
<1> USE BranchFacts DEF Init
<1>1. DecisionInv /\ UnfinishedHoldsCaller
  BY DecisionInit DEF UnfinishedHoldsCaller
<1>2. CalledHasWork /\ CommitMeansDecided
  BY DEF CalledHasWork, CommitMeansDecided, NoGroup
<1>3. OneTip
  BY DEF OneTip, Tip, Unfinished
<1>4. CreateOK
  BY DEF CreateOK
<1>5. JoinsOK
  BY DEF JoinsOK, NoGroup
<1>6. NotifyOK
  BY DEF NotifyOK, Is
<1> QED  BY <1>1, <1>2, <1>3, <1>4, <1>5, <1>6 DEF RecordInv

LEMMA RecordInvStep ==
  ASSUME Propagates = Branches, RecordInv, [Next]_vars
  PROVE  RecordInv'
<1>1. DecisionInv' /\ UnfinishedHoldsCaller' /\ CalledHasWork' /\ CommitMeansDecided'
  BY DecisionStep, UnfinishedStep, CalledHasWorkStep, CommitMeansDecidedStep DEF RecordInv
<1>2. ~Doomed' => ~Doomed
  BY DoomedStable DEF RecordInv
<1>3. ~Doomed' => OneTip' /\ CreateOK' /\ JoinsOK' /\ NotifyOK'
  BY <1>2, OneTipStep, CreateStep, JoinsStep, NotifyStep DEF RecordInv
<1> QED  BY <1>1, <1>3 DEF RecordInv

LEMMA RecordInvHolds == ASSUME Propagates = Branches PROVE Spec => []RecordInv
BY RecordInvInit, RecordInvStep, PTL DEF Spec

LEMMA CommitIsSound ==
  ASSUME RecordInv, Decided, ok[Starter]
  PROVE  /\ CreateOK /\ JoinsOK /\ NotifyOK
         /\ \A j \in Joiners : pc[j] # "idle" => Returned(j)
BY CommitMeansSound, DecidedMeansReturned DEF RecordInv, DecisionInv

(* When failures propagate, and whatever happens to the connections, what a *)
(* branch did before its business method failed is never committed.         *)
THEOREM FailedBranchesNeverCommit ==
  ASSUME Propagates = Branches PROVE Spec => []NoFailedBranchCommits
<1>1. ASSUME RecordInv, NEW b \in Branches, Is(b, "committed") PROVE ok[b]
  <2>1. Decided /\ ok[Starter]
    BY <1>1 DEF RecordInv, DecisionInv, CommittedAsDecided
  <2>2. pc[b] # "idle"
    BY <1>1 DEF RecordInv, CalledHasWork, Is
  <2>3. b \in Joiners => Returned(b)
    BY <1>1, <2>1, <2>2, CommitIsSound
  <2> QED  BY <2>1, <2>3, BranchFacts DEF Returned
<1>2. RecordInv => NoFailedBranchCommits
  BY <1>1 DEF NoFailedBranchCommits
<1> QED  BY <1>2, RecordInvHolds, PTL

(* When failures propagate, whatever has committed is recorded as COMMIT:   *)
(* no join handler has written an older record over the decision.           *)
THEOREM CommitIsRecorded ==
  ASSUME Propagates = Branches PROVE Spec => []CommitKnownToTm
<1>1. ASSUME RecordInv, NEW b \in Branches, Is(b, "committed") PROVE group.state = "COMMIT"
  <2>1. Decided /\ ok[Starter]
    BY <1>1 DEF RecordInv, DecisionInv, CommittedAsDecided
  <2> QED  BY <1>1, <2>1, CommitIsSound DEF NotifyOK
<1>2. RecordInv => CommitKnownToTm
  BY <1>1 DEF CommitKnownToTm
<1> QED  BY <1>2, RecordInvHolds, PTL

(* When failures propagate, the record of a committed group lists every     *)
(* branch that was called, so that all of them are told.                    *)
THEOREM CommittedRecordIsComplete ==
  ASSUME Propagates = Branches PROVE Spec => []CommittedGroupIsComplete
<1>1. ASSUME RecordInv, group.state = "COMMIT"
      PROVE  group.joined = {j \in Joiners : pc[j] # "idle"}
  <2>1. Decided /\ ok[Starter]
    BY <1>1 DEF RecordInv, CommitMeansDecided
  <2>2. JoinsOK /\ \A j \in Joiners : pc[j] # "idle" => Returned(j)
    BY <1>1, <2>1, CommitIsSound
  <2>3. group.joined \subseteq Joiners
    BY <1>1, GroupTypes, GroupForm DEF RecordInv, DecisionInv, TypeOK
  <2> QED  BY <2>2, <2>3 DEF JoinsOK, Returned
<1>2. RecordInv => CommittedGroupIsComplete
  BY <1>1 DEF CommittedGroupIsComplete
<1> QED  BY <1>2, RecordInvHolds, PTL

(* When failures propagate, the record of a committed group never changes:  *)
(* a late or repeated handler writes back what it has found.                *)
THEOREM CommittedRecordStands ==
  ASSUME Propagates = Branches PROVE Spec => CommitStands
<1>1. ASSUME RecordInv, [Next]_vars, group.state = "COMMIT" PROVE group' = group
  <2>1. Decided /\ ok[Starter]
    BY <1>1 DEF RecordInv, CommitMeansDecided
  <2>2. /\ CreateOK /\ JoinsOK /\ NotifyOK /\ DecisionInv
        /\ \A j \in Joiners : pc[j] # "joining"
    BY <1>1, <2>1, CommitIsSound DEF RecordInv, Returned
  <2>3. ~HandleCreate
    BY <2>1, <2>2 DEF HandleCreate, CreateOK, Decided
  <2>4. ASSUME NEW h \in handling PROVE ~WriteJoin(h)
    BY <2>2, JoinWrite DEF WriteJoin, JoinsOK, DecisionInv
  <2>5. ASSUME NEW h \in handling, WriteNotify(h) PROVE group' = group
    <3>1. h.msg.type = "notify"
      BY <2>5 DEF WriteNotify
    <3>2. h.msg.success = TRUE
      BY <2>1, <2>2, <3>1, BranchFacts, NotifyHandlers DEF DecisionInv, TypeOK
    <3>3. h.seen # NoGroup /\ h.seen.joined = group.joined
      BY <2>2, <3>1 DEF NotifyOK
    <3>4. group'.state = group.state /\ group'.joined = group.joined
      BY <1>1, <2>2, <2>5, <3>2, <3>3, NotifyWrite DEF Parser, DecisionInv
    <3>5. group \in Group /\ group' \in Group
      BY <1>1, <2>2, TypeStep DEF DecisionInv, TypeOK
    <3> QED  BY <3>4, <3>5, GroupForm
  <2> QED
    BY <1>1, <2>3, <2>4, <2>5
       DEF Next, StarterStep, SendCreate, CreateAnswered, CreateFails, SendNotify,
           NotifyAnswered, NotifyRetried, NotifyTimedOut, NotifyThrows, BusinessStep, HoldConnection, RpcReturns,
           RpcFails, BusinessSucceeds, BusinessFails, Call, JoinerStep, SendJoin, JoinAnswered,
           JoinTimedOut, AwaitCommit, AwaitEnds, JoinThrows, CommitEventArrives, ConnectionBreaks,
           ManagerStep, ReadGroup, Finished, vars, tcVars, tmVars
<1>2. RecordInv /\ [Next]_vars => [group.state = "COMMIT" => group' = group]_vars
  BY <1>1
<1> QED  BY <1>2, RecordInvHolds, PTL DEF Spec, CommitStands
=============================================================================
