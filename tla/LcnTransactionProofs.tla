----------------------- MODULE LcnTransactionProofs ------------------------
(***************************************************************************)
(* Proofs about LcnTransaction for any number of joiners and any call tree: *)
(* types, the starter's decision, agreement, and the refinement.            *)
(***************************************************************************)
EXTENDS LcnTransaction, Integers, WellFoundedInduction, TLAPS

LEMMA BranchFacts ==
  /\ Starter = 0 /\ Starter \in Branches /\ Starter \notin Joiners
  /\ Joiners \subseteq Branches /\ Branches = {Starter} \cup Joiners
  /\ Branches \subseteq Nat
  /\ \A j \in Joiners : Caller[j] \in Branches /\ Caller[j] < j
BY NAssumption, CallerAssumption DEF Starter, Joiners, Branches

-----------------------------------------------------------------------------
(* Type correctness *)

LEMMA MessageTypes ==
  /\ CreateMsg \in Message
  /\ \A j \in Joiners : JoinMsg(j) \in Message
  /\ \A s \in BOOLEAN : NotifyMsg(s) \in Message
  /\ \A m \in Message : m.type = "join" => m.from \in Joiners /\ m = JoinMsg(m.from)
  /\ \A m \in Message : m.type = "notify" => m.success \in BOOLEAN /\ m = NotifyMsg(m.success)
<1>1. /\ CreateMsg \in Message
      /\ \A j \in Joiners : JoinMsg(j) \in Message
      /\ \A s \in BOOLEAN : NotifyMsg(s) \in Message
  BY Zenon DEF Message
<1>2. ASSUME NEW m \in Message
      PROVE  /\ m.type = "join" => m.from \in Joiners /\ m = JoinMsg(m.from)
             /\ m.type = "notify" => m.success \in BOOLEAN /\ m = NotifyMsg(m.success)
  <2>1. CASE m = CreateMsg
    BY <2>1 DEF CreateMsg
  <2>2. ASSUME NEW j \in Joiners, m = JoinMsg(j)
        PROVE  m.type = "join" /\ m.from = j
    BY <2>2 DEF JoinMsg
  <2>3. ASSUME NEW s \in BOOLEAN, m = NotifyMsg(s)
        PROVE  m.type = "notify" /\ m.success = s
    BY <2>3 DEF NotifyMsg
  <2>4. m = CreateMsg \/ (\E j \in Joiners : m = JoinMsg(j)) \/ (\E s \in BOOLEAN : m = NotifyMsg(s))
    BY DEF Message
  <2> QED  BY <2>1, <2>2, <2>3, <2>4
<1> QED  BY <1>1, <1>2

LEMMA GroupTypes ==
  /\ NoGroup \in Group
  /\ [state |-> "JOIN", joined |-> {}] \in Group
  /\ \A g \in Group : g # NoGroup =>
       /\ g.joined \subseteq Joiners
       /\ \A J \in SUBSET Joiners : [g EXCEPT !.joined = J] \in Group
       /\ \A f \in BOOLEAN : /\ [g EXCEPT !.state = Parser(f)] \in Group
                             /\ [g EXCEPT !.state = Parser(f)].state = Parser(f)
BY DEF Group, NoGroup, Parser

LEMMA TypeInit == Init => TypeOK
BY GroupTypes, BranchFacts DEF Init, TypeOK, States

LEMMA TypeStep == TypeOK /\ [Next]_vars => TypeOK'
<1>2. ASSUME TypeOK, [Next]_vars PROVE TypeOK'
  <2> USE <1>2, BranchFacts DEF TypeOK, Goto, tcVars, tmVars, States
  <2>1. CASE StarterStep
    <3> USE <2>1, MessageTypes
    <3>1. CASE SendCreate  BY <3>1 DEF SendCreate, Send
    <3>2. CASE CreateAnswered  BY <3>2 DEF CreateAnswered
    <3>3. CASE CreateFails  BY <3>3 DEF CreateFails
    <3>4. CASE SendNotify  BY <3>4 DEF SendNotify, Send
    <3>5. CASE NotifyAnswered  BY <3>5 DEF NotifyAnswered, Committed
    <3>6. CASE NotifyRetried  BY <3>6 DEF NotifyRetried, Send
    <3>7. CASE NotifyTimedOut  BY <3>7 DEF NotifyTimedOut, Committed
    <3>8. CASE NotifyThrows  BY <3>8 DEF NotifyThrows
    <3> QED  BY <3>1, <3>2, <3>3, <3>4, <3>5, <3>6, <3>7, <3>8 DEF StarterStep
  <2>2. ASSUME NEW b \in Branches, BusinessStep(b) PROVE TypeOK'
    <3>1. CASE HoldConnection(b)  BY <3>1 DEF HoldConnection
    <3>2. CASE RpcReturns(b)  BY <3>2 DEF RpcReturns
    <3>3. CASE RpcFails(b)  BY <3>3 DEF RpcFails
    <3>4. CASE BusinessSucceeds(b)  BY <3>4 DEF BusinessSucceeds, EndStep
    <3>5. CASE BusinessFails(b)  BY <3>5 DEF BusinessFails, EndStep
    <3>6. ASSUME NEW j \in Joiners, Call(b, j) PROVE TypeOK'  BY <3>6 DEF Call
    <3> QED  BY <2>2, <3>1, <3>2, <3>3, <3>4, <3>5, <3>6 DEF BusinessStep
  <2>3. ASSUME NEW j \in Joiners, JoinerStep(j) PROVE TypeOK'
    <3>1. CASE SendJoin(j)  BY <3>1, MessageTypes DEF SendJoin, Send
    <3>2. CASE JoinAnswered(j)  BY <3>2 DEF JoinAnswered
    <3>3. CASE JoinTimedOut(j)  BY <3>3 DEF JoinTimedOut, Committed
    <3>4. CASE AwaitCommit(j)  BY <3>4 DEF AwaitCommit
    <3>5. CASE AwaitEnds(j)  BY <3>5 DEF AwaitEnds
    <3>6. CASE JoinThrows(j)  BY <3>6 DEF JoinThrows
    <3> QED  BY <2>3, <3>1, <3>2, <3>3, <3>4, <3>5, <3>6 DEF JoinerStep
  <2>4. ASSUME NEW e \in events, CommitEventArrives(e) PROVE TypeOK'
    BY <2>4 DEF CommitEventArrives, Committed
  <2>5. ASSUME NEW b \in Branches, ConnectionBreaks(b) PROVE TypeOK'
    BY <2>5 DEF ConnectionBreaks
  <2>6. CASE ManagerStep
    <3>1. CASE HandleCreate  BY <3>1, MessageTypes, GroupTypes DEF HandleCreate
    <3>2. ASSUME NEW m \in requests, ReadGroup(m) PROVE TypeOK'  BY <3>2 DEF ReadGroup
    <3>3. ASSUME NEW h \in handling, WriteJoin(h) PROVE TypeOK'
      <4>1. h.msg \in Message /\ h.seen \in Group
        OBVIOUS
      <4>2. h.msg.from \in Joiners
        BY <3>3, <4>1, MessageTypes DEF WriteJoin
      <4>3. group' \in Group
        BY <3>3, <4>1, <4>2, GroupTypes DEF WriteJoin
      <4> QED  BY <3>3, <4>1, <4>3 DEF WriteJoin
    <3>4. ASSUME NEW h \in handling, WriteNotify(h) PROVE TypeOK'
      <4>1. h.msg \in Message /\ h.seen \in Group
        OBVIOUS
      <4>2. h.msg.success \in BOOLEAN
        BY <3>4, <4>1, MessageTypes DEF WriteNotify
      <4>3. group' \in Group
        BY <3>4, <4>1, <4>2, GroupTypes DEF WriteNotify
      <4>4. events' \subseteq [to : Joiners, commit : BOOLEAN]
        <5>1. CASE h.seen = NoGroup  BY <3>4, <5>1 DEF WriteNotify
        <5>2. CASE h.seen # NoGroup
          <6>1. h.seen.joined \subseteq Joiners
            BY <4>1, <5>2, GroupTypes
          <6>2. events' = events \cup {[to |-> j, commit |-> group'.state = "COMMIT"] :
                                          j \in h.seen.joined}
            BY <3>4, <5>2 DEF WriteNotify
          <6> DEFINE Tell(j) == [to |-> j, commit |-> group'.state = "COMMIT"]
          <6>3. \A j \in Joiners : Tell(j) \in [to : Joiners, commit : BOOLEAN]
            BY Zenon
          <6>4. \A e \in events' : e \in events \/ \E j \in h.seen.joined : e = Tell(j)
            BY <6>2
          <6> DEFINE Event == [to : Joiners, commit : BOOLEAN]
          <6>5. events \subseteq Event /\ \A j \in Joiners : Tell(j) \in Event
            BY <6>3
          <6> HIDE DEF Tell, Event, TypeOK
          <6>6. events' \subseteq Event
            BY <6>1, <6>4, <6>5
          <6> QED  BY <6>6 DEF Event
        <5> QED  BY <5>1, <5>2
      <4> QED  BY <3>4, <4>1, <4>3, <4>4 DEF WriteNotify
    <3> QED  BY <2>6, <3>1, <3>2, <3>3, <3>4 DEF ManagerStep
  <2>7. CASE UNCHANGED vars
    BY <2>7 DEF vars
  <2> QED
    BY <2>1, <2>2, <2>3, <2>4, <2>5, <2>6, <2>7 DEF Next, Finished
<1> QED  BY <1>2

(* Every reachable state is well typed. *)
THEOREM TypeCorrect == Spec => []TypeOK
BY TypeInit, TypeStep, PTL DEF Spec

-----------------------------------------------------------------------------
(* The decision: what holds in every environment *)

LEMMA DecisionInit == Init => DecisionInv
<1> SUFFICES ASSUME Init PROVE DecisionInv
  OBVIOUS
<1>1. TypeOK  BY TypeInit
<1>2. ControlOK  BY BranchFacts DEF Init, ControlOK
<1>3. MessagesTellTheResult  BY DEF Init, MessagesTellTheResult
<1>4. CommittedAsDecided  BY DEF Init, CommittedAsDecided, Is
<1> QED  BY <1>1, <1>2, <1>3, <1>4 DEF DecisionInv

LEMMA ControlStep == DecisionInv /\ [Next]_vars => ControlOK'
<1>1. ASSUME DecisionInv, [Next]_vars PROVE ControlOK'
  <2> USE <1>1, BranchFacts DEF DecisionInv, TypeOK, ControlOK, BusinessOver, Goto, tcVars, tmVars
  <2>1. CASE StarterStep
    <3>1. CASE SendCreate  BY <3>1 DEF SendCreate
    <3>2. CASE CreateAnswered  BY <3>2 DEF CreateAnswered
    <3>3. CASE CreateFails  BY <3>3 DEF CreateFails
    <3>4. CASE SendNotify  BY <3>4 DEF SendNotify
    <3>5. CASE NotifyAnswered  BY <3>5 DEF NotifyAnswered
    <3>6. CASE NotifyRetried  BY <3>6 DEF NotifyRetried
    <3>7. CASE NotifyTimedOut  BY <3>7 DEF NotifyTimedOut
    <3>8. CASE NotifyThrows  BY <3>8 DEF NotifyThrows
    <3> QED  BY <2>1, <3>1, <3>2, <3>3, <3>4, <3>5, <3>6, <3>7, <3>8 DEF StarterStep
  <2>2. ASSUME NEW b \in Branches, BusinessStep(b) PROVE ControlOK'
    <3>1. CASE HoldConnection(b)  BY <3>1 DEF HoldConnection
    <3>2. CASE RpcReturns(b)  BY <3>2 DEF RpcReturns
    <3>3. CASE RpcFails(b)  BY <3>3 DEF RpcFails
    <3>4. CASE BusinessSucceeds(b)  BY <3>4 DEF BusinessSucceeds, EndStep
    <3>5. CASE BusinessFails(b)  BY <3>5 DEF BusinessFails, EndStep
    <3>6. ASSUME NEW j \in Joiners, Call(b, j) PROVE ControlOK'  BY <3>6 DEF Call
    <3> QED  BY <2>2, <3>1, <3>2, <3>3, <3>4, <3>5, <3>6 DEF BusinessStep
  <2>3. ASSUME NEW j \in Joiners, JoinerStep(j) PROVE ControlOK'
    <3>1. CASE SendJoin(j)  BY <3>1 DEF SendJoin
    <3>2. CASE JoinAnswered(j)  BY <3>2 DEF JoinAnswered
    <3>3. CASE JoinTimedOut(j)  BY <3>3 DEF JoinTimedOut
    <3>4. CASE AwaitCommit(j)  BY <3>4 DEF AwaitCommit
    <3>5. CASE AwaitEnds(j)  BY <3>5 DEF AwaitEnds
    <3>6. CASE JoinThrows(j)  BY <3>6 DEF JoinThrows
    <3> QED  BY <2>3, <3>1, <3>2, <3>3, <3>4, <3>5, <3>6 DEF JoinerStep
  <2>4. ASSUME NEW e \in events, CommitEventArrives(e) PROVE ControlOK'
    BY <2>4 DEF CommitEventArrives
  <2>5. ASSUME NEW b \in Branches, ConnectionBreaks(b) PROVE ControlOK'
    BY <2>5 DEF ConnectionBreaks
  <2>6. CASE ManagerStep
    BY <2>6 DEF ManagerStep, HandleCreate, ReadGroup, WriteJoin, WriteNotify
  <2>7. CASE UNCHANGED vars
    BY <2>7 DEF vars
  <2> QED
    BY <2>1, <2>2, <2>3, <2>4, <2>5, <2>6, <2>7 DEF Next, Finished
<1> QED  BY <1>1

(* Once decided, the decision and the starter's result never change. *)
LEMMA DecisionStable ==
  ASSUME DecisionInv, [Next]_vars, Decided
  PROVE  Decided' /\ ok'[Starter] = ok[Starter]
<1> USE BranchFacts DEF DecisionInv, TypeOK, ControlOK, Decided, Goto, tcVars, tmVars
<1>1. CASE StarterStep
  <2>1. CASE SendCreate      BY <2>1 DEF SendCreate
  <2>2. CASE CreateAnswered  BY <2>2 DEF CreateAnswered
  <2>3. CASE CreateFails  BY <2>3 DEF CreateFails
  <2>4. CASE SendNotify      BY <2>4 DEF SendNotify
  <2>5. CASE NotifyAnswered  BY <2>5 DEF NotifyAnswered
  <2>6. CASE NotifyRetried   BY <2>6 DEF NotifyRetried
  <2>7. CASE NotifyTimedOut  BY <2>7 DEF NotifyTimedOut
  <2>8. CASE NotifyThrows  BY <2>8 DEF NotifyThrows
  <2> QED  BY <1>1, <2>1, <2>2, <2>3, <2>4, <2>5, <2>6, <2>7, <2>8 DEF StarterStep
<1>2. ASSUME NEW b \in Branches, BusinessStep(b) PROVE Decided' /\ ok'[Starter] = ok[Starter]
  <2>1. callee[Starter] = 0
    OBVIOUS
  <2>2. CASE HoldConnection(b)  BY <2>2 DEF HoldConnection
  <2>3. CASE RpcReturns(b)  BY <2>3 DEF RpcReturns
  <2>4. CASE RpcFails(b)  BY <2>1, <2>4 DEF RpcFails
  <2>5. CASE BusinessSucceeds(b)  BY <2>5 DEF BusinessSucceeds, EndStep
  <2>6. CASE BusinessFails(b)  BY <2>6 DEF BusinessFails, EndStep
  <2>7. ASSUME NEW j \in Joiners, Call(b, j) PROVE Decided' /\ ok'[Starter] = ok[Starter]
    BY <2>7 DEF Call
  <2> HIDE DEF DecisionInv, TypeOK, ControlOK, Decided
  <2> QED  BY <1>2, <2>2, <2>3, <2>4, <2>5, <2>6, <2>7 DEF BusinessStep
<1>3. ASSUME NEW j \in Joiners, JoinerStep(j) PROVE Decided' /\ ok'[Starter] = ok[Starter]
  <2>1. CASE SendJoin(j)       BY <2>1 DEF SendJoin
  <2>2. CASE JoinAnswered(j)   BY <2>2 DEF JoinAnswered
  <2>3. CASE JoinTimedOut(j)   BY <2>3 DEF JoinTimedOut
  <2>4. CASE AwaitCommit(j)    BY <2>4 DEF AwaitCommit
  <2>5. CASE AwaitEnds(j)  BY <2>5 DEF AwaitEnds
  <2>6. CASE JoinThrows(j)  BY <2>6 DEF JoinThrows
  <2> QED  BY <1>3, <2>1, <2>2, <2>3, <2>4, <2>5, <2>6 DEF JoinerStep
<1>4. ASSUME NEW e \in events, CommitEventArrives(e) PROVE Decided' /\ ok'[Starter] = ok[Starter]
  BY <1>4 DEF CommitEventArrives
<1>5. ASSUME NEW b \in Branches, ConnectionBreaks(b) PROVE Decided' /\ ok'[Starter] = ok[Starter]
  BY <1>5 DEF ConnectionBreaks
<1>6. CASE ManagerStep
  BY <1>6 DEF ManagerStep, HandleCreate, ReadGroup, WriteJoin, WriteNotify
<1>7. CASE UNCHANGED vars
  BY <1>7 DEF vars
<1> QED
  BY <1>1, <1>2, <1>3, <1>4, <1>5, <1>6, <1>7 DEF Next, Finished

LEMMA NotifyIsItself ==
  /\ \A s, t \in BOOLEAN : NotifyMsg(s) = NotifyMsg(t) => s = t
  /\ \A s \in BOOLEAN : NotifyMsg(s) # CreateMsg /\ \A j \in Joiners : NotifyMsg(s) # JoinMsg(j)
  /\ \A s \in BOOLEAN : NotifyMsg(s).type = "notify" /\ NotifyMsg(s).success = s
<1>1. \A s \in BOOLEAN : NotifyMsg(s).type = "notify" /\ NotifyMsg(s).success = s
  BY DEF NotifyMsg
<1>2. CreateMsg.type = "create" /\ \A j \in Joiners : JoinMsg(j).type = "join"
  BY DEF CreateMsg, JoinMsg
<1> QED  BY <1>1, <1>2

(* Only the starter sends a notify message, with its result, once decided. *)
LEMMA MessagesStep == DecisionInv /\ [Next]_vars => MessagesTellTheResult'
<1>1. ASSUME DecisionInv, [Next]_vars PROVE MessagesTellTheResult'
  <2> USE <1>1, BranchFacts, NotifyIsItself
          DEF DecisionInv, TypeOK, MessagesTellTheResult, Send, tcVars, tmVars
  <2>1. Decided => Decided' /\ ok'[Starter] = ok[Starter]
    BY DecisionStable
  <2>2. CASE UNCHANGED <<requests, handling, replies, events>>
    BY <2>1, <2>2
  <2>3. CASE SendCreate
    BY <2>1, <2>3 DEF SendCreate
  <2>4. CASE SendNotify \/ NotifyRetried
    <3>1. /\ ok[Starter] \in BOOLEAN
          /\ requests' = requests \cup {NotifyMsg(ok[Starter])}
          /\ UNCHANGED <<handling, replies, events>>
      BY <2>4 DEF SendNotify, NotifyRetried
    <3>2. Decided
      BY <2>4 DEF SendNotify, NotifyRetried, Decided
    <3> QED  BY <2>1, <3>1, <3>2
  <2>5. ASSUME NEW j \in Joiners, SendJoin(j) PROVE MessagesTellTheResult'
    BY <2>1, <2>5 DEF SendJoin
  <2>6. ASSUME NEW e \in events, CommitEventArrives(e) PROVE MessagesTellTheResult'
    BY <2>1, <2>6 DEF CommitEventArrives
  <2>7. CASE HandleCreate
    BY <2>1, <2>7 DEF HandleCreate
  <2>8. ASSUME NEW m \in requests, ReadGroup(m) PROVE MessagesTellTheResult'
    <3>1. \A h \in handling' : h \in handling \/ h.msg = m
      BY <2>8 DEF ReadGroup
    <3>2. UNCHANGED <<replies, events>> /\ requests' \subseteq requests
      BY <2>8 DEF ReadGroup
    <3> QED  BY <2>1, <3>1, <3>2
  <2>9. ASSUME NEW h \in handling, WriteJoin(h) PROVE MessagesTellTheResult'
    BY <2>1, <2>9 DEF WriteJoin
  <2>10. ASSUME NEW h \in handling, WriteNotify(h) PROVE MessagesTellTheResult'
    <3>1. h.msg \in Message /\ h.msg.success \in BOOLEAN /\ h.msg = NotifyMsg(h.msg.success)
      BY <2>10, MessageTypes DEF WriteNotify
    <3>2. Decided /\ h.msg.success = ok[Starter]
      BY <3>1
    <3>3. /\ replies' = replies \cup {h.msg} /\ handling' \subseteq handling
          /\ UNCHANGED requests
      BY <2>10 DEF WriteNotify
    <3>4. \A e \in events' : e \in events \/ e.commit = ok[Starter]
      <4>1. CASE h.seen = NoGroup  BY <2>10, <4>1 DEF WriteNotify
      <4>2. CASE h.seen # NoGroup
        <5>1. group'.state = Parser(h.msg.success)
          <6>1. h.seen \in Group  OBVIOUS
          <6>2. group' = [h.seen EXCEPT !.state = Parser(h.msg.success)]
            BY <2>10, <4>2 DEF WriteNotify
          <6> QED  BY <3>1, <4>2, <6>1, <6>2, GroupTypes, Zenon
        <5>2. \A e \in events' : e \in events \/ e.commit = (group'.state = "COMMIT")
          BY <2>10, <4>2 DEF WriteNotify
        <5>3. (group'.state = "COMMIT") = ok[Starter]
          BY <3>1, <3>2, <5>1 DEF Parser
        <5> QED  BY <5>2, <5>3
      <4> QED  BY <4>1, <4>2
    <3> QED  BY <2>1, <3>1, <3>2, <3>3, <3>4
  <2>11. CASE StarterStep
    BY <2>2, <2>3, <2>4, <2>11
       DEF StarterStep, CreateAnswered, CreateFails, NotifyAnswered, NotifyTimedOut,
           NotifyThrows
  <2>12. ASSUME NEW b \in Branches, BusinessStep(b) PROVE MessagesTellTheResult'
    BY <2>2, <2>12 DEF BusinessStep, HoldConnection, RpcReturns, RpcFails, BusinessSucceeds,
                       BusinessFails, Call
  <2>13. ASSUME NEW j \in Joiners, JoinerStep(j) PROVE MessagesTellTheResult'
    BY <2>2, <2>5, <2>13 DEF JoinerStep, JoinAnswered, JoinTimedOut, AwaitCommit, AwaitEnds, JoinThrows
  <2>14. ASSUME NEW b \in Branches, ConnectionBreaks(b) PROVE MessagesTellTheResult'
    BY <2>2, <2>14 DEF ConnectionBreaks
  <2>15. CASE ManagerStep
    BY <2>7, <2>8, <2>9, <2>10, <2>15 DEF ManagerStep
  <2>16. CASE UNCHANGED vars
    BY <2>2, <2>16 DEF vars
  <2> QED
    BY <2>6, <2>11, <2>12, <2>13, <2>14, <2>15, <2>16 DEF Next, Finished
<1> QED  BY <1>1

LEMMA CommittedAsDecidedStep == DecisionInv /\ [Next]_vars => CommittedAsDecided'
<1>1. ASSUME DecisionInv, [Next]_vars, NEW b \in Branches, Is(b, "committed")'
      PROVE  Decided' /\ ok'[Starter]
  <2> USE <1>1, BranchFacts DEF DecisionInv, TypeOK, Is, tcVars, tmVars
  <2>1. Decided /\ ok[Starter] => Decided' /\ ok'[Starter]
    BY DecisionStable
  <2>2. CASE work[b] = "committed"
    BY <2>1, <2>2 DEF CommittedAsDecided
  <2>3. CASE work[b] # "committed"
    <3>1. CASE UNCHANGED work
      BY <2>3, <3>1
    <3>2. CASE NotifyAnswered
      <4>1. Decided  BY <3>2 DEF NotifyAnswered, Decided
      <4>2. ok[Starter]  BY <2>3, <3>2 DEF NotifyAnswered, Committed
      <4> QED  BY <2>1, <4>1, <4>2
    <3>3. CASE NotifyTimedOut
      BY <2>3, <3>3 DEF NotifyTimedOut, Committed
    <3>4. ASSUME NEW c \in Branches, HoldConnection(c) PROVE FALSE
      BY <2>3, <3>4 DEF HoldConnection
    <3>5. ASSUME NEW j \in Joiners, JoinTimedOut(j) PROVE FALSE
      BY <2>3, <3>5 DEF JoinTimedOut, Committed
    <3>6. ASSUME NEW e \in events, CommitEventArrives(e) PROVE Decided' /\ ok'[Starter]
      <4>1. e.commit  BY <2>3, <3>6 DEF CommitEventArrives, Committed
      <4>2. Decided /\ ok[Starter]  BY <4>1 DEF MessagesTellTheResult
      <4> QED  BY <2>1, <4>2
    <3>7. ASSUME NEW c \in Branches, ConnectionBreaks(c) PROVE FALSE
      BY <2>3, <3>7 DEF ConnectionBreaks
    <3>8. CASE StarterStep
      BY <3>1, <3>2, <3>3, <3>8
         DEF StarterStep, SendCreate, CreateAnswered, CreateFails, SendNotify, NotifyRetried, NotifyThrows
    <3>9. ASSUME NEW c \in Branches, BusinessStep(c) PROVE Decided' /\ ok'[Starter]
      BY <3>1, <3>4, <3>9
         DEF BusinessStep, RpcReturns, RpcFails, BusinessSucceeds, BusinessFails, Call
    <3>10. ASSUME NEW j \in Joiners, JoinerStep(j) PROVE Decided' /\ ok'[Starter]
      BY <3>1, <3>5, <3>10 DEF JoinerStep, SendJoin, JoinAnswered, AwaitCommit, AwaitEnds, JoinThrows
    <3>11. CASE ManagerStep
      BY <3>1, <3>11 DEF ManagerStep, HandleCreate, ReadGroup, WriteJoin, WriteNotify
    <3>12. CASE UNCHANGED vars
      BY <3>1, <3>12 DEF vars
    <3> QED
      BY <3>6, <3>7, <3>8, <3>9, <3>10, <3>11, <3>12 DEF Next, Finished
  <2> QED  BY <2>2, <2>3
<1> QED  BY <1>1 DEF CommittedAsDecided

LEMMA DecisionStep == DecisionInv /\ [Next]_vars => DecisionInv'
BY TypeStep, ControlStep, MessagesStep, CommittedAsDecidedStep DEF DecisionInv

(* In every environment, everything on its way to or from the TM tells the  *)
(* starter's one result, and what is committed was decided.                 *)
THEOREM DecisionInvHolds == Spec => []DecisionInv
BY DecisionInit, DecisionStep, PTL DEF Spec

(* In every environment: no branch commits for a starter that failed. *)
THEOREM FailedStarterNeverCommits == Spec => []NoCommitAfterFailure
<1>1. DecisionInv => NoCommitAfterFailure
  BY DEF DecisionInv, CommittedAsDecided, NoCommitAfterFailure
<1> QED  BY <1>1, DecisionInit, DecisionStep, PTL DEF Spec

-----------------------------------------------------------------------------
(* Agreement, when failures propagate and connections hold *)

Sound == Propagates = Branches /\ Fragile = {}

LEMMA LeastMember ==
  ASSUME NEW S, S \subseteq Nat, S # {}
  PROVE  \E m \in S : \A k \in S : ~(k < m)
<1> DEFINE R == OpToRel(<, Nat)
<1>1. IsWellFoundedOn(R, Nat)
  BY NatLessThanWellFounded
<1>2. \A k, m \in Nat : k < m => <<k, m>> \in R
  BY DEF OpToRel
<1> HIDE DEF R
<1>3. PICK m \in S : \A k \in S : <<k, m>> \notin R
  BY <1>1, WFMin, Zenon
<1>4. \A k \in S : ~(k < m)
  BY <1>2, <1>3, Zenon
<1> QED  BY <1>4

(* When the starter has decided to commit, every joiner it led to, directly *)
(* or through others, has joined: an unfinished one would hold back or fail *)
(* its caller, which would then be unfinished itself, up to the starter.    *)
LEMMA DecidedMeansReturned ==
  ASSUME TypeOK, ControlOK, UnfinishedHoldsCaller, Decided, ok[Starter],
         NEW j \in Joiners, pc[j] # "idle"
  PROVE  Returned(j)
<1> DEFINE Unfinished == {k \in Joiners : pc[k] # "idle" /\ ~Returned(k)}
<1>1. SUFFICES ASSUME Unfinished # {} PROVE FALSE
  OBVIOUS
<1>2. PICK m \in Unfinished : \A k \in Unfinished : ~(k < m)
  <2>1. Unfinished \subseteq Nat  BY BranchFacts
  <2> HIDE DEF Unfinished
  <2> QED  BY <1>1, <2>1, LeastMember
<1> DEFINE c == Caller[m]
<1>3. m \in Joiners /\ m # 0 /\ c \in Branches /\ c < m
  BY BranchFacts
<1>4. callee[c] = m \/ Failing(c)
  BY <1>2 DEF UnfinishedHoldsCaller
<1>5. callee[c] = m => pc[c] = "business"
  <2> HIDE DEF Unfinished, c
  <2> QED  BY <1>3 DEF ControlOK
<1>6. CASE c = Starter
  BY <1>4, <1>5, <1>6 DEF Decided, Failing
<1>7. CASE c \in Joiners
  <2>1. pc[c] # "idle" /\ ~Returned(c)
    BY <1>4, <1>5 DEF Failing, BusinessOver, Returned
  <2> QED  BY <1>2, <1>3, <1>7, <2>1
<1> QED  BY <1>3, <1>6, <1>7, BranchFacts

LEMMA UnfinishedStep ==
  ASSUME Propagates = Branches, DecisionInv, UnfinishedHoldsCaller, [Next]_vars
  PROVE  UnfinishedHoldsCaller'
<1> SUFFICES ASSUME NEW j \in Joiners, (pc[j] # "idle" /\ ~Returned(j))'
             PROVE  (callee[Caller[j]] = j \/ Failing(Caller[j]))'
  BY DEF UnfinishedHoldsCaller
<1> DEFINE c    == Caller[j]
           Goal == (callee[c] = j \/ Failing(c))'
<1> USE BranchFacts DEF DecisionInv, TypeOK, ControlOK, Goto, tcVars, tmVars
<1>1. c \in Branches /\ c # j
  OBVIOUS
<1>2. pc[j] # "idle" /\ ~Returned(j) => callee[c] = j \/ Failing(c)
  BY DEF UnfinishedHoldsCaller
<1>3. CASE UNCHANGED <<pc, ok, callee>>
  BY <1>2, <1>3 DEF Returned, Failing
<1>4. CASE StarterStep
  <2> USE <1>2, <1>4 DEF Returned, Failing, BusinessOver
  <2>1. CASE SendCreate  BY <2>1 DEF SendCreate
  <2>2. CASE CreateAnswered  BY <2>2 DEF CreateAnswered
  <2>3. CASE CreateFails  BY <2>3 DEF CreateFails
  <2>4. CASE SendNotify  BY <2>4 DEF SendNotify
  <2>5. CASE NotifyAnswered  BY <2>5 DEF NotifyAnswered
  <2>6. CASE NotifyRetried  BY <2>6 DEF NotifyRetried
  <2>7. CASE NotifyTimedOut  BY <2>7 DEF NotifyTimedOut
  <2>8. CASE NotifyThrows  BY <2>8 DEF NotifyThrows
  <2> QED  BY <2>1, <2>2, <2>3, <2>4, <2>5, <2>6, <2>7, <2>8 DEF StarterStep
<1>5. ASSUME NEW b \in Branches, BusinessStep(b) PROVE Goal
  <2> USE <1>1, <1>2
  <2>1. CASE HoldConnection(b)  BY <1>3, <2>1 DEF HoldConnection
  <2>2. CASE RpcReturns(b)
    <3>1. pc[j] # "idle" /\ ~Returned(j) /\ callee[b] # j
      BY <2>2 DEF RpcReturns, Returned
    <3> QED  BY <2>2, <3>1 DEF RpcReturns, Failing
  <2>3. CASE RpcFails(b)
    <3>1. b \in Propagates  OBVIOUS
    <3>2. pc' = [pc EXCEPT ![b] = "unwinding"]  BY <2>3, <3>1 DEF RpcFails
    <3>3. pc[b] = "business"  BY <2>3 DEF RpcFails
    <3>4. pc[j] # "idle" /\ ~Returned(j)  BY <2>3, <3>2, <3>3 DEF RpcFails, Returned
    <3>5. CASE b = c  BY <3>2, <3>5 DEF Failing
    <3>6. CASE b # c  BY <2>3, <3>2, <3>4, <3>6 DEF RpcFails, Failing
    <3> QED  BY <3>5, <3>6
  <2>4. CASE BusinessSucceeds(b)
    <3>1. pc[j] # "idle" /\ ~Returned(j)
      BY <2>4 DEF BusinessSucceeds, EndStep, Returned
    <3> QED  BY <2>4, <3>1 DEF BusinessSucceeds, EndStep, Failing, BusinessOver
  <2>5. CASE BusinessFails(b)
    <3>1. pc[j] # "idle" /\ ~Returned(j)
      BY <2>5 DEF BusinessFails, EndStep, Returned
    <3> QED  BY <2>5, <3>1 DEF BusinessFails, EndStep, Failing, BusinessOver
  <2>6. ASSUME NEW k \in Joiners, Call(b, k) PROVE Goal
    <3>1. CASE k = j  BY <2>6, <3>1 DEF Call
    <3>2. CASE k # j
      <4>1. pc[j] # "idle" /\ ~Returned(j)  BY <2>6, <3>2 DEF Call, Returned
      <4>2. callee[c] = j => c # b  BY <2>6 DEF Call
      <4>3. Failing(c) => c # k  BY <2>6 DEF Call, Failing, BusinessOver
      <4> QED  BY <2>6, <4>1, <4>2, <4>3 DEF Call, Failing
    <3> QED  BY <3>1, <3>2
  <2> QED  BY <1>5, <2>1, <2>2, <2>3, <2>4, <2>5, <2>6 DEF BusinessStep
<1>6. ASSUME NEW k \in Joiners, JoinerStep(k) PROVE Goal
  <2> USE <1>2 DEF Returned, Failing, BusinessOver
  <2>1. CASE SendJoin(k)  BY <2>1 DEF SendJoin
  <2>2. CASE JoinAnswered(k)  BY <2>2 DEF JoinAnswered
  <2>3. CASE JoinTimedOut(k)  BY <2>3 DEF JoinTimedOut
  <2>4. CASE AwaitCommit(k)  BY <2>4 DEF AwaitCommit
  <2>5. CASE AwaitEnds(k)  BY <2>5 DEF AwaitEnds
  <2>6. CASE JoinThrows(k)  BY <2>6 DEF JoinThrows
  <2> QED  BY <1>6, <2>1, <2>2, <2>3, <2>4, <2>5, <2>6 DEF JoinerStep
<1>7. ASSUME NEW e \in events, CommitEventArrives(e) PROVE Goal
  <2>1. CASE pc[e.to] # "waiting"
    BY <1>3, <1>7, <2>1 DEF CommitEventArrives
  <2>2. CASE pc[e.to] = "waiting"
    <3>1. e.to \in Branches /\ pc' = [pc EXCEPT ![e.to] = "done"] /\ UNCHANGED <<ok, callee>>
      BY <1>7, <2>2 DEF CommitEventArrives
    <3> QED  BY <1>2, <2>2, <3>1 DEF Returned, Failing, BusinessOver
  <2> QED  BY <2>1, <2>2
<1>8. ASSUME NEW b \in Branches, ConnectionBreaks(b) PROVE Goal
  BY <1>3, <1>8 DEF ConnectionBreaks
<1>9. CASE ManagerStep
  BY <1>3, <1>9 DEF ManagerStep, HandleCreate, ReadGroup, WriteJoin, WriteNotify
<1>10. CASE UNCHANGED vars
  BY <1>3, <1>10 DEF vars
<1> QED
  BY <1>4, <1>5, <1>6, <1>7, <1>8, <1>9, <1>10 DEF Next, Finished

LEMMA RolledBackStep ==
  ASSUME Sound, AgreementInv, [Next]_vars
  PROVE  RolledBackHasReason'
<1> SUFFICES ASSUME NEW b \in Branches, Is(b, "rolledBack")'
             PROVE  ((b \in Joiners /\ pc[b] = "failed") \/ (Decided /\ ~ok[Starter]))'
  BY DEF RolledBackHasReason
<1> DEFINE Goal == ((b \in Joiners /\ pc[b] = "failed") \/ (Decided /\ ~ok[Starter]))'
<1> USE BranchFacts DEF AgreementInv, DecisionInv, TypeOK, Is, Goto, tcVars, tmVars
<1>1. Decided /\ ~ok[Starter] => Goal
  BY DecisionStable
<1>2. b \in Joiners /\ pc[b] = "failed" => pc'[b] = "failed"
  <2> SUFFICES ASSUME b \in Joiners, pc[b] = "failed" PROVE pc'[b] = "failed"
    OBVIOUS
  <2> USE DEF ControlOK
  <2>1. CASE StarterStep
    <3>1. CASE SendCreate      BY <3>1 DEF SendCreate
    <3>2. CASE CreateAnswered  BY <3>2 DEF CreateAnswered
    <3>3. CASE CreateFails  BY <3>3 DEF CreateFails
    <3>4. CASE SendNotify      BY <3>4 DEF SendNotify
    <3>5. CASE NotifyAnswered  BY <3>5 DEF NotifyAnswered
    <3>6. CASE NotifyRetried   BY <3>6 DEF NotifyRetried
    <3>7. CASE NotifyTimedOut  BY <3>7 DEF NotifyTimedOut
    <3>8. CASE NotifyThrows  BY <3>8 DEF NotifyThrows
    <3> QED  BY <2>1, <3>1, <3>2, <3>3, <3>4, <3>5, <3>6, <3>7, <3>8 DEF StarterStep
  <2>2. ASSUME NEW c \in Branches, BusinessStep(c) PROVE pc'[b] = "failed"
    <3>1. callee[b] = 0  OBVIOUS
    <3>2. CASE HoldConnection(c)    BY <3>2 DEF HoldConnection
    <3>3. CASE RpcReturns(c)        BY <3>1, <3>3 DEF RpcReturns
    <3>4. CASE RpcFails(c)          BY <3>1, <3>4 DEF RpcFails
    <3>5. CASE BusinessSucceeds(c)  BY <3>5 DEF BusinessSucceeds, EndStep
    <3>6. CASE BusinessFails(c)     BY <3>6 DEF BusinessFails, EndStep
    <3>7. ASSUME NEW j \in Joiners, Call(c, j) PROVE pc'[b] = "failed"
      BY <3>7 DEF Call
    <3> QED  BY <2>2, <3>2, <3>3, <3>4, <3>5, <3>6, <3>7 DEF BusinessStep
  <2>3. ASSUME NEW j \in Joiners, JoinerStep(j) PROVE pc'[b] = "failed"
    <3>1. CASE SendJoin(j)       BY <3>1 DEF SendJoin
    <3>2. CASE JoinAnswered(j)   BY <3>2 DEF JoinAnswered
    <3>3. CASE JoinTimedOut(j)   BY <3>3 DEF JoinTimedOut
    <3>4. CASE AwaitCommit(j)    BY <3>4 DEF AwaitCommit
    <3>5. CASE AwaitEnds(j)  BY <3>5 DEF AwaitEnds
    <3>6. CASE JoinThrows(j)  BY <3>6 DEF JoinThrows
    <3> QED  BY <2>3, <3>1, <3>2, <3>3, <3>4, <3>5, <3>6 DEF JoinerStep
  <2>4. ASSUME NEW e \in events, CommitEventArrives(e) PROVE pc'[b] = "failed"
    BY <2>4 DEF CommitEventArrives
  <2>5. ASSUME NEW c \in Branches, ConnectionBreaks(c) PROVE pc'[b] = "failed"
    BY <2>5 DEF ConnectionBreaks
  <2>6. CASE ManagerStep
    BY <2>6 DEF ManagerStep, HandleCreate, ReadGroup, WriteJoin, WriteNotify
  <2>7. CASE UNCHANGED vars
    BY <2>7 DEF vars
  <2> QED  BY <2>1, <2>2, <2>3, <2>4, <2>5, <2>6, <2>7 DEF Next, Finished
<1>3. CASE work[b] = "rolledBack"
  BY <1>1, <1>2, <1>3 DEF RolledBackHasReason
<1>4. CASE work[b] # "rolledBack"
  <2>1. CASE UNCHANGED work
    BY <1>4, <2>1
  <2>2. CASE NotifyAnswered
    <3>1. Decided  BY <2>2 DEF NotifyAnswered, Decided
    <3>2. PICK s \in BOOLEAN : /\ NotifyMsg(s) \in replies
                               /\ work' = [work EXCEPT ![Starter] = Committed(@, s /\ ok[Starter])]
      BY <2>2 DEF NotifyAnswered
    <3>3. s = ok[Starter]  BY <3>2 DEF MessagesTellTheResult
    <3>4. ~ok[Starter]  BY <1>4, <3>2, <3>3 DEF Committed
    <3> QED  BY <1>1, <3>1, <3>4
  <2>3. CASE NotifyTimedOut
    BY <1>1, <2>3 DEF NotifyTimedOut, Decided
  <2>4. ASSUME NEW c \in Branches, HoldConnection(c) PROVE Goal
    BY <1>4, <2>4 DEF HoldConnection
  <2>5. ASSUME NEW j \in Joiners, JoinTimedOut(j) PROVE Goal
    BY <1>4, <2>5 DEF JoinTimedOut
  <2>6. ASSUME NEW e \in events, CommitEventArrives(e) PROVE Goal
    <3>1. ~e.commit  BY <1>4, <2>6 DEF CommitEventArrives, Committed
    <3>2. Decided /\ ~ok[Starter]  BY <3>1 DEF MessagesTellTheResult
    <3> QED  BY <1>1, <3>2
  <2>7. ASSUME NEW c \in Branches, ConnectionBreaks(c) PROVE Goal
    BY <2>7 DEF ConnectionBreaks, Sound
  <2>8. CASE StarterStep
    BY <2>1, <2>2, <2>3, <2>8
       DEF StarterStep, SendCreate, CreateAnswered, CreateFails, SendNotify, NotifyRetried, NotifyThrows
  <2>9. ASSUME NEW c \in Branches, BusinessStep(c) PROVE Goal
    BY <2>1, <2>4, <2>9
       DEF BusinessStep, RpcReturns, RpcFails, BusinessSucceeds, BusinessFails, Call
  <2>10. ASSUME NEW j \in Joiners, JoinerStep(j) PROVE Goal
    BY <2>1, <2>5, <2>10 DEF JoinerStep, SendJoin, JoinAnswered, AwaitCommit, AwaitEnds, JoinThrows
  <2>11. CASE ManagerStep
    BY <2>1, <2>11 DEF ManagerStep, HandleCreate, ReadGroup, WriteJoin, WriteNotify
  <2>12. CASE UNCHANGED vars
    BY <2>1, <2>12 DEF vars
  <2> QED
    BY <2>6, <2>7, <2>8, <2>9, <2>10, <2>11, <2>12 DEF Next, Finished
<1> QED  BY <1>3, <1>4

LEMMA AgreementInvInit == Init => AgreementInv
<1>1. Init => UnfinishedHoldsCaller /\ RolledBackHasReason
  BY BranchFacts DEF Init, UnfinishedHoldsCaller, RolledBackHasReason, Is
<1> QED  BY <1>1, DecisionInit DEF AgreementInv

LEMMA AgreementInvStep == Sound /\ AgreementInv /\ [Next]_vars => AgreementInv'
BY DecisionStep, UnfinishedStep, RolledBackStep DEF AgreementInv, Sound

(* The inductive invariant of agreement holds in every reachable state: a   *)
(* joiner that has not returned holds its caller back or has failed it, and *)
(* no branch is rolled back without having told its caller.                 *)
THEOREM AgreementInvHolds == ASSUME Sound PROVE Spec => []AgreementInv
BY AgreementInvInit, AgreementInvStep, PTL DEF Spec

LEMMA AgreementFollows == AgreementInv => Agreement
<1> SUFFICES ASSUME AgreementInv, NEW a \in Branches, NEW b \in Branches,
                    Is(a, "committed"), Is(b, "rolledBack")
             PROVE  FALSE
  BY DEF Agreement
<1>1. Decided /\ ok[Starter]
  BY DEF AgreementInv, DecisionInv, CommittedAsDecided
<1>2. b \in Joiners /\ pc[b] = "failed"
  BY <1>1 DEF AgreementInv, RolledBackHasReason
<1>3. Returned(b)
  BY <1>1, <1>2, DecidedMeansReturned DEF AgreementInv, DecisionInv
<1> QED  BY <1>2, <1>3 DEF Returned

(* When failures propagate and connections hold, no group, of any number of *)
(* branches in any call tree, has a committed and a rolled-back branch.     *)
THEOREM GroupsAgree == ASSUME Sound PROVE Spec => []Agreement
BY AgreementInvHolds, AgreementFollows, PTL

-----------------------------------------------------------------------------
(* The protocol implements GroupCommit: the end of the starter's business   *)
(* method is the decision, the end of a held connection is that branch's    *)
(* outcome, and every other step leaves both alone.                         *)

LEMMA DecisionFacts ==
  ASSUME TypeOK
  PROVE  /\ Decision = "none" <=> ~Decided
         /\ Decision = "commit" <=> Decided /\ ok[Starter]
         /\ Decision = "rollback" <=> Decided /\ ~ok[Starter]
         /\ Decision \in {"none", "commit", "rollback"}
BY DEF Decision, Decided

LEMMA OutcomeFacts ==
  ASSUME TypeOK, NEW b \in Branches
  PROVE  /\ Outcome[b] = "working" <=> work[b] \in {"none", "open"}
         /\ Outcome[b] = "committed" <=> work[b] = "committed"
         /\ Outcome[b] = "rolledBack" <=> work[b] = "rolledBack"
BY DEF Outcome, TypeOK

LEMMA RefinementInit == Init => Abstract!Init
<1> SUFFICES ASSUME Init PROVE Abstract!Init
  OBVIOUS
<1>1. Decision = "none"
  BY BranchFacts DEF Init, Decision, Decided
<1>2. Outcome = [b \in Branches |-> "working"]
  BY DEF Init, Outcome
<1> QED  BY <1>1, <1>2 DEF Abstract!Init

(* A step that ends one held connection is a commit or a rollback of it, or  *)
(* changes nothing an abstract group has.                                    *)
LEMMA OutcomeStep ==
  ASSUME TypeOK, NEW b \in Branches, NEW s \in BOOLEAN, UNCHANGED Decision,
         work' = [work EXCEPT ![b] = Committed(@, s)],
         s => Decision = "commit",
         ~s => Decision # "commit"
  PROVE  [Abstract!Next]_(Abstract!vars)
<1> USE DEF TypeOK
<1>1. CASE work[b] # "open"
  <2>1. work' = work
    BY <1>1 DEF Committed
  <2>2. Outcome' = Outcome
    BY <2>1 DEF Outcome
  <2> QED  BY <2>2 DEF Abstract!vars
<1>2. CASE work[b] = "open"
  <2> DEFINE w == IF s THEN "committed" ELSE "rolledBack"
  <2>1. work' = [work EXCEPT ![b] = w]
    BY <1>2 DEF Committed
  <2>2. Outcome[b] = "working"
    BY <1>2 DEF Outcome
  <2>3. Outcome' = [Outcome EXCEPT ![b] = w]
    BY <2>1 DEF Outcome
  <2>4. CASE s
    <3>1. Abstract!Commit(b)
      BY <2>2, <2>3, <2>4 DEF Abstract!Commit
    <3> QED  BY <3>1 DEF Abstract!Next
  <2>5. CASE ~s
    <3>1. Abstract!Rollback(b)
      BY <2>2, <2>3, <2>5 DEF Abstract!Rollback
    <3> QED  BY <3>1 DEF Abstract!Next
  <2> QED  BY <2>4, <2>5
<1> QED  BY <1>1, <1>2

(* When the starter has decided to commit no branch has given up: an         *)
(* unfinished one would have failed the starter.                             *)
NobodyRolledBack == Decided /\ ok[Starter] => \A b \in Branches : work[b] # "rolledBack"

LEMMA CommitMeansNobodyRolledBack == AgreementInv => NobodyRolledBack
<1> SUFFICES ASSUME AgreementInv, Decided, ok[Starter],
                    NEW b \in Branches, work[b] = "rolledBack"
             PROVE  FALSE
  BY DEF NobodyRolledBack
<1>1. b \in Joiners /\ pc[b] = "failed"
  BY DEF AgreementInv, RolledBackHasReason, Is
<1>2. Returned(b)
  BY <1>1, DecidedMeansReturned DEF AgreementInv, DecisionInv
<1> QED  BY <1>1, <1>2 DEF Returned

LEMMA NobodyRolledBackNext == AgreementInv' => NobodyRolledBack'
BY CommitMeansNobodyRolledBack, PTL

(* The end of the starter's business method.  It decides to commit only     *)
(* while every branch can follow.                                            *)
LEMMA DecideStep ==
  ASSUME AgreementInv, AgreementInv', ~Decided, UNCHANGED work
  PROVE  [Abstract!Next]_(Abstract!vars)
<1>1. Outcome' = Outcome /\ Decision = "none"
  BY DEF Outcome, Decision, Decided
<1>2. CASE ~Decided'
  <2>1. Decision' = Decision
    BY <1>2 DEF Decision, Decided
  <2> QED  BY <1>1, <2>1 DEF Abstract!vars
<1>3. CASE Decided' /\ ~ok'[Starter]
  <2>1. Decision' = "rollback"
    BY <1>3 DEF Decision, Decided
  <2>2. Abstract!Decide("rollback")
    BY <1>1, <2>1 DEF Abstract!Decide
  <2> QED  BY <2>2 DEF Abstract!Next
<1>4. CASE Decided' /\ ok'[Starter]
  <2>1. Decision' = "commit"
    BY <1>4 DEF Decision, Decided
  <2>2. ASSUME NEW b \in Branches PROVE Outcome[b] = "working"
    <3>1. work[b] # "committed"
      BY DEF AgreementInv, DecisionInv, CommittedAsDecided, Is
    <3>2. work'[b] # "rolledBack"
      BY <1>4, NobodyRolledBackNext DEF NobodyRolledBack
    <3> QED  BY <3>1, <3>2 DEF AgreementInv, DecisionInv, TypeOK, Outcome
  <2>3. Abstract!Decide("commit")
    BY <1>1, <2>1, <2>2 DEF Abstract!Decide
  <2> QED  BY <2>3 DEF Abstract!Next
<1> QED  BY <1>2, <1>3, <1>4

LEMMA RefinementStep ==
  ASSUME Sound, AgreementInv, [Next]_vars
  PROVE  [Abstract!Next]_(Abstract!vars)
<1> DEFINE Goal == [Abstract!Next]_(Abstract!vars)
<1>1. AgreementInv'
  BY AgreementInvStep
<1>2. TypeOK /\ ControlOK /\ MessagesTellTheResult
  BY DEF AgreementInv, DecisionInv
<1>3. Decided => UNCHANGED Decision
  BY DecisionStable DEF AgreementInv, Decision, Decided
<1>4. CASE UNCHANGED work
  <2>1. CASE Decided
    BY <1>3, <1>4, <2>1 DEF Outcome, Abstract!vars
  <2>2. CASE ~Decided
    BY <1>1, <1>4, <2>2, DecideStep
  <2> QED  BY <2>1, <2>2
<1>5. CASE NotifyAnswered
  <2>1. PICK s \in BOOLEAN : /\ NotifyMsg(s) \in replies
                             /\ work' = [work EXCEPT ![Starter] = Committed(@, s /\ ok[Starter])]
    BY <1>5 DEF NotifyAnswered
  <2>2. Decided /\ s = ok[Starter] /\ s \in BOOLEAN
    BY <1>2, <2>1 DEF MessagesTellTheResult
  <2>3. work' = [work EXCEPT ![Starter] = Committed(@, s)]
    BY <2>1, <2>2, Zenon
  <2>4. (s <=> Decision = "commit") /\ UNCHANGED Decision
    BY <1>2, <1>3, <2>2, DecisionFacts
  <2> QED  BY <1>2, <2>2, <2>3, <2>4, BranchFacts, OutcomeStep
<1>6. CASE NotifyTimedOut
  <2>1. Decided /\ ~ok[Starter] /\ work' = [work EXCEPT ![Starter] = Committed(@, FALSE)]
    BY <1>6 DEF NotifyTimedOut, Decided
  <2>2. Decision # "commit" /\ UNCHANGED Decision
    BY <1>2, <1>3, <2>1, DecisionFacts
  <2> QED  BY <1>2, <2>1, <2>2, BranchFacts, OutcomeStep
<1>7. ASSUME NEW j \in Joiners, JoinTimedOut(j) PROVE Goal
  <2>1. /\ pc[j] = "joining" /\ j \in Branches /\ j # Starter
        /\ work' = [work EXCEPT ![j] = Committed(@, FALSE)]
        /\ pc' = [pc EXCEPT ![j] = "failed"] /\ UNCHANGED ok
    BY <1>7, BranchFacts DEF JoinTimedOut, Goto
  <2>2. Decision # "commit"
    <3>1. SUFFICES ASSUME Decided, ok[Starter] PROVE FALSE
      BY <1>2, DecisionFacts
    <3>2. Returned(j)
      BY <1>2, <2>1, <3>1, DecidedMeansReturned DEF AgreementInv
    <3> QED  BY <2>1, <3>2 DEF Returned
  <2>3. UNCHANGED Decision
    BY <1>2, <2>1, BranchFacts DEF Decision, Decided, TypeOK
  <2> QED  BY <1>2, <2>1, <2>2, <2>3, OutcomeStep
<1>8. ASSUME NEW e \in events, CommitEventArrives(e), pc[e.to] = "waiting" PROVE Goal
  <2>1. /\ e.to \in Branches /\ e.commit \in BOOLEAN
        /\ work' = [work EXCEPT ![e.to] = Committed(@, e.commit)]
    BY <1>2, <1>8, BranchFacts DEF CommitEventArrives, TypeOK
  <2>2. Decided /\ e.commit = ok[Starter]
    BY <1>2 DEF MessagesTellTheResult
  <2>3. (e.commit <=> Decision = "commit") /\ UNCHANGED Decision
    BY <1>2, <1>3, <2>2, DecisionFacts
  <2> QED  BY <1>2, <2>1, <2>3, OutcomeStep
<1>9. ASSUME NEW b \in Branches, HoldConnection(b) PROVE Goal
  <2>1. work[b] = "none" /\ work' = [work EXCEPT ![b] = "open"] /\ UNCHANGED <<pc, ok>>
    BY <1>9 DEF HoldConnection
  <2>2. Outcome' = Outcome
    BY <1>2, <2>1 DEF Outcome, TypeOK
  <2>3. Decision' = Decision
    BY <2>1 DEF Decision, Decided
  <2> QED  BY <2>2, <2>3 DEF Abstract!vars
<1>10. ASSUME NEW b \in Branches, ConnectionBreaks(b) PROVE Goal
  BY <1>10 DEF ConnectionBreaks, Sound
<1>11. ASSUME NEW e \in events, CommitEventArrives(e) PROVE Goal
  BY <1>4, <1>8, <1>11 DEF CommitEventArrives
<1>12. CASE StarterStep
  BY <1>4, <1>5, <1>6, <1>12
     DEF StarterStep, SendCreate, CreateAnswered, CreateFails, SendNotify, NotifyRetried, NotifyThrows, tcVars
<1>13. ASSUME NEW b \in Branches, BusinessStep(b) PROVE Goal
  BY <1>4, <1>9, <1>13
     DEF BusinessStep, RpcReturns, RpcFails, BusinessSucceeds, BusinessFails, Call
<1>14. ASSUME NEW j \in Joiners, JoinerStep(j) PROVE Goal
  BY <1>4, <1>7, <1>14 DEF JoinerStep, SendJoin, JoinAnswered, AwaitCommit, AwaitEnds, JoinThrows
<1>15. CASE ManagerStep
  BY <1>4, <1>15 DEF ManagerStep, HandleCreate, ReadGroup, WriteJoin, WriteNotify, tcVars
<1>16. CASE UNCHANGED vars
  BY <1>4, <1>16 DEF vars
<1> QED
  BY <1>10, <1>11, <1>12, <1>13, <1>14, <1>15, <1>16 DEF Next, Finished

(* When failures propagate and connections hold, every behaviour of the      *)
(* protocol is, seen from the branches' databases, one of the abstract group *)
(* commit: one decision, taken while every branch can still follow, and no   *)
(* branch that ends against it.                                              *)
THEOREM ProtocolImplementsGroupCommit == ASSUME Sound PROVE Spec => ImplementsGroupCommit
<1>1. AgreementInv /\ [Next]_vars => [Abstract!Next]_(Abstract!vars)
  BY RefinementStep
<1> QED
  BY <1>1, RefinementInit, AgreementInvHolds, PTL
     DEF Spec, ImplementsGroupCommit, Abstract!Spec

-----------------------------------------------------------------------------
(* What GroupCommit alone promises: its branches end only with the decision, *)
(* and the decision, once taken, stands.                                     *)

FollowsDecision ==
  \A b \in Branches : /\ Outcome[b] = "committed" => Decision = "commit"
                      /\ Outcome[b] = "rolledBack" => Decision # "commit"

LEMMA FollowsDecisionStep ==
  FollowsDecision /\ [Abstract!Next]_(Abstract!vars) => FollowsDecision'
<1> SUFFICES ASSUME FollowsDecision, [Abstract!Next]_(Abstract!vars), NEW b \in Branches
             PROVE  /\ Outcome'[b] = "committed" => Decision' = "commit"
                    /\ Outcome'[b] = "rolledBack" => Decision' # "commit"
  BY DEF FollowsDecision
<1> USE DEF FollowsDecision
<1>1. ASSUME NEW d \in {"commit", "rollback"}, Abstract!Decide(d)
      PROVE  /\ Outcome' = Outcome /\ Decision = "none" /\ Decision' = d
             /\ d = "commit" => Outcome[b] = "working"
  BY <1>1 DEF Abstract!Decide
<1>2. ASSUME NEW c \in Branches, Abstract!Commit(c)
      PROVE  /\ Decision = "commit" /\ Decision' = Decision
             /\ Outcome'[b] = Outcome[b] \/ Outcome'[b] = "committed"
  BY <1>2 DEF Abstract!Commit, Outcome
<1>3. ASSUME NEW c \in Branches, Abstract!Rollback(c)
      PROVE  /\ Decision # "commit" /\ Decision' = Decision
             /\ Outcome'[b] = Outcome[b] \/ Outcome'[b] = "rolledBack"
  BY <1>3 DEF Abstract!Rollback, Outcome
<1>4. CASE UNCHANGED Abstract!vars
  BY <1>4 DEF Abstract!vars
<1> QED  BY <1>1, <1>2, <1>3, <1>4 DEF Abstract!Next

(* GroupCommit is strong enough to be what it is for: in every behaviour of  *)
(* it, and so in every system that implements it, no branch is committed     *)
(* while another one is rolled back.                                         *)
THEOREM GroupCommitMeansAgreement == Abstract!Spec => []Agreement
<1>1. Abstract!Init => FollowsDecision
  BY DEF Abstract!Init, FollowsDecision
<1>2. FollowsDecision => Agreement
  BY DEF FollowsDecision, Agreement, Is, Outcome
<1> QED  BY <1>1, <1>2, FollowsDecisionStep, PTL DEF Abstract!Spec
=============================================================================
