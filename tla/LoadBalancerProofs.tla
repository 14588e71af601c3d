------------------------- MODULE LoadBalancerProofs -------------------------
(***************************************************************************)
(* Proofs about LoadBalancer for any number of TMs, TCs and requests, and   *)
(* any bounds on the executions and on the connections that come and go.    *)
(* The argument follows one request: at most one event of it that nobody    *)
(* has executed is on its way or in a handler's hands, and every event that *)
(* is marked as executed holds an id that was generated for the request.    *)
(***************************************************************************)
EXTENDS LoadBalancer, FiniteSetTheorems, TLAPS

Ends(l) == {l[1], l[2]}

MessageType == [of : Requests, link : Links, to : Nodes,
                messageId : {"asked", "forward", Null}, first : BOOLEAN,
                done : BOOLEAN, id : Nat \cup {Null}, named : BOOLEAN]

Execution == [of : Requests, at : Nodes, alone : BOOLEAN, again : BOOLEAN]

PcStates == {"none", "choosing", "chosen", "sending", "waiting", "woken", "done", "failed"}

Types ==
  /\ links \subseteq Links
  /\ leader \in [Tms -> Links \cup {Null}]
  /\ net \subseteq MessageType
  /\ \A m \in net : m.link \in links /\ m.id \in Ids
  /\ tc \in [Requests -> {"new", "waiting", "timed out", "answered"}]
  /\ got \in [Requests -> Ids] /\ answer \in [Requests -> Nat \cup {Null}]
  /\ pc \in [Requests -> PcStates]
  /\ at \in [Requests -> Tms \cup {Null}] /\ via \in [Requests -> Links \cup {Null}]
  /\ \A r \in Requests : pc[r] # "none" => at[r] \in Tms /\ via[r] \in Links
  /\ executed \in Seq(Execution)
  /\ crossed \in [Requests -> Nat]
  /\ changes \in Nat

-----------------------------------------------------------------------------
(* Connections, messages and the history of executions *)

LEMMA LinkFacts ==
  ASSUME NEW l \in Links
  PROVE  /\ l[1] \in Nodes /\ l[2] \in Tms /\ l[1] # l[2] /\ Ends(l) \subseteq Nodes
         /\ \A n \in Ends(l) : Peer(l, n) \in Ends(l) /\ Peer(l, n) # n
BY DEF Links, Nodes, Ends, Peer

LEMMA AbsMessageForm ==
  ASSUME NEW r \in Requests, NEW l \in Links, at[r] \in Ends(l)
  PROVE  LET m == AbsMessage(r, l)
         IN  /\ m \in MessageType
             /\ m.of = r /\ m.link = l /\ m.to = Peer(l, at[r]) /\ m.messageId = "forward"
             /\ m.first = FALSE /\ m.done = FALSE /\ m.id = Null /\ m.named = (Kind[r] = "id")
BY LinkFacts DEF AbsMessage, Message, MessageType

CallBack(r) == [Message(r, via[r], at[r], "asked", TRUE) EXCEPT !.done = TRUE, !.id = answer[r]]

LEMMA CallBackForm ==
  ASSUME NEW r \in Requests, via[r] \in Links, at[r] \in Ends(via[r]), answer[r] \in Nat \cup {Null}
  PROVE  LET m == CallBack(r)
         IN  /\ m \in MessageType
             /\ m.of = r /\ m.link = via[r] /\ m.to = Peer(via[r], at[r]) /\ m.messageId = "asked"
             /\ m.first = TRUE /\ m.done = TRUE /\ m.id = answer[r] /\ m.named = TRUE
BY LinkFacts DEF CallBack, Message, MessageType

LEMMA AnswerForm ==
  ASSUME NEW m \in MessageType, m.to \in Ends(m.link), Len(executed) \in Nat
  PROVE  LET a == Answer(m)
         IN  /\ a \in MessageType
             /\ a.of = m.of /\ a.link = m.link /\ a.to = Peer(m.link, m.to)
             /\ a.messageId = m.messageId /\ a.first = m.first /\ a.named = m.named
             /\ a.done = (Kind[m.of] = "id")
             /\ a.id = IF Kind[m.of] = "id" THEN NextId ELSE Null
<1> DEFINE n == Peer(m.link, m.to)
           d == Kind[m.of] = "id"
           i == IF Kind[m.of] = "id" THEN NextId ELSE Null
           a == [of |-> m.of, link |-> m.link, to |-> n, messageId |-> m.messageId,
                 first |-> m.first, done |-> d, id |-> i, named |-> m.named]
<1>1. m = [of |-> m.of, link |-> m.link, to |-> m.to, messageId |-> m.messageId,
           first |-> m.first, done |-> m.done, id |-> m.id, named |-> m.named]
  BY DEF MessageType
<1>2. Answer(m) = a
  <2>1. Answer(m) = [m EXCEPT !.to = n, !.done = d, !.id = i]
    BY DEF Answer
  <2> HIDE DEF n, d, i
  <2> QED  BY <1>1, <2>1
<1>3. /\ m.of \in Requests /\ m.link \in Links /\ m.messageId \in {"asked", "forward", Null}
      /\ m.first \in BOOLEAN /\ m.named \in BOOLEAN
  BY DEF MessageType
<1>4. n \in Nodes /\ d \in BOOLEAN /\ i \in Nat \cup {Null}
  BY <1>3, LinkFacts DEF NextId
<1>5. a \in MessageType
  <2> HIDE DEF n, d, i
  <2> QED  BY <1>3, <1>4 DEF MessageType
<1> QED  BY <1>2, <1>5

LEMMA AppendFacts ==
  ASSUME executed \in Seq(Execution), NEW e \in Execution, executed' = Append(executed, e)
  PROVE  /\ Len(executed) \in Nat /\ NextId = Len(executed) + 1
         /\ Executions' = Executions \cup {NextId} /\ NextId \notin Executions
         /\ executed' \in Seq(Execution)
         /\ \A i \in Executions : executed'[i] = executed[i] /\ i < NextId
         /\ executed'[NextId] = e
BY DEF Executions, NextId

-----------------------------------------------------------------------------
(* The invariant *)

Unexecuted(r) == \A i \in Executions : executed[i].of # r
IdFor(i, r)   == i \in Executions /\ executed[i].of = r

(* An event on its way to a TM that nobody has executed. *)
Fresh(m) == m.to \in Tms /\ ~m.done

MessageOK(m) ==
  /\ m.to \in Ends(m.link) /\ tc[m.of] # "new"
  /\ Fresh(m) => Unexecuted(m.of)
  /\ m.done => m.named /\ IdFor(m.id, m.of)
  /\ m.first => /\ m.messageId = "asked" => m.done \/ Kind[m.of] = "id"
                /\ m.messageId = "asked" /\ m.to \in Tcs => m.done
                /\ m.messageId # "forward"
                /\ m.to \in Tms => Peer(m.link, m.to) \in Tcs /\ ~m.done /\ pc[m.of] = "none"
  /\ ~m.first => /\ m.messageId = "forward" /\ (m.named => Kind[m.of] = "id")
                 /\ pc[m.of] \in {"waiting", "woken", "done", "failed"}
                 /\ m.to = at[m.of] => m.done

HandlerOK(r) ==
  /\ tc[r] = "new" => pc[r] = "none" /\ Unexecuted(r)
  /\ pc[r] \in {"choosing", "chosen", "sending"} => Unexecuted(r)
  /\ pc[r] # "none" => tc[r] # "new" /\ at[r] \in Ends(via[r]) /\ Peer(via[r], at[r]) \in Tcs
  /\ pc[r] = "woken" => IdFor(answer[r], r)
  /\ tc[r] = "answered" => IdFor(got[r], r)
  /\ answer[r] \in Ids

OneFresh == \A m, o \in net : Fresh(m) /\ Fresh(o) /\ m.of = o.of => m = o

LeaderOK == \A n \in Tms : leader[n] # Null => n \in Ends(leader[n])

EventInv == /\ Types /\ LeaderOK /\ OneFresh
            /\ \A m \in net : MessageOK(m)
            /\ \A r \in Requests : HandlerOK(r)

LEMMA EventInit == Init => EventInv
BY LoadBalancerAssumption
   DEF Init, EventInv, Types, LeaderOK, OneFresh, HandlerOK, Unexecuted, Executions, Ids, PcStates

(* Steps that execute nothing and move no handler into another's way: what   *)
(* was on its way stays as good as it was.                                   *)
LEMMA KeptMessages ==
  ASSUME EventInv, UNCHANGED executed,
         \A r \in Requests : /\ tc[r] # "new" => tc'[r] # "new"
                             /\ pc[r] \notin {"choosing", "chosen", "sending"} =>
                                  at'[r] = at[r] /\ (pc[r] = "none" => pc'[r] = "none")
                             /\ pc[r] \in {"waiting", "woken", "done", "failed"} =>
                                  pc'[r] \in {"waiting", "woken", "done", "failed"},
         NEW m \in net
  PROVE  MessageOK(m)'
<1>1. m.of \in Requests /\ pc[m.of] \in PcStates
  BY DEF EventInv, Types, MessageType
<1>2. MessageOK(m)
  BY DEF EventInv
<1>3. CASE m.first
  BY <1>1, <1>2, <1>3 DEF MessageOK, Fresh, Unexecuted, IdFor, Executions, Ends, Peer
<1>4. CASE ~m.first
  BY <1>1, <1>2, <1>4 DEF MessageOK, Fresh, Unexecuted, IdFor, Executions, Ends
<1> QED  BY <1>3, <1>4

(* Steps that execute nothing, write nothing and wake nobody.               *)
LEMMA QuietStep ==
  ASSUME EventInv, UNCHANGED <<got, answer, at, via, executed, crossed>>,
         net' \subseteq net, \A m \in net' : m.link \in links',
         links' \subseteq Links, changes' \in Nat, leader' \in [Tms -> Links \cup {Null}], LeaderOK',
         tc' \in [Requests -> {"new", "waiting", "timed out", "answered"}],
         pc' \in [Requests -> PcStates],
         \A r \in Requests :
           /\ (tc'[r] = "new") = (tc[r] = "new") /\ (tc'[r] = "answered" => tc[r] = "answered")
           /\ (pc'[r] = "none") = (pc[r] = "none")
           /\ pc'[r] \in {"choosing", "chosen", "sending"} => pc[r] \in {"choosing", "chosen", "sending"}
           /\ pc'[r] = "woken" => pc[r] = "woken"
           /\ pc[r] \in {"waiting", "woken", "done", "failed"} =>
                pc'[r] \in {"waiting", "woken", "done", "failed"}
  PROVE  EventInv'
<1>1. Types'
  BY DEF EventInv, Types, Ids, Executions
<1>2. OneFresh'
  BY DEF EventInv, OneFresh, Fresh
<1>3. ASSUME NEW m \in net' PROVE MessageOK(m)'
  BY KeptMessages
<1>4. ASSUME NEW r \in Requests PROVE HandlerOK(r)'
  <2>1. HandlerOK(r)
    BY DEF EventInv
  <2>2. IdFor(answer[r], r)' = IdFor(answer[r], r) /\ IdFor(got[r], r)' = IdFor(got[r], r)
    BY DEF IdFor, Executions
  <2>3. Unexecuted(r)' = Unexecuted(r) /\ Ids' = Ids
    BY DEF Unexecuted, Executions, Ids
  <2> QED  BY <2>1, <2>2, <2>3 DEF HandlerOK, Ends, Peer
<1> QED  BY <1>1, <1>2, <1>3, <1>4 DEF EventInv

LEMMA HandlerSteps ==
  ASSUME EventInv, NEW r \in Requests,
         \/ TcGivesUp(r) \/ SelectLeaderWithoutTc(r) \/ SelectLeader(r)
         \/ RecordExpires(r) \/ CheckLeaderFails(r) \/ TimesUp(r)
  PROVE  EventInv'
<1> USE DEF handler, history, Goto, PcStates
<1>1. CASE TcGivesUp(r)
  BY <1>1, QuietStep DEF EventInv, Types, TcGivesUp, LeaderOK
<1>2. CASE SelectLeaderWithoutTc(r) \/ SelectLeader(r)
  <2>1. at[r] \in Tms /\ pc[r] \in {"choosing", "chosen"} /\ pc' \in [Requests -> PcStates]
        /\ pc' = [pc EXCEPT ![r] = IF pc[r] = "choosing" THEN "chosen" ELSE "sending"]
        /\ UNCHANGED <<links, net, tc, got, at, via, answer, executed, crossed, changes>>
    BY <1>2 DEF EventInv, Types, SelectLeaderWithoutTc, SelectLeader
  <2>2. leader' = leader \/ \E l \in Connections(at[r]) \cup {Null} : leader' = [leader EXCEPT ![at[r]] = l]
    BY <1>2 DEF SelectLeaderWithoutTc, SelectLeader, Candidates
  <2>3. Connections(at[r]) \subseteq {l \in Links : at[r] \in Ends(l)}
    BY DEF EventInv, Types, Connections, Ends
  <2>4. leader' \in [Tms -> Links \cup {Null}] /\ LeaderOK'
    <3>1. ASSUME NEW l \in Connections(at[r]) \cup {Null}, leader' = [leader EXCEPT ![at[r]] = l]
          PROVE  leader' \in [Tms -> Links \cup {Null}] /\ LeaderOK'
      <4>1. l \in Links \cup {Null} /\ (l # Null => at[r] \in Ends(l))
        BY <2>3, <3>1
      <4>2. leader' \in [Tms -> Links \cup {Null}]
        BY <3>1, <4>1 DEF EventInv, Types
      <4>3. ASSUME NEW n \in Tms, leader'[n] # Null PROVE n \in Ends(leader'[n])
        BY <2>1, <3>1, <4>1, <4>3 DEF EventInv, Types, LeaderOK
      <4> QED  BY <4>2, <4>3 DEF LeaderOK, Ends
    <3> QED  BY <2>2, <3>1 DEF EventInv, Types, LeaderOK
  <2>5. \A m \in net' : m.link \in links'
    BY <2>1 DEF EventInv, Types
  <2> QED  BY <2>1, <2>4, <2>5, QuietStep DEF EventInv, Types
<1>3. CASE RecordExpires(r)
  BY <1>3, QuietStep DEF EventInv, Types, RecordExpires, LeaderOK
<1>4. CASE CheckLeaderFails(r)
  BY <1>4, QuietStep DEF EventInv, Types, CheckLeaderFails, LeaderOK
<1>5. CASE TimesUp(r)
  BY <1>5, QuietStep DEF EventInv, Types, TimesUp, LeaderOK
<1> QED  BY <1>1, <1>2, <1>3, <1>4, <1>5

LEMMA ConnectionSteps ==
  ASSUME EventInv, NEW l \in Links, Open(l) \/ Close(l)
  PROVE  EventInv'
<1> links \subseteq Links /\ changes \in Nat /\ \A m \in net : m.link \in links
  BY DEF EventInv, Types
<1>1. /\ links' \subseteq Links /\ changes' \in Nat /\ net' \subseteq net
      /\ \A m \in net' : m.link \in links'
      /\ UNCHANGED <<leader, tc, got, pc, at, via, answer, executed, crossed>>
  <2>1. CASE Open(l)
    <3>1. /\ links' = links \cup {l} /\ changes' = changes + 1
          /\ UNCHANGED <<leader, net, tc, got, pc, at, via, answer, executed, crossed>>
      BY <2>1 DEF Open, handler, history
    <3> QED  BY <3>1
  <2>2. CASE Close(l)
    <3>1. /\ links' = links \ {l} /\ changes' = changes + 1 /\ net' = {m \in net : m.link # l}
          /\ UNCHANGED <<leader, tc, got, pc, at, via, answer, executed, crossed>>
      BY <2>2 DEF Close, handler, history
    <3> QED  BY <3>1
  <2> QED  BY <2>1, <2>2
<1>2. LeaderOK' /\ leader' \in [Tms -> Links \cup {Null}]
  BY <1>1 DEF EventInv, Types, LeaderOK
<1> QED  BY <1>1, <1>2, QuietStep DEF EventInv, Types

LEMMA TcAsksStep ==
  ASSUME EventInv, NEW r \in Requests, TcAsks(r)
  PROVE  EventInv'
<1> DEFINE mid == IF Kind[r] = "id" THEN "asked" ELSE Null
<1>1. PICK l \in Connections(From[r]) : net' = net \cup {Message(r, l, From[r], mid, TRUE)}
  BY DEF TcAsks
<1> DEFINE m == Message(r, l, From[r], mid, TRUE)
<1>2. l \in links /\ l \in Links /\ From[r] \in Ends(l) /\ From[r] \in Tcs /\ From[r] \notin Tms
  BY LoadBalancerAssumption DEF Connections, EventInv, Types, Ends
<1>3. mid \in {"asked", "forward", Null} /\ (mid = "asked" => Kind[r] = "id") /\ mid # "forward"
  BY LoadBalancerAssumption
<1> HIDE DEF mid
<1>4. /\ m \in MessageType /\ m.of = r /\ m.link = l /\ m.to = Peer(l, From[r]) /\ m.messageId = mid
      /\ m.first = TRUE /\ m.done = FALSE /\ m.id = Null /\ m.named = TRUE
  <2>1. m = Message(r, l, From[r], mid, TRUE)
    OBVIOUS
  <2> HIDE DEF m
  <2>2. Peer(l, From[r]) \in Nodes
    BY <1>2, LinkFacts
  <2> QED  BY <1>2, <1>3, <2>1, <2>2 DEF Message, MessageType
<1>5. net' = net \cup {m}
  BY <1>1
<1> HIDE DEF m
<1>6. m.to \in Ends(l) /\ m.to \in Tms /\ Peer(l, m.to) = From[r] /\ m.to \notin Tcs
  BY <1>2, <1>4, LoadBalancerAssumption DEF Links, Nodes, Ends, Peer
<1>7. /\ tc[r] = "new" /\ tc' = [tc EXCEPT ![r] = "waiting"]
      /\ UNCHANGED <<links, leader, got, pc, at, via, answer, executed, crossed, changes>>
  BY DEF TcAsks, handler, history
<1>8. pc[r] = "none" /\ Unexecuted(r) /\ \A o \in net : o.of # r
  BY <1>7 DEF EventInv, HandlerOK, MessageOK
<1>9. Types'
  BY <1>2, <1>4, <1>5, <1>7 DEF EventInv, Types, Ids, Executions
<1>10. LeaderOK' /\ OneFresh'
  BY <1>4, <1>5, <1>7, <1>8 DEF EventInv, LeaderOK, OneFresh, Fresh
<1>11. ASSUME NEW o \in net' PROVE MessageOK(o)'
  <2>1. CASE o \in net
    BY <1>7, <2>1, KeptMessages DEF EventInv, Types
  <2>2. CASE o = m
    <3>1. tc'[r] # "new" /\ Unexecuted(r)' /\ pc'[r] = "none"
      BY <1>7, <1>8 DEF EventInv, Types, Unexecuted, Executions
    <3>2. MessageOK(m)'
      BY <1>2, <1>3, <1>4, <1>6, <3>1, LoadBalancerAssumption DEF MessageOK, Fresh
    <3> QED  BY <2>2, <3>2
  <2> QED  BY <1>5, <2>1, <2>2
<1>12. ASSUME NEW q \in Requests PROVE HandlerOK(q)'
  <2>1. HandlerOK(q) /\ (q # r => tc'[q] = tc[q]) /\ tc'[r] = "waiting"
    BY <1>7 DEF EventInv, Types
  <2>2. IdFor(answer[q], q)' = IdFor(answer[q], q) /\ IdFor(got[q], q)' = IdFor(got[q], q)
    BY <1>7 DEF IdFor, Executions
  <2>3. Unexecuted(q)' = Unexecuted(q) /\ Ids' = Ids
    BY <1>7 DEF Unexecuted, Executions, Ids
  <2> QED  BY <1>7, <1>8, <2>1, <2>2, <2>3 DEF HandlerOK, Ends, Peer
<1> QED  BY <1>9, <1>10, <1>11, <1>12 DEF EventInv

LEMMA TcHandlesStep ==
  ASSUME EventInv, NEW m \in net, TcHandles(m)
  PROVE  EventInv'
<1>1. m.of \in Requests /\ MessageOK(m) /\ m.id \in Ids
  BY DEF EventInv, Types, MessageType
<1>2. /\ m.to \in Tcs /\ net' = net \ {m}
      /\ UNCHANGED <<links, leader, pc, at, via, answer, executed, crossed, changes>>
      /\ \/ UNCHANGED <<tc, got>>
         \/ /\ m.messageId = "asked" /\ tc[m.of] = "waiting"
            /\ tc' = [tc EXCEPT ![m.of] = "answered"] /\ got' = [got EXCEPT ![m.of] = m.id]
  BY DEF TcHandles, handler, history
<1>3. m.messageId = "asked" => IdFor(m.id, m.of)
  BY <1>1, <1>2 DEF MessageOK
<1>4. Types'
  BY <1>1, <1>2 DEF EventInv, Types, Ids, Executions
<1>5. LeaderOK' /\ OneFresh'
  BY <1>2 DEF EventInv, LeaderOK, OneFresh, Fresh
<1>6. ASSUME NEW o \in net' PROVE MessageOK(o)'
  BY <1>1, <1>2, KeptMessages DEF EventInv, Types
<1>7. ASSUME NEW q \in Requests PROVE HandlerOK(q)'
  <2>1. HandlerOK(q) /\ (tc'[q] = "new" => tc[q] = "new")
    BY <1>1, <1>2 DEF EventInv, Types
  <2>2. tc'[q] = "answered" => IdFor(got'[q], q)
    BY <1>1, <1>2, <1>3, <2>1 DEF EventInv, Types, HandlerOK
  <2> QED  BY <1>2, <2>1, <2>2 DEF HandlerOK, Unexecuted, IdFor, Executions, Ids
<1> QED  BY <1>4, <1>5, <1>6, <1>7 DEF EventInv

(* An answer that is awaited is an id, so it was executed for the request.  *)
LEMMA AwaitedFacts ==
  ASSUME EventInv, NEW m \in net, m.to \in Tms, Awaited(m)
  PROVE  /\ ~m.first /\ m.done /\ m.named /\ IdFor(m.id, m.of)
         /\ pc[m.of] = "waiting" /\ m.of \in Requests
BY DEF EventInv, Types, MessageType, MessageOK, Awaited

LEMMA TmIgnoresStep ==
  ASSUME EventInv, NEW m \in net, TmIgnores(m)
  PROVE  EventInv'
<1>1. m.of \in Requests /\ m.id \in Ids /\ m.to \in Tms
  BY DEF EventInv, Types, MessageType, TmIgnores
<1>2. /\ net' = net \ {m}
      /\ UNCHANGED <<links, leader, tc, got, at, via, executed, crossed, changes>>
  BY DEF TmIgnores, handler, history
<1>3. \/ UNCHANGED <<pc, answer>>
      \/ Awaited(m) /\ pc' = [pc EXCEPT ![m.of] = "woken"] /\ answer' = [answer EXCEPT ![m.of] = m.id]
  BY DEF TmIgnores, Wake, Goto
<1>4. Awaited(m) => IdFor(m.id, m.of) /\ pc[m.of] = "waiting"
  BY <1>1, AwaitedFacts
<1>5. Types'
  <2>1. /\ pc' \in [Requests -> PcStates] /\ answer' \in [Requests -> Nat \cup {Null}]
        /\ \A r \in Requests : pc'[r] # "none" => pc[r] # "none"
    <3>1. pc \in [Requests -> PcStates] /\ answer \in [Requests -> Nat \cup {Null}]
          /\ m.id \in Nat \cup {Null}
      BY DEF EventInv, Types, MessageType
    <3> QED  BY <1>1, <1>3, <1>4, <3>1 DEF PcStates
  <2> QED  BY <1>2, <2>1 DEF EventInv, Types, Ids, Executions
<1>6. LeaderOK' /\ OneFresh'
  BY <1>2 DEF EventInv, LeaderOK, OneFresh, Fresh
<1>7. \A r \in Requests : /\ pc[r] = "none" => pc'[r] = "none"
                          /\ pc'[r] \in {"choosing", "chosen", "sending"} =>
                               pc[r] \in {"choosing", "chosen", "sending"}
                          /\ pc[r] \in {"waiting", "woken", "done", "failed"} =>
                               pc'[r] \in {"waiting", "woken", "done", "failed"}
  BY <1>1, <1>3, <1>4 DEF EventInv, Types
<1>8. ASSUME NEW o \in net' PROVE MessageOK(o)'
  BY <1>2, <1>7, KeptMessages
<1>9. ASSUME NEW q \in Requests PROVE HandlerOK(q)'
  <2>1. HandlerOK(q) /\ (pc'[q] # "none" => pc[q] # "none") /\ answer'[q] \in Ids
    BY <1>1, <1>3, <1>4 DEF EventInv, Types, HandlerOK
  <2>2. pc'[q] = "woken" => IdFor(answer'[q], q)
    BY <1>1, <1>3, <1>4, <2>1 DEF EventInv, Types, HandlerOK
  <2> QED  BY <1>2, <1>7, <2>1, <2>2 DEF HandlerOK, Unexecuted, IdFor, Executions, Ids
<1> QED  BY <1>5, <1>6, <1>8, <1>9 DEF EventInv

LEMMA TmForwardsStep ==
  ASSUME EventInv, NEW m \in net, TmForwards(m)
  PROVE  EventInv'
<1>1. m.of \in Requests /\ m.to \in Tms /\ m.first /\ MessageOK(m) /\ m.link \in Links
  BY DEF EventInv, Types, MessageType, TmForwards, Forwards
<1>2. /\ net' = net \ {m} /\ pc' = [pc EXCEPT ![m.of] = "choosing"]
      /\ at' = [at EXCEPT ![m.of] = m.to] /\ via' = [via EXCEPT ![m.of] = m.link]
      /\ UNCHANGED <<links, leader, tc, got, answer, executed, crossed, changes>>
  BY DEF TmForwards, handler, history, Goto
<1>3. /\ Peer(m.link, m.to) \in Tcs /\ ~m.done /\ pc[m.of] = "none" /\ tc[m.of] # "new"
      /\ Fresh(m) /\ Unexecuted(m.of) /\ m.to \in Ends(m.link)
  BY <1>1 DEF MessageOK, Fresh
<1>4. Types'
  BY <1>1, <1>2 DEF EventInv, Types, Ids, Executions, PcStates
<1>5. LeaderOK' /\ OneFresh'
  BY <1>2 DEF EventInv, LeaderOK, OneFresh, Fresh
<1>6. ASSUME NEW o \in net' PROVE MessageOK(o)'
  <2>1. MessageOK(o) /\ o \in net /\ o # m /\ o.of \in Requests
    BY <1>2 DEF EventInv, Types, MessageType
  <2>2. CASE o.of = m.of
    <3>1. ~Fresh(o)
      BY <1>3, <2>1, <2>2 DEF EventInv, OneFresh
    <3>2. o.first /\ o.to \notin Tms
      BY <1>3, <2>1, <2>2, <3>1 DEF MessageOK, Fresh
    <3> QED  BY <1>2, <2>1, <3>1, <3>2 DEF MessageOK, Fresh, Unexecuted, IdFor, Executions, Ends
  <2>3. CASE o.of # m.of
    <3>1. pc'[o.of] = pc[o.of] /\ at'[o.of] = at[o.of]
      BY <1>1, <1>2, <2>1, <2>3 DEF EventInv, Types
    <3>2. UNCHANGED <<tc, executed>>
      BY <1>2
    <3>3. CASE o.first
      BY <2>1, <3>1, <3>2, <3>3 DEF MessageOK, Fresh, Unexecuted, IdFor, Executions, Ends, Peer
    <3>4. CASE ~o.first
      BY <2>1, <3>1, <3>2, <3>4 DEF MessageOK, Fresh, Unexecuted, IdFor, Executions, Ends
    <3> QED  BY <3>3, <3>4
  <2> QED  BY <2>2, <2>3
<1>7. ASSUME NEW q \in Requests PROVE HandlerOK(q)'
  <2>1. HandlerOK(q)
    BY DEF EventInv
  <2>2. CASE q = m.of
    <3>1. pc'[q] = "choosing" /\ at'[q] = m.to /\ via'[q] = m.link
      BY <1>1, <1>2, <2>2 DEF EventInv, Types
    <3> QED  BY <1>2, <1>3, <2>1, <2>2, <3>1 DEF HandlerOK, Unexecuted, IdFor, Executions, Ids, Ends, Peer
  <2>3. CASE q # m.of
    <3>1. pc'[q] = pc[q] /\ at'[q] = at[q] /\ via'[q] = via[q]
      BY <1>1, <1>2, <2>3 DEF EventInv, Types
    <3> QED  BY <1>2, <2>1, <3>1 DEF HandlerOK, Unexecuted, IdFor, Executions, Ids, Ends, Peer
  <2> QED  BY <2>2, <2>3
<1> QED  BY <1>4, <1>5, <1>6, <1>7 DEF EventInv

LEMMA RequestMsgStep ==
  ASSUME EventInv, NEW r \in Requests, RequestMsg(r)
  PROVE  EventInv'
<1> DEFINE l == leader[at[r]]
           m == AbsMessage(r, l)
<1>1. /\ pc[r] = "sending" /\ l # Null /\ pc' = [pc EXCEPT ![r] = "waiting"]
      /\ net' = net \cup OnTheWay(m) /\ crossed' = Crossing(m)
      /\ UNCHANGED <<links, leader, tc, got, at, via, answer, executed, changes>>
  BY DEF RequestMsg, Goto
<1>2. /\ at[r] \in Tms /\ l \in Links /\ at[r] \in Ends(l) /\ tc[r] # "new" /\ Unexecuted(r)
  BY <1>1 DEF EventInv, Types, LeaderOK, HandlerOK
<1> HIDE DEF l
<1>3. /\ m \in MessageType
      /\ m.of = r /\ m.link = l /\ m.to = Peer(l, at[r]) /\ m.messageId = "forward"
      /\ m.first = FALSE /\ m.done = FALSE /\ m.id = Null /\ m.named = (Kind[r] = "id")
  BY <1>2, AbsMessageForm
<1>4. m.to \in Ends(l) /\ m.to # at[r]
  BY <1>2, <1>3, LinkFacts
<1>5. net' = net \/ (net' = net \cup {m} /\ m.link \in links)
  BY <1>1 DEF OnTheWay
<1> HIDE DEF m
<1>6. crossed' \in [Requests -> Nat]
  <2>1. crossed \in [Requests -> Nat]
    BY DEF EventInv, Types
  <2>2. crossed' = crossed \/ crossed' = [crossed EXCEPT ![r] = crossed[r] + 1]
    BY <1>1, <1>3 DEF Crossing
  <2> QED  BY <2>1, <2>2
<1>7. Types'
  BY <1>1, <1>3, <1>5, <1>6 DEF EventInv, Types, Ids, Executions, PcStates
<1>8. \A o \in net : o.of = r => ~Fresh(o)
  BY <1>1 DEF EventInv, MessageOK, Fresh
<1>9. LeaderOK' /\ OneFresh'
  BY <1>1, <1>3, <1>5, <1>8 DEF EventInv, LeaderOK, OneFresh, Fresh
<1>10. pc'[r] = "waiting" /\ \A q \in Requests \ {r} : pc'[q] = pc[q]
  BY <1>1 DEF EventInv, Types
<1>11. ASSUME NEW o \in net' PROVE MessageOK(o)'
  <2>1. CASE o \in net
    BY <1>1, <1>10, <2>1, KeptMessages
  <2>2. CASE o = m
    BY <1>1, <1>2, <1>3, <1>4, <1>10, <2>2 DEF MessageOK, Fresh, Unexecuted, Executions, Ends
  <2> QED  BY <1>5, <2>1, <2>2
<1>12. ASSUME NEW q \in Requests PROVE HandlerOK(q)'
  BY <1>1, <1>2, <1>10 DEF EventInv, HandlerOK, Unexecuted, IdFor, Executions, Ids
<1> QED  BY <1>7, <1>9, <1>11, <1>12 DEF EventInv

LEMMA ReadyCallBackStep ==
  ASSUME EventInv, NEW r \in Requests, ReadyCallBack(r)
  PROVE  EventInv'
<1> DEFINE m == CallBack(r)
<1>1. /\ pc[r] = "woken" /\ pc' = [pc EXCEPT ![r] = "done"]
      /\ net' = net \cup OnTheWay(m)
      /\ UNCHANGED <<links, leader, tc, got, at, via, answer, executed, crossed, changes>>
  BY DEF ReadyCallBack, CallBack, Goto, handler, history
<1>2. /\ at[r] \in Tms /\ via[r] \in Links /\ at[r] \in Ends(via[r]) /\ tc[r] # "new"
      /\ Peer(via[r], at[r]) \in Tcs /\ IdFor(answer[r], r) /\ answer[r] \in Nat
  <2>1. /\ at[r] \in Tms /\ via[r] \in Links /\ at[r] \in Ends(via[r]) /\ tc[r] # "new"
        /\ Peer(via[r], at[r]) \in Tcs /\ IdFor(answer[r], r)
    BY <1>1 DEF EventInv, Types, HandlerOK
  <2>2. Executions \subseteq Nat
    <3>1. executed \in Seq(Execution)
      BY DEF EventInv, Types
    <3> QED  BY <3>1 DEF Executions
  <2> QED  BY <2>1, <2>2 DEF IdFor
<1>3. /\ m \in MessageType
      /\ m.of = r /\ m.link = via[r] /\ m.to = Peer(via[r], at[r]) /\ m.messageId = "asked"
      /\ m.first = TRUE /\ m.done = TRUE /\ m.id = answer[r] /\ m.named = TRUE
  BY <1>2, CallBackForm
<1>4. m.to \in Ends(via[r]) /\ m.to \notin Tms
  BY <1>2, <1>3, LinkFacts, LoadBalancerAssumption
<1>5. net' = net \/ (net' = net \cup {m} /\ m.link \in links)
  BY <1>1 DEF OnTheWay
<1> HIDE DEF m
<1>6. Types'
  BY <1>1, <1>2, <1>3, <1>5 DEF EventInv, Types, Ids, IdFor, Executions, PcStates
<1>7. LeaderOK' /\ OneFresh'
  BY <1>1, <1>4, <1>5 DEF EventInv, LeaderOK, OneFresh, Fresh
<1>8. pc'[r] = "done" /\ \A q \in Requests \ {r} : pc'[q] = pc[q]
  BY <1>1 DEF EventInv, Types
<1>9. ASSUME NEW o \in net' PROVE MessageOK(o)'
  <2>1. CASE o \in net
    BY <1>1, <1>8, <2>1, KeptMessages
  <2>2. CASE o = m
    BY <1>1, <1>2, <1>3, <1>4, <2>2 DEF MessageOK, Fresh, IdFor, Executions, Ends
  <2> QED  BY <1>5, <2>1, <2>2
<1>10. ASSUME NEW q \in Requests PROVE HandlerOK(q)'
  BY <1>1, <1>2, <1>8 DEF EventInv, HandlerOK, Unexecuted, IdFor, Executions, Ids
<1> QED  BY <1>6, <1>7, <1>9, <1>10 DEF EventInv

(* What IdFor says of a number after the step. *)
IdLater(i, r) == i \in Executions' /\ executed'[i].of = r

(* An event that is executed leaves no other one that nobody executed.       *)
LEMMA ExecutedFacts ==
  ASSUME EventInv, NEW m \in net, m.to \in Tms, m.named,
         NEW e \in Execution, e.of = m.of, executed' = Append(executed, e)
  PROVE  /\ \A r \in Requests \ {m.of} : Unexecuted(r) => Unexecuted(r)'
         /\ \A i, r : IdFor(i, r) => IdLater(i, r)
         /\ IdLater(NextId, m.of) /\ NextId \in Nat
         /\ \A o \in net \ {m} : ~Fresh(o) \/ o.of # m.of
         /\ pc[m.of] \notin {"choosing", "chosen", "sending"} /\ tc[m.of] # "new"
         /\ Ids \subseteq Ids' /\ executed' \in Seq(Execution) /\ Executions' \subseteq Nat
<1>1. executed \in Seq(Execution) /\ m.of \in Requests /\ MessageOK(m)
  BY DEF EventInv, Types, MessageType
<1>2. /\ NextId = Len(executed) + 1 /\ Len(executed) \in Nat
      /\ Executions' = Executions \cup {NextId} /\ NextId \notin Executions
      /\ executed' \in Seq(Execution)
      /\ \A i \in Executions : executed'[i] = executed[i] /\ i < NextId
      /\ executed'[NextId] = e
  BY <1>1, AppendFacts
<1>3. Executions \subseteq Nat
  BY <1>2 DEF Executions
<1>4. \A o \in net \ {m} : ~Fresh(o) \/ o.of # m.of
  <2>1. CASE Fresh(m)
    BY <2>1 DEF EventInv, OneFresh
  <2>2. CASE ~Fresh(m)
    BY <1>1, <2>2 DEF EventInv, MessageOK, Fresh, Unexecuted, IdFor
  <2> QED  BY <2>1, <2>2
<1>5. pc[m.of] \notin {"choosing", "chosen", "sending"} /\ tc[m.of] # "new"
  BY <1>1 DEF MessageOK
<1>6. Ids \subseteq Ids' /\ Executions' \subseteq Nat
  <2>1. NextId \in Nat /\ Executions' = Executions \cup {NextId}
    BY <1>2
  <2> HIDE DEF Executions, NextId
  <2> QED  BY <1>3, <2>1 DEF Ids
<1>7. ASSUME NEW r \in Requests \ {m.of}, Unexecuted(r) PROVE Unexecuted(r)'
  BY <1>2, <1>7 DEF Unexecuted
<1>8. ASSUME NEW i, NEW r, IdFor(i, r) PROVE IdLater(i, r)
  BY <1>2, <1>8 DEF IdFor, IdLater
<1>9. IdLater(NextId, m.of) /\ NextId \in Nat
  BY <1>2 DEF IdLater
<1> QED  BY <1>2, <1>4, <1>5, <1>6, <1>7, <1>8, <1>9

LEMMA TmExecutesStep ==
  ASSUME EventInv, NEW m \in net, TmExecutes(m)
  PROVE  EventInv'
<1>1. m.of \in Requests /\ m.to \in Tms /\ m.id \in Ids /\ m \in MessageType /\ MessageOK(m)
      /\ m.link \in links /\ m.link \in Links /\ m.to \in Nodes
  BY DEF EventInv, Types, MessageType, TmExecutes, MessageOK
<1>2. /\ UNCHANGED <<links, leader, tc, got, at, via, changes>>
      /\ Execute(m)
      /\ \/ UNCHANGED <<pc, answer>>
         \/ /\ Awaited(m) /\ pc' = [pc EXCEPT ![m.of] = "woken"]
            /\ answer' = [answer EXCEPT ![m.of] = m.id] \/ answer' = [answer EXCEPT ![m.of] = NextId]
  BY DEF TmExecutes, Wake, Goto
<1>3. Awaited(m) => /\ IdFor(m.id, m.of) /\ pc[m.of] = "waiting" /\ m.named
  BY <1>1, AwaitedFacts
<1>4. CASE ~m.named
  <2>1. UNCHANGED <<executed, crossed, pc, answer>> /\ net' = net \ {m}
    BY <1>2, <1>3, <1>4 DEF Execute
  <2>2. \A o \in net' : o.link \in links'
    BY <1>2, <2>1 DEF EventInv, Types
  <2>3. LeaderOK'
    BY <1>2 DEF EventInv, LeaderOK
  <2> QED  BY <1>2, <2>1, <2>2, <2>3, QuietStep DEF EventInv, Types
<1>5. CASE m.named
  <2> DEFINE e == [of |-> m.of, at |-> m.to, alone |-> Alone(m.to), again |-> m.done]
             a == Answer(m)
  <2>1. /\ executed' = Append(executed, e) /\ crossed' = Crossing(a)
        /\ net' = (net \ {m}) \cup OnTheWay(a)
    BY <1>2, <1>5 DEF Execute
  <2>2. e \in Execution /\ e.of = m.of
    <3>1. Alone(m.to) \in BOOLEAN /\ m.done \in BOOLEAN
      BY <1>1 DEF Alone, MessageType
    <3> QED  BY <1>1, <3>1 DEF Execution
  <2> HIDE DEF e
  <2>3. /\ \A r \in Requests \ {m.of} : Unexecuted(r) => Unexecuted(r)'
        /\ \A i, r : IdFor(i, r) => IdLater(i, r)
        /\ IdLater(NextId, m.of) /\ NextId \in Nat
        /\ \A o \in net \ {m} : ~Fresh(o) \/ o.of # m.of
        /\ pc[m.of] \notin {"choosing", "chosen", "sending"} /\ tc[m.of] # "new"
        /\ Ids \subseteq Ids' /\ executed' \in Seq(Execution) /\ Executions' \subseteq Nat
    BY <1>1, <1>5, <2>1, <2>2, ExecutedFacts
  <2>4. NextId \in Ids'
    BY <2>3 DEF IdLater, Ids
  <2>5. Len(executed) \in Nat /\ m.to \in Ends(m.link)
    <3>1. executed \in Seq(Execution)
      BY DEF EventInv, Types
    <3> QED  BY <1>1, <3>1 DEF MessageOK
  <2>6. /\ a \in MessageType
        /\ a.of = m.of /\ a.link = m.link /\ a.to = Peer(m.link, m.to)
        /\ a.messageId = m.messageId /\ a.first = m.first /\ a.named = m.named
        /\ a.done = (Kind[m.of] = "id")
        /\ a.id = IF Kind[m.of] = "id" THEN NextId ELSE Null
    BY <1>1, <2>5, AnswerForm
  <2>7. net' = (net \ {m}) \/ net' = (net \ {m}) \cup {a}
    BY <2>1 DEF OnTheWay
  <2> HIDE DEF a
  <2>8. a.id \in Ids' /\ a.to \in Ends(m.link) /\ ~Fresh(a)
    <3>1. a.id \in Ids'
      BY <2>4, <2>6 DEF Ids
    <3>2. Peer(m.link, m.to) \in Ends(m.link)
      BY <1>1, <2>5, LinkFacts
    <3>3. ~a.done => m.first
      BY <1>1, <1>5, <2>6 DEF MessageOK
    <3>4. m.first => a.to \notin Tms
      BY <1>1, <2>6, LoadBalancerAssumption DEF MessageOK
    <3> QED  BY <2>6, <3>1, <3>2, <3>3, <3>4 DEF Fresh
  <2>9. /\ pc' \in [Requests -> PcStates] /\ answer' \in [Requests -> Nat \cup {Null}]
        /\ \A r \in Requests : /\ pc'[r] = pc[r] \/ (r = m.of /\ pc[r] = "waiting" /\ pc'[r] = "woken")
                               /\ answer'[r] \in Ids'
                               /\ pc'[r] = "woken" => IdLater(answer'[r], r)
    <3>1. /\ pc \in [Requests -> PcStates] /\ answer \in [Requests -> Nat \cup {Null}]
          /\ m.id \in Nat \cup {Null} /\ m.id \in Ids'
          /\ \A r \in Requests : answer[r] \in Ids' /\ (pc[r] = "woken" => IdLater(answer[r], r))
      <4>1. \A r \in Requests : answer[r] \in Ids /\ (pc[r] = "woken" => IdFor(answer[r], r))
        BY DEF EventInv, HandlerOK
      <4>2. pc \in [Requests -> PcStates] /\ answer \in [Requests -> Nat \cup {Null}]
            /\ m.id \in Nat \cup {Null}
        BY <1>1 DEF EventInv, Types, MessageType
      <4> QED  BY <1>1, <2>3, <4>1, <4>2
    <3>2. CASE UNCHANGED <<pc, answer>>
      BY <3>1, <3>2
    <3>3. CASE Awaited(m) /\ pc' = [pc EXCEPT ![m.of] = "woken"]
               /\ (answer' = [answer EXCEPT ![m.of] = m.id] \/ answer' = [answer EXCEPT ![m.of] = NextId])
      <4>1. IdLater(m.id, m.of) /\ IdLater(NextId, m.of) /\ pc[m.of] = "waiting"
        BY <1>3, <2>3, <3>3
      <4> QED  BY <1>1, <2>3, <2>4, <3>1, <3>3, <4>1 DEF PcStates
    <3> QED  BY <1>2, <3>2, <3>3
  <2>10. crossed' \in [Requests -> Nat]
    <3>1. crossed \in [Requests -> Nat]
      BY DEF EventInv, Types
    <3>2. crossed' = crossed \/ crossed' = [crossed EXCEPT ![m.of] = crossed[m.of] + 1]
      BY <2>1, <2>6 DEF Crossing
    <3> QED  BY <3>1, <3>2
  <2>11. Types'
    <3>1. net' \subseteq MessageType /\ \A o \in net' : o.link \in links' /\ o.id \in Ids'
      BY <1>1, <1>2, <2>3, <2>6, <2>7, <2>8 DEF EventInv, Types
    <3>2. \A r \in Requests : pc'[r] # "none" => at'[r] \in Tms /\ via'[r] \in Links
      BY <1>2, <2>9 DEF EventInv, Types
    <3>3. got' \in [Requests -> Ids']
      BY <1>2, <2>3 DEF EventInv, Types
    <3> QED  BY <1>2, <2>3, <2>9, <2>10, <3>1, <3>2, <3>3 DEF EventInv, Types
  <2>12. LeaderOK' /\ OneFresh'
    BY <1>2, <2>7, <2>8 DEF EventInv, LeaderOK, OneFresh, Fresh
  <2>13. ASSUME NEW o \in net' PROVE MessageOK(o)'
    <3>1. CASE o \in net \ {m}
      <4>1. MessageOK(o) /\ o.of \in Requests /\ UNCHANGED <<tc, at>>
        BY <1>2, <3>1 DEF EventInv, Types, MessageType
      <4>2. pc'[o.of] = pc[o.of] \/ (pc[o.of] = "waiting" /\ pc'[o.of] = "woken")
        BY <2>9, <4>1
      <4>3. Fresh(o) => Unexecuted(o.of)'
        BY <2>3, <3>1, <4>1 DEF MessageOK
      <4>4. o.done => o.named /\ IdLater(o.id, o.of)
        BY <2>3, <4>1 DEF MessageOK
      <4> QED  BY <4>1, <4>2, <4>3, <4>4 DEF MessageOK, Fresh, IdFor, IdLater, Ends, Peer
    <3>2. CASE o = a
      <4>1. MessageOK(m) /\ UNCHANGED <<tc, at>> /\ m.named
        BY <1>1, <1>2, <1>5
      <4>2. pc'[m.of] = pc[m.of] \/ (pc[m.of] = "waiting" /\ pc'[m.of] = "woken")
        BY <1>1, <2>9
      <4>3. a.done => IdLater(a.id, a.of)
        BY <2>3, <2>6
      <4>4. m.first => a.to \notin Tms
        BY <1>1, <2>6, LoadBalancerAssumption DEF MessageOK
      <4>5. a.to \in Ends(a.link) /\ tc'[a.of] # "new" /\ ~Fresh(a) /\ a.named
        BY <2>3, <2>6, <2>8, <4>1, <4>3
      <4>6. a.first => /\ a.messageId = "asked" => a.done
                       /\ a.messageId # "forward" /\ a.to \notin Tms
        BY <1>1, <2>6, <4>4 DEF MessageOK
      <4>7. ~a.first => /\ a.messageId = "forward" /\ Kind[a.of] = "id" /\ a.done
                        /\ pc'[a.of] \in {"waiting", "woken", "done", "failed"}
        BY <1>1, <1>5, <2>6, <4>2 DEF MessageOK
      <4>8. MessageOK(o)'
        BY <2>8, <3>2, <4>1, <4>3, <4>5, <4>6, <4>7 DEF MessageOK, Fresh, IdFor, IdLater, Ends
      <4> QED  BY <4>8
    <3> QED  BY <2>7, <3>1, <3>2
  <2>14. ASSUME NEW q \in Requests PROVE HandlerOK(q)'
    <3>1. HandlerOK(q) /\ UNCHANGED <<tc, at, via, got>>
      BY <1>2 DEF EventInv
    <3>2. pc[q] \in {"choosing", "chosen", "sending"} \/ tc[q] = "new" => Unexecuted(q)'
      BY <2>3, <3>1 DEF HandlerOK
    <3>3. tc[q] = "answered" => IdLater(got[q], q)
      BY <2>3, <3>1 DEF HandlerOK
    <3>4. /\ pc'[q] \in {"choosing", "chosen", "sending"} => pc[q] \in {"choosing", "chosen", "sending"}
          /\ (pc'[q] = "none") = (pc[q] = "none") /\ answer'[q] \in Ids'
          /\ pc'[q] = "woken" => IdLater(answer'[q], q)
      BY <2>9
    <3> QED  BY <3>1, <3>2, <3>3, <3>4 DEF HandlerOK, IdFor, IdLater, Ends, Peer
  <2> QED  BY <2>11, <2>12, <2>13, <2>14 DEF EventInv
<1> QED  BY <1>4, <1>5

LEMMA EventStep == EventInv /\ [Next]_vars => EventInv'
<1> SUFFICES ASSUME EventInv, [Next]_vars PROVE EventInv'
  OBVIOUS
<1>1. CASE \E r \in Requests : TcAsks(r) \/ TcGivesUp(r) \/ Step(r) \/ RecordExpires(r) \/ TimesUp(r)
  BY <1>1, TcAsksStep, HandlerSteps, RequestMsgStep, ReadyCallBackStep DEF Step
<1>2. CASE \E m \in net : Handle(m)
  BY <1>2, TcHandlesStep, TmExecutesStep, TmIgnoresStep, TmForwardsStep DEF Handle
<1>3. CASE \E l \in Links : Open(l) \/ Close(l)
  BY <1>3, ConnectionSteps
<1>4. CASE UNCHANGED vars
  <2>1. UNCHANGED <<links, leader, net, tc, got, pc, at, via, answer, executed, crossed, changes>>
    BY <1>4 DEF vars, handler, history
  <2>2. LeaderOK' /\ \A m \in net' : m.link \in links'
    BY <2>1 DEF EventInv, Types, LeaderOK
  <2> QED  BY <2>1, <2>2, QuietStep DEF EventInv, Types
<1> QED  BY <1>1, <1>2, <1>3, <1>4 DEF Next

LEMMA EventsHold == Spec => []EventInv
BY EventInit, EventStep, PTL DEF Spec

(* The types, for any number of nodes and requests.                         *)
THEOREM LoadBalancerTypeCorrect == Spec => []TypeOK
<1>1. EventInv => TypeOK
  <2> SUFFICES ASSUME EventInv PROVE TypeOK
    OBVIOUS
  <2>1. net \subseteq [of : Requests, link : links, to : Nodes,
                       messageId : {"asked", "forward", Null}, first : BOOLEAN,
                       done : BOOLEAN, id : Ids, named : BOOLEAN]
    BY DEF EventInv, Types, MessageType
  <2>2. answer \in [Requests -> Ids]
    BY DEF EventInv, Types, HandlerOK
  <2> QED  BY <2>1, <2>2 DEF EventInv, Types, TypeOK, PcStates
<1> QED  BY <1>1, EventsHold, PTL

(* A TC is given an id that was generated for its request.                  *)
THEOREM AnswersAreForTheRequest == Spec => []AnswerIsForTheRequest
<1>1. EventInv => AnswerIsForTheRequest
  BY DEF EventInv, HandlerOK, IdFor, AnswerIsForTheRequest
<1> QED  BY <1>1, EventsHold, PTL

-----------------------------------------------------------------------------
(* The history of the executions *)

Executed(m) == [of |-> m.of, at |-> m.to, alone |-> Alone(m.to), again |-> m.done]

(* A step executes nothing, or one event that a TM handles.                 *)
LEMMA ExecutedByHandle ==
  ASSUME EventInv, [Next]_vars
  PROVE  \/ UNCHANGED executed
         \/ \E m \in net : /\ m.to \in Tms /\ Executes(m) /\ m.named
                           /\ executed' = Append(executed, Executed(m))
<1>1. CASE \E r \in Requests : TcAsks(r) \/ TcGivesUp(r) \/ Step(r) \/ RecordExpires(r) \/ TimesUp(r)
  BY <1>1 DEF history, Step, TcAsks, TcGivesUp, RecordExpires, TimesUp, SelectLeaderWithoutTc,
              SelectLeader, RequestMsg, CheckLeaderFails, ReadyCallBack
<1>2. CASE \E m \in net : Handle(m)
  BY <1>2 DEF history, Handle, TcHandles, TmExecutes, TmIgnores, TmForwards, Execute, Executed
<1>3. CASE \E l \in Links : Open(l) \/ Close(l)
  BY <1>3 DEF history, Open, Close
<1>4. CASE UNCHANGED vars
  BY <1>4 DEF vars, history
<1> QED  BY <1>1, <1>2, <1>3, <1>4 DEF Next

(* What is added to the history says of an event that was executed before   *)
(* that it is an answer that reached a TM with a single connection, and of  *)
(* a transaction event that it came from the TC of such a TM.               *)
LEMMA ExecutedOK ==
  ASSUME EventInv, NEW m \in net, m.to \in Tms, Executes(m), m.named
  PROVE  /\ m.of \in Requests /\ Executed(m) \in Execution /\ Executed(m).of = m.of
         /\ ~Unexecuted(m.of) => Executed(m).alone /\ Executed(m).again
         /\ Unexecuted(m.of) => ~Executed(m).again
         /\ Kind[m.of] = "transaction" => Executed(m).alone /\ ~Executed(m).again
<1>1. /\ m.of \in Requests /\ m.to \in Nodes /\ m.done \in BOOLEAN /\ MessageOK(m)
  BY DEF EventInv, Types, MessageType
<1>2. Executed(m) \in Execution /\ Executed(m).of = m.of
  <2>1. Alone(m.to) \in BOOLEAN
    BY DEF Alone
  <2> QED  BY <1>1, <2>1 DEF Executed, Execution
<1>3. Executed(m).alone = Alone(m.to) /\ Executed(m).again = m.done
  BY DEF Executed
<1>4. ~Unexecuted(m.of) => Alone(m.to) /\ m.done
  BY <1>1 DEF MessageOK, Fresh, Executes
<1>5. m.done => ~Unexecuted(m.of)
  BY <1>1 DEF MessageOK, IdFor, Unexecuted
<1>6. Kind[m.of] = "transaction" => Alone(m.to) /\ ~m.done
  BY <1>1 DEF MessageOK, Executes
<1> QED  BY <1>1, <1>2, <1>3, <1>4, <1>5, <1>6

(* EventStatusHandler's flags: an event is executed a second time only by a *)
(* TM with a single connection, whatever connections come and go.           *)
THEOREM ExecutedAgainAlone == Spec => []ExecutedAgainOnlyAlone
<1>1. Init => ExecutedAgainOnlyAlone
  BY DEF Init, ExecutedAgainOnlyAlone, Executions
<1>2. EventInv /\ ExecutedAgainOnlyAlone /\ [Next]_vars => ExecutedAgainOnlyAlone'
  <2> SUFFICES ASSUME EventInv, ExecutedAgainOnlyAlone, [Next]_vars PROVE ExecutedAgainOnlyAlone'
    OBVIOUS
  <2>1. CASE UNCHANGED executed
    BY <2>1 DEF ExecutedAgainOnlyAlone, Executions
  <2>2. ASSUME NEW m \in net, m.to \in Tms, Executes(m), m.named,
               executed' = Append(executed, Executed(m))
        PROVE  ExecutedAgainOnlyAlone'
    <3> DEFINE e == Executed(m)
    <3>1. /\ e \in Execution /\ e.of = m.of /\ (~Unexecuted(m.of) => e.alone /\ e.again)
      BY <2>2, ExecutedOK
    <3> HIDE DEF e
    <3>2. /\ Executions' = Executions \cup {NextId} /\ NextId \notin Executions
          /\ \A i \in Executions : executed'[i] = executed[i] /\ i < NextId
          /\ executed'[NextId] = e /\ NextId \in Nat /\ Executions \subseteq Nat
      <4>1. executed \in Seq(Execution) /\ executed' = Append(executed, e)
        BY <2>2 DEF EventInv, Types, e
      <4> QED  BY <3>1, <4>1, AppendFacts DEF Executions
    <3>3. ASSUME NEW i \in Executions', NEW j \in Executions', i < j, executed'[i].of = executed'[j].of
          PROVE  executed'[j].alone /\ executed'[j].again
      <4>1. CASE j \in Executions
        <5>1. i \in Executions
          <6>1. j < NextId /\ j \in Nat /\ NextId \in Nat
            BY <3>2, <4>1
          <6>2. i # NextId
            BY <3>3, <6>1
          <6> QED  BY <3>2, <6>2
        <5> QED  BY <3>2, <3>3, <4>1, <5>1 DEF ExecutedAgainOnlyAlone
      <4>2. CASE j = NextId
        <5>1. i \in Executions /\ executed[i].of = m.of
          BY <3>1, <3>2, <3>3, <4>2
        <5> QED  BY <3>1, <3>2, <4>2, <5>1 DEF Unexecuted
      <4> QED  BY <3>2, <4>1, <4>2
    <3> QED  BY <3>3 DEF ExecutedAgainOnlyAlone
  <2> QED  BY <2>1, <2>2, ExecutedByHandle
<1> QED  BY <1>1, <1>2, EventsHold, PTL DEF Spec

(* Transaction events are executed only where the TC is the single peer.    *)
THEOREM TransactionsAreLocal == Spec => []TransactionsStayLocal
<1>1. Init => TransactionsStayLocal
  BY DEF Init, TransactionsStayLocal, Executions
<1>2. EventInv /\ TransactionsStayLocal /\ [Next]_vars => TransactionsStayLocal'
  <2> SUFFICES ASSUME EventInv, TransactionsStayLocal, [Next]_vars PROVE TransactionsStayLocal'
    OBVIOUS
  <2>1. CASE UNCHANGED executed
    BY <2>1 DEF TransactionsStayLocal, Executions
  <2>2. ASSUME NEW m \in net, m.to \in Tms, Executes(m), m.named,
               executed' = Append(executed, Executed(m))
        PROVE  TransactionsStayLocal'
    <3> DEFINE e == Executed(m)
    <3>1. /\ e \in Execution /\ e.of = m.of
          /\ Kind[m.of] = "transaction" => e.alone /\ ~e.again
      BY <2>2, ExecutedOK
    <3> HIDE DEF e
    <3>2. /\ Executions' = Executions \cup {NextId}
          /\ \A i \in Executions : executed'[i] = executed[i]
          /\ executed'[NextId] = e
      <4>1. executed \in Seq(Execution) /\ executed' = Append(executed, e)
        BY <2>2 DEF EventInv, Types, e
      <4> QED  BY <3>1, <4>1, AppendFacts
    <3> QED  BY <3>1, <3>2 DEF TransactionsStayLocal
  <2> QED  BY <2>1, <2>2, ExecutedByHandle
<1> QED  BY <1>1, <1>2, EventsHold, PTL DEF Spec

-----------------------------------------------------------------------------
(* How often an event goes from one TM to another: once when its handler    *)
(* asks, once when it is first executed, once for each further execution.   *)

Asked(r)    == IF pc[r] \in {"waiting", "woken", "done", "failed"} THEN 1 ELSE 0
Answered(r) == IF Unexecuted(r) THEN 0 ELSE 1
Again(r)    == {i \in Executions : executed[i].of = r /\ executed[i].again}

CrossingOK(r) == crossed[r] <= Asked(r) + Answered(r) + Cardinality(Again(r))
CrossingInv   == \A r \in Requests : CrossingOK(r)

LEMMA AgainFinite ==
  ASSUME executed \in Seq(Execution), NEW r
  PROVE  IsFiniteSet(Again(r)) /\ Cardinality(Again(r)) \in Nat /\ Again(r) \subseteq Executions
<1>1. IsFiniteSet(Executions)
  BY FS_Interval DEF Executions
<1>2. Again(r) \subseteq Executions
  BY DEF Again
<1> QED  BY <1>1, <1>2, FS_Subset, FS_CardinalityType

LEMMA CrossingStep == EventInv /\ CrossingInv /\ [Next]_vars => CrossingInv'
<1> SUFFICES ASSUME EventInv, CrossingInv, [Next]_vars, NEW r \in Requests
             PROVE  CrossingOK(r)'
  BY DEF CrossingInv
<1> CrossingOK(r) /\ executed \in Seq(Execution) /\ crossed[r] \in Nat
  BY DEF CrossingInv, EventInv, Types
<1>1. CASE \E m \in net : TmExecutes(m) /\ m.named
  <2>1. PICK m \in net : TmExecutes(m) /\ m.named
    BY <1>1
  <2> DEFINE e == Executed(m)
  <2>2. /\ m.to \in Tms /\ Executes(m)
        /\ executed' = Append(executed, e) /\ crossed' = Crossing(Answer(m))
        /\ pc' = pc \/ (Awaited(m) /\ pc' = [pc EXCEPT ![m.of] = "woken"])
    BY <2>1 DEF TmExecutes, Execute, Executed, Wake, Goto
  <2>3. /\ m.of \in Requests /\ e \in Execution /\ e.of = m.of
        /\ ~Unexecuted(m.of) => e.again
        /\ Unexecuted(m.of) => ~e.again
    BY <2>1, <2>2, ExecutedOK
  <2> HIDE DEF e
  <2>4. /\ Executions' = Executions \cup {NextId} /\ NextId \notin Executions
        /\ \A i \in Executions : executed'[i] = executed[i]
        /\ executed'[NextId] = e
    BY <2>2, <2>3, AppendFacts
  <2>5. Asked(r)' = Asked(r)
    <3>1. Awaited(m) => pc[m.of] = "waiting"
      BY DEF Awaited
    <3>2. pc \in [Requests -> PcStates]
      BY DEF EventInv, Types
    <3> QED  BY <2>2, <2>3, <3>1, <3>2 DEF Asked
  <2>6. crossed'[r] <= crossed[r] + (IF m.of = r THEN 1 ELSE 0)
    <3>1. Answer(m).of = m.of
      BY DEF Answer, EventInv, Types, MessageType
    <3>2. crossed' = crossed \/ crossed' = [crossed EXCEPT ![m.of] = crossed[m.of] + 1]
      BY <2>2, <3>1 DEF Crossing
    <3>3. crossed \in [Requests -> Nat]
      BY DEF EventInv, Types
    <3> QED  BY <2>3, <3>2, <3>3
  <2>7. Unexecuted(r)' = (Unexecuted(r) /\ m.of # r)
    BY <2>3, <2>4 DEF Unexecuted
  <2>8. Again(r)' = IF m.of = r /\ e.again THEN Again(r) \cup {NextId} ELSE Again(r)
    BY <2>3, <2>4 DEF Again
  <2>9. /\ IsFiniteSet(Again(r)) /\ Cardinality(Again(r)) \in Nat
        /\ Cardinality(Again(r) \cup {NextId}) = Cardinality(Again(r)) + 1
    <3>1. NextId \notin Again(r)
      BY <2>4 DEF Again
    <3>2. IsFiniteSet(Again(r)) /\ Cardinality(Again(r)) \in Nat
      BY AgainFinite
    <3> HIDE DEF Again
    <3> QED  BY <3>1, <3>2, FS_AddElement
  <2>10. Asked(r) \in {0, 1} /\ Answered(r) \in {0, 1} /\ crossed'[r] \in Nat
    BY <2>1, EventStep DEF EventInv, Types, Asked, Answered
  <2> HIDE DEF Again
  <2>11. CASE m.of = r /\ Unexecuted(r)
    <3>1. Answered(r) = 0 /\ Answered(r)' = 1
      BY <2>7, <2>11 DEF Answered
    <3>2. Cardinality(Again(r))' = Cardinality(Again(r))
      BY <2>3, <2>8, <2>11
    <3> QED  BY <2>5, <2>6, <2>9, <2>10, <2>11, <3>1, <3>2 DEF CrossingOK
  <2>12. CASE m.of = r /\ ~Unexecuted(r)
    <3>1. Answered(r) = 1 /\ Answered(r)' = 1
      BY <2>7, <2>12 DEF Answered
    <3>2. Cardinality(Again(r))' = Cardinality(Again(r)) + 1
      BY <2>3, <2>8, <2>9, <2>12
    <3> QED  BY <2>5, <2>6, <2>9, <2>10, <2>12, <3>1, <3>2 DEF CrossingOK
  <2>13. CASE m.of # r
    <3>1. Answered(r)' = Answered(r)
      BY <2>7, <2>13 DEF Answered
    <3>2. Cardinality(Again(r))' = Cardinality(Again(r))
      BY <2>8, <2>13
    <3> QED  BY <2>5, <2>6, <2>9, <2>10, <2>13, <3>1, <3>2 DEF CrossingOK
  <2> QED  BY <2>11, <2>12, <2>13
<1>2. CASE \E q \in Requests : RequestMsg(q)
  <2>1. PICK q \in Requests : RequestMsg(q)
    BY <1>2
  <2>2. /\ pc[q] = "sending" /\ pc' = [pc EXCEPT ![q] = "waiting"] /\ UNCHANGED executed
        /\ crossed' = Crossing(AbsMessage(q, leader[at[q]]))
    BY <2>1 DEF RequestMsg, Goto
  <2>3. crossed' = crossed \/ crossed' = [crossed EXCEPT ![q] = crossed[q] + 1]
    BY <2>2 DEF Crossing, AbsMessage, Message
  <2>4. pc \in [Requests -> PcStates] /\ crossed \in [Requests -> Nat]
    BY DEF EventInv, Types
  <2>5. Answered(r)' = Answered(r) /\ Cardinality(Again(r))' = Cardinality(Again(r))
    BY <2>2 DEF Answered, Again, Unexecuted, Executions
  <2>6. Answered(r) \in Nat /\ Cardinality(Again(r)) \in Nat
    BY AgainFinite DEF Answered
  <2>7. CASE q = r
    <3>1. Asked(r) = 0 /\ Asked(r)' = 1
      BY <2>2, <2>4, <2>7 DEF Asked
    <3>2. crossed'[r] \in Nat /\ crossed'[r] <= crossed[r] + 1
      BY <2>3, <2>4
    <3> QED  BY <2>5, <2>6, <3>1, <3>2 DEF CrossingOK
  <2>8. CASE q # r
    <3>1. Asked(r)' = Asked(r) /\ crossed'[r] = crossed[r]
      BY <2>1, <2>2, <2>3, <2>4, <2>8 DEF Asked
    <3> QED  BY <2>5, <3>1 DEF CrossingOK
  <2> QED  BY <2>7, <2>8
<1>3. CASE UNCHANGED <<executed, crossed>> /\ Asked(r) <= Asked(r)'
  <2>1. Answered(r)' = Answered(r) /\ Cardinality(Again(r))' = Cardinality(Again(r))
    BY <1>3 DEF Answered, Again, Unexecuted, Executions
  <2>2. Answered(r) \in Nat /\ Cardinality(Again(r)) \in Nat /\ Asked(r) \in Nat /\ Asked(r)' \in Nat
    BY AgainFinite DEF Answered, Asked
  <2> QED  BY <1>3, <2>1, <2>2 DEF CrossingOK
<1>4. CASE \E m \in net : TcHandles(m) \/ TmIgnores(m) \/ TmForwards(m) \/ (TmExecutes(m) /\ ~m.named)
  <2>1. PICK m \in net : TcHandles(m) \/ TmIgnores(m) \/ TmForwards(m) \/ (TmExecutes(m) /\ ~m.named)
    BY <1>4
  <2>2. m.of \in Requests /\ pc \in [Requests -> PcStates]
    BY DEF EventInv, Types, MessageType
  <2>3. UNCHANGED <<executed, crossed>>
    BY <2>1 DEF TcHandles, TmIgnores, TmForwards, TmExecutes, Execute, handler, history
  <2>4. CASE TmForwards(m)
    <3>1. pc[m.of] = "none" /\ pc' = [pc EXCEPT ![m.of] = "choosing"]
      BY <2>4 DEF TmForwards, Forwards, Goto, EventInv, MessageOK
    <3> QED  BY <1>3, <2>2, <2>3, <3>1 DEF Asked
  <2>5. CASE ~TmForwards(m)
    <3>1. UNCHANGED pc \/ (Awaited(m) /\ pc' = [pc EXCEPT ![m.of] = "woken"])
      BY <2>1, <2>5 DEF TcHandles, TmIgnores, TmExecutes, Wake, Goto, handler
    <3> QED  BY <1>3, <2>2, <2>3, <3>1 DEF Asked, Awaited
  <2> QED  BY <2>4, <2>5
<1>5. CASE \E q \in Requests : TcAsks(q) \/ TcGivesUp(q) \/ (Step(q) /\ ~RequestMsg(q))
                               \/ RecordExpires(q) \/ TimesUp(q)
  <2>1. PICK q \in Requests : TcAsks(q) \/ TcGivesUp(q) \/ (Step(q) /\ ~RequestMsg(q))
                              \/ RecordExpires(q) \/ TimesUp(q)
    BY <1>5
  <2>2. UNCHANGED <<executed, crossed>>
    BY <2>1 DEF TcAsks, TcGivesUp, Step, RecordExpires, TimesUp, SelectLeaderWithoutTc,
                SelectLeader, CheckLeaderFails, ReadyCallBack, handler, history
  <2>3. \/ UNCHANGED pc
        \/ pc[q] \in {"choosing", "chosen"} /\ pc' = [pc EXCEPT ![q] = "chosen"]
        \/ pc[q] \in {"choosing", "chosen"} /\ pc' = [pc EXCEPT ![q] = "sending"]
        \/ pc' = [pc EXCEPT ![q] = "failed"]
        \/ pc' = [pc EXCEPT ![q] = "done"]
    BY <2>1 DEF TcAsks, TcGivesUp, Step, RecordExpires, TimesUp, SelectLeaderWithoutTc,
                SelectLeader, CheckLeaderFails, ReadyCallBack, handler, Goto
  <2>4. pc \in [Requests -> PcStates]
    BY DEF EventInv, Types
  <2>5. Asked(r) <= Asked(r)'
    BY <2>3, <2>4 DEF Asked
  <2> QED  BY <1>3, <2>2, <2>5
<1>6. CASE (\E l \in Links : Open(l) \/ Close(l)) \/ UNCHANGED vars
  <2>1. UNCHANGED <<executed, crossed, pc>>
    BY <1>6 DEF Open, Close, vars, handler, history
  <2>2. Asked(r) <= Asked(r)'
    BY <2>1 DEF Asked
  <2> QED  BY <1>3, <2>1, <2>2
<1> QED  BY <1>1, <1>2, <1>4, <1>5, <1>6 DEF Next, Handle

(* Events do not bounce between TMs: whatever connections come and go, an   *)
(* event goes there once, back once, and further only when a TM with a      *)
(* single connection executes an answer.                                    *)
THEOREM EventsDoNotBounce == Spec => []NoPingPong
<1>1. Init => CrossingInv
  <2> SUFFICES ASSUME Init, NEW r \in Requests PROVE CrossingOK(r)
    BY DEF CrossingInv
  <2>1. crossed[r] = 0 /\ executed \in Seq(Execution) /\ Asked(r) \in Nat /\ Answered(r) \in Nat
    BY DEF Init, Asked, Answered
  <2> QED  BY <2>1, AgainFinite DEF CrossingOK
<1>2. EventInv /\ CrossingInv => NoPingPong
  <2> SUFFICES ASSUME EventInv, CrossingInv, NEW r \in Requests
               PROVE  crossed[r] <= 2 + Cardinality(Again(r))
    BY DEF NoPingPong, Again
  <2>1. crossed[r] \in Nat /\ executed \in Seq(Execution) /\ CrossingOK(r)
    BY DEF EventInv, Types, CrossingInv
  <2>2. Cardinality(Again(r)) \in Nat /\ Asked(r) \in {0, 1} /\ Answered(r) \in {0, 1}
    BY <2>1, AgainFinite DEF Asked, Answered
  <2> QED  BY <2>1, <2>2 DEF CrossingOK
<1> QED  BY <1>1, <1>2, CrossingStep, EventsHold, PTL DEF Spec

-----------------------------------------------------------------------------
(* The leader.  While no connection has changed, the one a request came by  *)
(* is still there, so selectLeader always finds one: what is missing when   *)
(* the handler sends was taken away by another handler of the same TM.      *)

Sole(r) == \A q \in Requests \ {r} : at[q] # at[r]

LeaderFound(r) ==
  /\ pc[r] = "none" => at[r] = Null
  /\ changes = 0 /\ pc[r] # "none" => via[r] \in links
  /\ changes = 0 /\ pc[r] = "sending" /\ Sole(r) => leader[at[r]] # Null
  /\ r \in unled => pc[r] = "failed" /\ (changes > 0 \/ ~Sole(r))

LeaderInv == unled \subseteq Requests /\ \A r \in Requests : LeaderFound(r)

(* Steps that let no handler start, choose or fail for want of a leader.     *)
LEMMA LeaderStays ==
  ASSUME EventInv, LeaderInv, UNCHANGED <<leader, at, via, unled>>,
         \/ UNCHANGED <<links, changes>> \/ changes' = changes + 1,
         \A r \in Requests : /\ (pc'[r] = "none") = (pc[r] = "none")
                             /\ pc'[r] = "sending" => pc[r] = "sending"
                             /\ pc[r] = "failed" => pc'[r] = "failed"
  PROVE  LeaderInv'
<1>1. changes \in Nat
  BY DEF EventInv, Types
<1>2. ASSUME NEW r \in Requests PROVE LeaderFound(r)'
  <2>1. Sole(r)' = Sole(r) /\ LeaderFound(r)
    BY DEF LeaderInv, Sole
  <2> HIDE DEF Sole
  <2>2. CASE UNCHANGED <<links, changes>>
    BY <1>1, <2>1, <2>2 DEF LeaderFound
  <2>3. CASE changes' = changes + 1
    BY <1>1, <2>1, <2>3 DEF LeaderFound
  <2> QED  BY <2>2, <2>3
<1> QED  BY <1>2 DEF LeaderInv

LEMMA LeaderForwards ==
  ASSUME EventInv, LeaderInv, NEW m \in net, TmForwards(m)
  PROVE  LeaderInv'
<1>1. /\ m.of \in Requests /\ pc[m.of] = "none" /\ m.link \in links /\ m.to \in Tms
      /\ pc' = [pc EXCEPT ![m.of] = "choosing"] /\ via' = [via EXCEPT ![m.of] = m.link]
      /\ at' = [at EXCEPT ![m.of] = m.to] /\ UNCHANGED <<links, leader, unled, changes>>
  BY DEF TmForwards, Forwards, Goto, handler, history, EventInv, Types, MessageType, MessageOK
<1>2. pc \in [Requests -> PcStates] /\ at \in [Requests -> Tms \cup {Null}]
      /\ via \in [Requests -> Links \cup {Null}] /\ Null \notin Tms
      /\ \A r \in Requests : pc[r] # "none" => at[r] \in Tms
  BY LoadBalancerAssumption DEF EventInv, Types
<1>3. at[m.of] = Null
  BY <1>1 DEF LeaderInv, LeaderFound
<1>4. ASSUME NEW r \in Requests PROVE LeaderFound(r)'
  <2>1. LeaderFound(r)
    BY DEF LeaderInv
  <2>2. CASE r = m.of
    <3>1. pc'[r] = "choosing" /\ via'[r] = m.link /\ r \notin unled
      BY <1>1, <1>2, <2>1, <2>2 DEF LeaderFound
    <3> QED  BY <1>1, <3>1 DEF LeaderFound
  <2>3. CASE r # m.of
    <3>1. pc'[r] = pc[r] /\ via'[r] = via[r] /\ at'[r] = at[r]
      BY <1>1, <1>2, <2>3
    <3>2. ASSUME at[r] \in Tms, Sole(r)' PROVE Sole(r)
      <4>1. ASSUME NEW q \in Requests \ {r} PROVE at[q] # at[r]
        <5>1. CASE q = m.of
          BY <1>2, <1>3, <3>2, <5>1
        <5>2. CASE q # m.of
          BY <1>1, <1>2, <3>1, <3>2, <5>2 DEF Sole
        <5> QED  BY <5>1, <5>2
      <4> QED  BY <4>1 DEF Sole
    <3>3. pc[r] # "none" => at[r] \in Tms
      BY <1>2
    <3> HIDE DEF Sole
    <3> QED  BY <1>1, <2>1, <3>1, <3>2, <3>3 DEF LeaderFound
  <2> QED  BY <2>2, <2>3
<1> QED  BY <1>1, <1>4 DEF LeaderInv

LEMMA LeaderChosen ==
  ASSUME EventInv, LeaderInv, NEW r \in Requests, SelectLeaderWithoutTc(r) \/ SelectLeader(r)
  PROVE  LeaderInv'
<1>1. /\ pc \in [Requests -> PcStates] /\ leader \in [Tms -> Links \cup {Null}]
      /\ links \subseteq Links /\ Null \notin Links
      /\ \A q \in Requests : pc[q] # "none" => at[q] \in Tms /\ at[q] \in Ends(via[q])
  BY LoadBalancerAssumption DEF EventInv, Types, HandlerOK, Links, Nodes
<1>2. /\ UNCHANGED <<links, at, via, unled, changes>> /\ pc[r] \in {"choosing", "chosen"}
      /\ \/ pc' = [pc EXCEPT ![r] = "chosen"]
         \/ pc' = [pc EXCEPT ![r] = "sending"] /\ pc[r] = "chosen" /\ SelectLeader(r)
      /\ leader' = leader \/ \E l : leader' = [leader EXCEPT ![at[r]] = l]
  BY DEF SelectLeaderWithoutTc, SelectLeader, Goto, handler, history
<1>3. \A n \in Tms : n # at[r] => leader'[n] = leader[n]
  BY <1>1, <1>2
<1>4. ASSUME NEW q \in Requests PROVE LeaderFound(q)'
  <2>1. LeaderFound(q) /\ Sole(q)' = Sole(q)
    BY <1>2 DEF LeaderInv, Sole
  <2>2. CASE q = r
    <3>1. pc'[r] = "chosen" \/ (pc'[r] = "sending" /\ SelectLeader(r))
      BY <1>1, <1>2
    <3>2. ASSUME SelectLeader(r), via[r] \in links PROVE leader'[at[r]] # Null
      <4>1. via[r] \in Connections(at[r])
        BY <1>1, <1>2, <3>2 DEF Connections, Ends
      <4>2. PICK l \in Connections(at[r]) : leader' = [leader EXCEPT ![at[r]] = l]
        BY <3>2, <4>1 DEF SelectLeader
      <4>3. l # Null /\ at[r] \in Tms
        BY <1>1, <1>2, <4>2 DEF Connections
      <4> QED  BY <1>1, <4>2, <4>3
    <3> HIDE DEF Sole
    <3> QED  BY <1>2, <2>1, <2>2, <3>1, <3>2 DEF LeaderFound
  <2>3. CASE q # r
    <3>1. pc'[q] = pc[q]
      BY <1>1, <1>2, <2>3
    <3>2. pc[q] = "sending" /\ Sole(q) => leader'[at[q]] = leader[at[q]]
      BY <1>1, <1>3, <2>3 DEF Sole
    <3> HIDE DEF Sole
    <3> QED  BY <1>2, <2>1, <3>1, <3>2 DEF LeaderFound
  <2> QED  BY <2>2, <2>3
<1> QED  BY <1>2, <1>4 DEF LeaderInv

LEMMA LeaderMissing ==
  ASSUME EventInv, LeaderInv, NEW r \in Requests, CheckLeaderFails(r)
  PROVE  LeaderInv'
<1>1. /\ pc[r] = "sending" /\ leader[at[r]] = Null
      /\ pc' = [pc EXCEPT ![r] = "failed"] /\ unled' = unled \cup {r}
      /\ UNCHANGED <<links, leader, at, via, changes>>
  BY DEF CheckLeaderFails, Goto
<1>2. pc \in [Requests -> PcStates] /\ changes \in Nat
  BY DEF EventInv, Types
<1>3. ASSUME NEW q \in Requests PROVE LeaderFound(q)'
  <2>1. LeaderFound(q) /\ Sole(q)' = Sole(q)
    BY <1>1 DEF LeaderInv, Sole
  <2> HIDE DEF Sole
  <2>2. CASE q = r
    BY <1>1, <1>2, <2>1, <2>2 DEF LeaderFound
  <2>3. CASE q # r
    BY <1>1, <1>2, <2>1, <2>3 DEF LeaderFound
  <2> QED  BY <2>2, <2>3
<1> QED  BY <1>1, <1>3 DEF LeaderInv

LEMMA LeaderStep == EventInv /\ LeaderInv /\ [Next]_vars => LeaderInv'
<1> SUFFICES ASSUME EventInv, LeaderInv, [Next]_vars PROVE LeaderInv'
  OBVIOUS
<1> pc \in [Requests -> PcStates]
  BY DEF EventInv, Types
<1>1. ASSUME NEW r \in Requests,
             TcAsks(r) \/ TcGivesUp(r) \/ RequestMsg(r) \/ ReadyCallBack(r) \/ RecordExpires(r) \/ TimesUp(r)
      PROVE  LeaderInv'
  <2>1. UNCHANGED <<leader, at, via, unled, links, changes>>
    BY <1>1 DEF TcAsks, TcGivesUp, RequestMsg, ReadyCallBack, RecordExpires, TimesUp, handler, history
  <2>2. \/ UNCHANGED pc
        \/ /\ pc[r] \in {"choosing", "sending", "waiting", "woken"}
           /\ \E x \in {"waiting", "done", "failed"} : pc' = [pc EXCEPT ![r] = x]
    BY <1>1 DEF TcAsks, TcGivesUp, RequestMsg, ReadyCallBack, RecordExpires, TimesUp, handler, Goto
  <2> QED  BY <2>1, <2>2, LeaderStays
<1>2. ASSUME NEW m \in net, TcHandles(m) \/ TmExecutes(m) \/ TmIgnores(m)
      PROVE  LeaderInv'
  <2>1. UNCHANGED <<leader, at, via, unled, links, changes>>
    BY <1>2 DEF TcHandles, TmExecutes, TmIgnores, handler, history
  <2>2. UNCHANGED pc \/ (pc[m.of] = "waiting" /\ pc' = [pc EXCEPT ![m.of] = "woken"])
    BY <1>2 DEF TcHandles, TmExecutes, TmIgnores, Wake, Awaited, Goto, handler
  <2> QED  BY <2>1, <2>2, LeaderStays
<1>3. ASSUME NEW l \in Links, Open(l) \/ Close(l) PROVE LeaderInv'
  <2>1. UNCHANGED <<leader, at, via, unled, pc>> /\ changes' = changes + 1
    BY <1>3 DEF Open, Close, handler, history
  <2> QED  BY <2>1, LeaderStays
<1>4. CASE UNCHANGED vars
  <2>1. UNCHANGED <<leader, at, via, unled, pc, links, changes>>
    BY <1>4 DEF vars, handler, history
  <2> QED  BY <2>1, LeaderStays
<1> QED  BY <1>1, <1>2, <1>3, <1>4, LeaderForwards, LeaderChosen, LeaderMissing DEF Next, Step, Handle

(* A request finds no leader only if another handler of the same TM was     *)
(* choosing, or the connections changed: one thread alone is always led.    *)
THEOREM UnledRequestsHaveCause == Spec => []UnledHasCause
<1>1. Init => LeaderInv
  BY DEF Init, LeaderInv, LeaderFound
<1>2. LeaderInv => UnledHasCause
  BY DEF LeaderInv, LeaderFound, Sole, UnledHasCause
<1> QED  BY <1>1, <1>2, LeaderStep, EventsHold, PTL DEF Spec
-----------------------------------------------------------------------------
(* Nobody waits in vain: the connections of a forwarded event and of its     *)
(* handler are open, so that every step of the exchange finds the next one.  *)

(* The event a handler waits for, out and back over one connection.          *)
Coming(r) ==
  \E m \in net : /\ m.of = r /\ m.messageId = "forward" /\ m.named
                 /\ Ends(m.link) = {at[r], sentTo[r]}
                 /\ m.to = IF m.done THEN at[r] ELSE sentTo[r]

CallBackComing(r) ==
  \E m \in net : m.of = r /\ m.messageId = "asked" /\ m.done /\ m.to \in Tcs

WaitOK(r) ==
  (Kind[r] = "id" /\ sentTo[r] \in Tms) =>
    /\ pc[r] = "waiting" => Coming(r)
    /\ (pc[r] = "done" /\ tc[r] = "waiting") => CallBackComing(r)

LeadersOpen == \A n \in Tms : leader[n] # Null => leader[n] \in links

WaitInv ==
  /\ sentTo \in [Requests -> Nodes \cup {Null}]
  /\ changes = 0 => LeadersOpen /\ \A r \in Requests : WaitOK(r)

LEMMA WaitInit == Init => WaitInv
BY DEF Init, WaitInv, LeadersOpen, WaitOK

(* What is on its way for a request stays when nothing is taken from net but *)
(* an event of another request, or one that nobody is waiting for.           *)
LEMMA WaitStays ==
  ASSUME EventInv, WaitInv, changes = 0, NEW r \in Requests,
         at'[r] = at[r] \/ pc[r] = "none", sentTo'[r] = sentTo[r],
         pc'[r] = "waiting" => pc[r] = "waiting",
         pc'[r] = "done" => pc[r] = "done",
         (pc[r] = "done" /\ tc'[r] = "waiting") => tc[r] = "waiting",
         \A m \in net \ net' : \/ m.of # r
                               \/ /\ m.messageId = "forward" => pc'[r] # "waiting"
                                  /\ m.messageId = "asked" /\ m.to \in Tcs => tc'[r] # "waiting"
  PROVE  WaitOK(r)'
<1>1. WaitOK(r)
  BY DEF WaitInv
<1>2. ASSUME pc'[r] = "waiting", Kind[r] = "id", sentTo[r] \in Tms PROVE Coming(r)'
  <2>1. PICK m \in net : /\ m.of = r /\ m.messageId = "forward" /\ m.named
                         /\ Ends(m.link) = {at[r], sentTo[r]}
                         /\ m.to = IF m.done THEN at[r] ELSE sentTo[r]
    BY <1>1, <1>2 DEF WaitOK, Coming
  <2>2. m \in net' /\ at'[r] = at[r]
    BY <1>2, <2>1
  <2> QED  BY <2>1, <2>2 DEF Coming, Ends
<1>3. ASSUME pc'[r] = "done", tc'[r] = "waiting", Kind[r] = "id", sentTo[r] \in Tms
      PROVE  CallBackComing(r)'
  <2>1. PICK m \in net : m.of = r /\ m.messageId = "asked" /\ m.done /\ m.to \in Tcs
    BY <1>1, <1>3 DEF WaitOK, CallBackComing
  <2> QED  BY <1>3, <2>1 DEF CallBackComing
<1> QED  BY <1>2, <1>3 DEF WaitOK

LEMMA WaitTcSteps ==
  ASSUME EventInv, WaitInv, changes = 0,
         \/ \E r \in Requests : TcAsks(r) \/ TcGivesUp(r) \/ RecordExpires(r) \/ TimesUp(r) \/ CheckLeaderFails(r)
         \/ \E m \in net : TcHandles(m)
  PROVE  WaitInv'
<1>1. /\ pc \in [Requests -> PcStates] /\ changes' = 0
      /\ tc \in [Requests -> {"new", "waiting", "timed out", "answered"}]
      /\ UNCHANGED <<links, leader, at, sentTo>>
  BY DEF EventInv, Types, TcAsks, TcGivesUp, RecordExpires, TimesUp, CheckLeaderFails, TcHandles, handler, history
<1>2. LeadersOpen'
  BY <1>1 DEF WaitInv, LeadersOpen
<1>3. ASSUME NEW q \in Requests PROVE WaitOK(q)'
  <2>1. ASSUME NEW r \in Requests, TcAsks(r) \/ TcGivesUp(r) PROVE WaitOK(q)'
    <3>1. /\ net \subseteq net' /\ pc' = pc
          /\ \/ tc[r] = "new" /\ tc' = [tc EXCEPT ![r] = "waiting"]
             \/ tc' = [tc EXCEPT ![r] = "timed out"]
      BY <2>1 DEF TcAsks, TcGivesUp, handler
    <3>2. pc[r] = "done" => tc[r] # "new"
      BY DEF EventInv, HandlerOK
    <3> QED  BY <1>1, <3>1, <3>2, WaitStays
  <2>2. ASSUME NEW r \in Requests, RecordExpires(r) \/ TimesUp(r) \/ CheckLeaderFails(r) PROVE WaitOK(q)'
    <3>1. pc' = [pc EXCEPT ![r] = "failed"] /\ UNCHANGED <<net, tc>>
      BY <2>2 DEF RecordExpires, TimesUp, CheckLeaderFails, Goto
    <3> QED  BY <1>1, <3>1, WaitStays
  <2>3. ASSUME NEW m \in net, TcHandles(m) PROVE WaitOK(q)'
    <3>1. /\ net' = net \ {m} /\ m.to \in Tcs /\ pc' = pc /\ m.of \in Requests
          /\ \/ UNCHANGED tc /\ (m.messageId = "asked" => tc[m.of] # "waiting")
             \/ m.messageId = "asked" /\ tc' = [tc EXCEPT ![m.of] = "answered"]
      BY <2>3 DEF TcHandles, handler, EventInv, Types, MessageType
    <3>2. CASE m.messageId = "asked"
      BY <1>1, <3>1, <3>2, WaitStays
    <3>3. CASE m.messageId # "asked"
      <4>1. WaitOK(q)
        BY DEF WaitInv
      <4>2. tc' = tc
        BY <3>1, <3>3
      <4>3. ASSUME pc[q] = "waiting", sentTo[q] \in Tms, Coming(q) PROVE Coming(q)'
        <5>1. PICK o \in net : /\ o.of = q /\ o.messageId = "forward" /\ o.named
                               /\ Ends(o.link) = {at[q], sentTo[q]}
                               /\ o.to = IF o.done THEN at[q] ELSE sentTo[q]
          BY <4>3 DEF Coming
        <5>2. at[q] \in Tms
          BY <4>3 DEF EventInv, Types
        <5>3. o # m
          BY <3>1, <4>3, <5>1, <5>2, LoadBalancerAssumption
        <5> QED  BY <1>1, <3>1, <5>1, <5>3 DEF Coming, Ends
      <4>4. CallBackComing(q) => CallBackComing(q)'
        BY <3>1, <3>3 DEF CallBackComing
      <4> QED  BY <1>1, <3>1, <4>1, <4>2, <4>3, <4>4 DEF WaitOK
    <3> QED  BY <3>2, <3>3
  <2> QED  BY <2>1, <2>2, <2>3
<1> QED  BY <1>1, <1>2, <1>3 DEF WaitInv

LEMMA WaitChosen ==
  ASSUME EventInv, WaitInv, changes = 0, NEW r \in Requests, SelectLeaderWithoutTc(r) \/ SelectLeader(r)
  PROVE  WaitInv'
<1>1. /\ pc \in [Requests -> PcStates] /\ leader \in [Tms -> Links \cup {Null}]
      /\ UNCHANGED <<links, net, tc, at, sentTo, changes>>
      /\ pc' = [pc EXCEPT ![r] = "chosen"] \/ pc' = [pc EXCEPT ![r] = "sending"]
  BY DEF EventInv, Types, SelectLeaderWithoutTc, SelectLeader, Goto, history
<1>2. leader' = leader \/ \E l \in links \cup {Null} : leader' = [leader EXCEPT ![at[r]] = l]
  BY DEF SelectLeaderWithoutTc, SelectLeader, Candidates, Connections
<1>3. LeadersOpen'
  BY <1>1, <1>2 DEF WaitInv, LeadersOpen
<1>4. ASSUME NEW q \in Requests PROVE WaitOK(q)'
  BY <1>1, WaitStays
<1> QED  BY <1>1, <1>3, <1>4 DEF WaitInv

(* An event that is forwarded is on its way: the leader's connection is open. *)
LEMMA WaitRequestMsg ==
  ASSUME EventInv, WaitInv, changes = 0, NEW r \in Requests, RequestMsg(r)
  PROVE  WaitInv'
<1> DEFINE l == leader[at[r]]
           m == AbsMessage(r, l)
<1>1. /\ pc[r] = "sending" /\ l # Null /\ pc' = [pc EXCEPT ![r] = "waiting"]
      /\ net' = net \cup OnTheWay(m) /\ sentTo' = [sentTo EXCEPT ![r] = m.to]
      /\ UNCHANGED <<links, leader, tc, at, changes>>
  BY DEF RequestMsg, Goto
<1>2. /\ at[r] \in Tms /\ l \in Links /\ at[r] \in Ends(l) /\ l \in links
      /\ pc \in [Requests -> PcStates]
  BY <1>1 DEF EventInv, Types, LeaderOK, WaitInv, LeadersOpen
<1> HIDE DEF l
<1>3. /\ m \in MessageType
      /\ m.of = r /\ m.link = l /\ m.to = Peer(l, at[r]) /\ m.messageId = "forward"
      /\ m.first = FALSE /\ m.done = FALSE /\ m.id = Null /\ m.named = (Kind[r] = "id")
  BY <1>2, AbsMessageForm
<1>4. Ends(l) = {at[r], m.to} /\ m.to \in Nodes
  BY <1>2, <1>3, LinkFacts DEF Ends, Peer
<1>5. net' = net \cup {m}
  BY <1>1, <1>2, <1>3 DEF OnTheWay
<1> HIDE DEF m
<1>6. sentTo' \in [Requests -> Nodes \cup {Null}] /\ sentTo'[r] = m.to
  BY <1>1, <1>4 DEF WaitInv
<1>7. LeadersOpen'
  BY <1>1 DEF WaitInv, LeadersOpen
<1>8. ASSUME NEW q \in Requests PROVE WaitOK(q)'
  <2>1. CASE q = r
    <3>1. Kind[r] = "id" => Coming(r)'
      BY <1>1, <1>3, <1>4, <1>5, <1>6 DEF Coming, Ends
    <3>2. pc'[r] = "waiting"
      BY <1>1, <1>2
    <3> QED  BY <2>1, <3>1, <3>2 DEF WaitOK
  <2>2. CASE q # r
    <3>1. pc'[q] = pc[q] /\ sentTo'[q] = sentTo[q] /\ at'[q] = at[q] /\ net \subseteq net'
      BY <1>1, <1>2, <1>5, <2>2 DEF WaitInv
    <3> QED  BY <1>1, <3>1, WaitStays
  <2> QED  BY <2>1, <2>2
<1> QED  BY <1>1, <1>6, <1>7, <1>8 DEF WaitInv

(* The answer of a handler is on its way: the TC's connection is open.        *)
LEMMA WaitReadyCallBack ==
  ASSUME EventInv, LeaderInv, WaitInv, changes = 0, NEW r \in Requests, ReadyCallBack(r)
  PROVE  WaitInv'
<1> DEFINE m == CallBack(r)
<1>1. /\ pc[r] = "woken" /\ pc' = [pc EXCEPT ![r] = "done"]
      /\ net' = net \cup OnTheWay(m)
      /\ UNCHANGED <<links, leader, tc, at, sentTo, changes>>
  BY DEF ReadyCallBack, CallBack, Goto, handler, history
<1>2. /\ via[r] \in Links /\ at[r] \in Ends(via[r]) /\ Peer(via[r], at[r]) \in Tcs
      /\ answer[r] \in Nat \cup {Null} /\ via[r] \in links /\ pc \in [Requests -> PcStates]
  BY <1>1 DEF EventInv, Types, HandlerOK, LeaderInv, LeaderFound
<1>3. /\ m \in MessageType
      /\ m.of = r /\ m.link = via[r] /\ m.to = Peer(via[r], at[r]) /\ m.messageId = "asked"
      /\ m.first = TRUE /\ m.done = TRUE /\ m.id = answer[r] /\ m.named = TRUE
  BY <1>2, CallBackForm
<1>4. net' = net \cup {m}
  BY <1>1, <1>2, <1>3 DEF OnTheWay
<1> HIDE DEF m
<1>5. LeadersOpen'
  BY <1>1 DEF WaitInv, LeadersOpen
<1>6. ASSUME NEW q \in Requests PROVE WaitOK(q)'
  <2>1. CASE q = r
    <3>1. CallBackComing(r)'
      BY <1>2, <1>3, <1>4 DEF CallBackComing
    <3>2. pc'[r] = "done"
      BY <1>1, <1>2
    <3> QED  BY <2>1, <3>1, <3>2 DEF WaitOK
  <2>2. CASE q # r
    <3>1. pc'[q] = pc[q] /\ net \subseteq net'
      BY <1>1, <1>2, <1>4, <2>2
    <3> QED  BY <1>1, <3>1, WaitStays
  <2> QED  BY <2>1, <2>2
<1> QED  BY <1>1, <1>5, <1>6 DEF WaitInv

LEMMA WaitForwards ==
  ASSUME EventInv, WaitInv, changes = 0, NEW m \in net, TmForwards(m)
  PROVE  WaitInv'
<1>1. m.of \in Requests /\ m.to \in Tms /\ m.first /\ MessageOK(m)
  BY DEF EventInv, Types, MessageType, TmForwards, Forwards
<1>2. /\ net' = net \ {m} /\ pc' = [pc EXCEPT ![m.of] = "choosing"]
      /\ at' = [at EXCEPT ![m.of] = m.to]
      /\ UNCHANGED <<links, leader, tc, sentTo, changes>>
  BY DEF TmForwards, history, Goto
<1>3. pc[m.of] = "none" /\ m.messageId # "forward" /\ m.to \notin Tcs
  BY <1>1, LoadBalancerAssumption DEF MessageOK
<1>4. LeadersOpen'
  BY <1>2 DEF WaitInv, LeadersOpen
<1>5. pc \in [Requests -> PcStates] /\ at \in [Requests -> Tms \cup {Null}]
  BY DEF EventInv, Types
<1>6. ASSUME NEW q \in Requests PROVE WaitOK(q)'
  BY <1>1, <1>2, <1>3, <1>5, WaitStays
<1> QED  BY <1>2, <1>4, <1>6 DEF WaitInv

(* The event a handler waits for is executed by the other TM, which sends it  *)
(* back, or wakes the handler.                                               *)
LEMMA WaitHandled ==
  ASSUME EventInv, WaitInv, changes = 0, NEW m \in net, TmExecutes(m) \/ TmIgnores(m)
  PROVE  WaitInv'
<1>1. /\ m.of \in Requests /\ m.to \in Tms /\ MessageOK(m) /\ m \in MessageType
      /\ m.link \in links /\ m.to \notin Tcs
  BY LoadBalancerAssumption DEF EventInv, Types, MessageType, TmExecutes, TmIgnores
<1>2. /\ UNCHANGED <<links, leader, tc, at, sentTo, changes>>
      /\ net \ {m} \subseteq net'
      /\ pc' = IF Awaited(m) THEN [pc EXCEPT ![m.of] = "woken"] ELSE pc
  BY DEF TmExecutes, TmIgnores, Execute, Wake, Goto, history
<1>3. LeadersOpen'
  BY <1>2 DEF WaitInv, LeadersOpen
<1>4. /\ pc \in [Requests -> PcStates]
      /\ \A r \in Requests : pc[r] # "none" => at[r] \in Tms
  BY DEF EventInv, Types
<1>5. ASSUME NEW q \in Requests PROVE WaitOK(q)'
  <2>1. CASE q # m.of \/ Awaited(m) \/ m.messageId # "forward"
    BY <1>1, <1>2, <1>4, <2>1, WaitStays
  <2>2. CASE q = m.of /\ ~Awaited(m) /\ m.messageId = "forward"
    <3>1. pc' = pc /\ WaitOK(q) /\ ~m.first
      BY <1>1, <1>2, <2>2 DEF WaitInv, MessageOK
    <3>2. CallBackComing(q) => CallBackComing(q)'
      BY <1>1, <1>2 DEF CallBackComing
    <3>3. ASSUME pc[q] = "waiting", Kind[q] = "id", sentTo[q] \in Tms PROVE Coming(q)'
      <4>1. PICK o \in net : /\ o.of = q /\ o.messageId = "forward" /\ o.named
                             /\ Ends(o.link) = {at[q], sentTo[q]}
                             /\ o.to = IF o.done THEN at[q] ELSE sentTo[q]
        BY <3>1, <3>3 DEF WaitOK, Coming
      <4>2. CASE o # m
        BY <1>2, <4>1, <4>2 DEF Coming, Ends
      <4>3. CASE o = m
        <5>1. m.to # at[q] /\ ~m.done /\ m.to = sentTo[q]
          BY <2>2, <3>3, <4>1, <4>3 DEF Awaited
        <5>2. TmExecutes(m) /\ Executes(m)
          BY <3>1, <5>1 DEF TmIgnores, TmExecutes, Executes
        <5> DEFINE a == Answer(m)
        <5>3. Len(executed) \in Nat
          <6>1. executed \in Seq(Execution)
            BY DEF EventInv, Types
          <6> QED  BY <6>1
        <5>4. /\ a.of = q /\ a.link = m.link /\ a.to = Peer(m.link, m.to)
              /\ a.messageId = "forward" /\ a.named /\ a.done
          <6>1. m.to \in Ends(m.link)
            BY <1>1 DEF MessageOK
          <6> QED  BY <1>1, <2>2, <3>3, <4>1, <4>3, <5>3, <6>1, AnswerForm
        <5>5. net' = (net \ {m}) \cup {a}
          BY <1>1, <4>1, <4>3, <5>2, <5>4 DEF TmExecutes, Execute, OnTheWay
        <5>6. a.to = at[q]
          BY <4>1, <4>3, <5>1, <5>4 DEF Ends, Peer
        <5> HIDE DEF a
        <5> QED  BY <1>2, <4>1, <4>3, <5>4, <5>5, <5>6 DEF Coming, Ends
      <4> QED  BY <4>2, <4>3
    <3> QED  BY <1>2, <3>1, <3>2, <3>3 DEF WaitOK
  <2> QED  BY <2>1, <2>2
<1> QED  BY <1>2, <1>3, <1>5 DEF WaitInv

LEMMA WaitStep == EventInv /\ LeaderInv /\ WaitInv /\ [Next]_vars => WaitInv'
<1> SUFFICES ASSUME EventInv, LeaderInv, WaitInv, [Next]_vars PROVE WaitInv'
  OBVIOUS
<1>0. changes \in Nat
  BY DEF EventInv, Types
<1>1. CASE UNCHANGED vars
  <2>1. UNCHANGED <<links, leader, net, tc, at, pc, sentTo, changes>>
    BY <1>1 DEF vars, handler, history
  <2>2. CASE changes = 0
    <3>1. \A r \in Requests : WaitOK(r)'
      BY <2>1, <2>2, WaitStays
    <3> QED  BY <2>1, <3>1 DEF WaitInv, LeadersOpen
  <2> QED  BY <2>1, <2>2 DEF WaitInv
<1>2. ASSUME NEW l \in Links, Open(l) \/ Close(l) PROVE WaitInv'
  <2>1. changes' = changes + 1 /\ UNCHANGED sentTo
    BY <1>2 DEF Open, Close, history
  <2> QED  BY <1>0, <2>1 DEF WaitInv
<1>3. CASE changes # 0 /\ Next
  <2>1. ASSUME NEW r \in Requests, RequestMsg(r) PROVE WaitInv'
    <3>1. /\ at[r] \in Tms /\ leader[at[r]] \in Links /\ at[r] \in Ends(leader[at[r]])
          /\ sentTo' = [sentTo EXCEPT ![r] = AbsMessage(r, leader[at[r]]).to] /\ changes' = changes
      BY <2>1 DEF RequestMsg, EventInv, Types, LeaderOK
    <3>2. AbsMessage(r, leader[at[r]]).to \in Nodes
      <4> DEFINE l == leader[at[r]]
      <4>1. l \in Links /\ at[r] \in Ends(l)
        BY <3>1
      <4> HIDE DEF l
      <4>2. AbsMessage(r, l).to = Peer(l, at[r])
        BY <4>1, AbsMessageForm
      <4>3. Peer(l, at[r]) \in Nodes
        BY <4>1, LinkFacts
      <4> QED  BY <4>2, <4>3 DEF l
    <3> QED  BY <1>3, <3>1, <3>2 DEF WaitInv
  <2>2. ASSUME NEW r \in Requests,
               TcAsks(r) \/ TcGivesUp(r) \/ SelectLeaderWithoutTc(r) \/ SelectLeader(r)
               \/ CheckLeaderFails(r) \/ ReadyCallBack(r) \/ RecordExpires(r) \/ TimesUp(r)
        PROVE  WaitInv'
    <3>1. UNCHANGED <<sentTo, changes>>
      BY <2>2 DEF TcAsks, TcGivesUp, SelectLeaderWithoutTc, SelectLeader, CheckLeaderFails,
                  ReadyCallBack, RecordExpires, TimesUp, history
    <3> QED  BY <1>3, <3>1 DEF WaitInv
  <2>3. ASSUME NEW m \in net, Handle(m) PROVE WaitInv'
    <3>1. UNCHANGED <<sentTo, changes>>
      BY <2>3 DEF Handle, TcHandles, TmExecutes, TmIgnores, TmForwards, history
    <3> QED  BY <1>3, <3>1 DEF WaitInv
  <2> QED  BY <1>2, <1>3, <2>1, <2>2, <2>3 DEF Next, Step
<1>4. CASE changes = 0 /\ Next
  BY <1>2, <1>4, WaitTcSteps, WaitChosen, WaitRequestMsg, WaitReadyCallBack, WaitForwards, WaitHandled
     DEF Next, Step, Handle
<1> QED  BY <1>1, <1>3, <1>4

(* As long as connections stay, no handler waits for an event that is lost or *)
(* that somebody else has been woken by, and no TC for an answer that was      *)
(* never sent, with any number of nodes, requests and handlers.                *)
THEOREM WaitersAreServed == Spec => []NobodyWaitsInVain
<1>1. WaitInv => NobodyWaitsInVain
  <2> SUFFICES ASSUME WaitInv, changes = 0, NEW r \in Requests, Kind[r] = "id", sentTo[r] \in Tms
               PROVE  /\ pc[r] = "waiting" =>
                           \E m \in net : /\ m.of = r /\ m.messageId = "forward"
                                          /\ m.to = IF m.done THEN at[r] ELSE sentTo[r]
                      /\ (pc[r] = "done" /\ tc[r] = "waiting") =>
                           \E m \in net : m.of = r /\ m.messageId = "asked" /\ m.done /\ m.to \in Tcs
    BY DEF NobodyWaitsInVain
  <2>1. WaitOK(r)
    BY DEF WaitInv
  <2> QED  BY <2>1 DEF WaitOK, Coming, CallBackComing
<1>2. Init => EventInv /\ LeaderInv /\ WaitInv
  BY EventInit, WaitInit DEF Init, LeaderInv, LeaderFound
<1> QED  BY <1>1, <1>2, EventStep, LeaderStep, WaitStep, PTL DEF Spec
=============================================================================
