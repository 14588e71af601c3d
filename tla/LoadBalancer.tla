--------------------------- MODULE LoadBalancer ---------------------------
(***************************************************************************)
(* What a TM does with an event of a TC: with exactly one connection it    *)
(* executes it, otherwise it forwards a blank event of the same class to   *)
(* another node, waits for the answer and sends that back to the TC.       *)
(* EventStatusHandler takes the steps, TmManagerReporter chooses the node. *)
(*                                                                         *)
(* A request is one message of a TC.  A connection is a pair of the node   *)
(* that dialled and the node that accepted; both ends learn at once that   *)
(* it opens or closes.  Messages on the way, or waiting for a thread of a  *)
(* ProtocolChannelHandler, are a set: its pool handles those of one        *)
(* connection in any order.  All connections a TM accepts share one pool,  *)
(* and a handler that forwards keeps its thread until it has its answer.   *)
(* Each execution has a number, which stands for the id it generates.      *)
(***************************************************************************)
EXTENDS Naturals, Sequences, FiniteSets

CONSTANTS Tms, Tcs,
          Requests,
          From,         \* From[r] is the TC that asks
          Kind,         \* "id" (SnowflakeCreateEvent) or "transaction"
          Threads,      \* Threads[n]: threads of such a pool of TM n; 30 by default
          MaxChanges,   \* bound on the connections opened or closed
          MaxExecuted,  \* bound on the executions
          Null

ASSUME LoadBalancerAssumption ==
  /\ Tms \cap Tcs = {} /\ Null \notin Tms \cup Tcs \cup Requests
  /\ Null \notin {"asked", "forward"} /\ Null \notin (Tms \cup Tcs) \X Tms
  /\ From \in [Requests -> Tcs]
  /\ Kind \in [Requests -> {"id", "transaction"}]
  /\ Threads \in [Tms -> Nat \ {0}] /\ MaxChanges \in Nat /\ MaxExecuted \in Nat

Nodes == Tms \cup Tcs
Links == {l \in Nodes \X Tms : l[1] # l[2]}

VARIABLES
  links,     \* the open connections
  leader,    \* TmManagerReporter.leader of each TM, one for all its threads
  net,       \* messages on the way
  tc, got,   \* where the TC is with each request, and the id it was given
  pc, at, via, answer,  \* the handler that forwards: where it is, its TM, the
                        \* connection of the TC, the id in the answer
  executed,  \* history: every execution of an event's business logic
  sentTo,    \* history: the node each request was forwarded to
  crossed,   \* history: how often an event of each request went between TMs
  unled,     \* history: requests that found no leader
  changes

handler == <<pc, at, via, answer>>
history == <<executed, sentTo, crossed, unled>>
vars == <<links, leader, net, tc, got, handler, history, changes>>

Init ==
  /\ links \in SUBSET Links
  /\ leader = [n \in Tms |-> Null]
  /\ net = {}
  /\ tc     = [r \in Requests |-> "new"]
  /\ got    = [r \in Requests |-> Null]
  /\ pc     = [r \in Requests |-> "none"]
  /\ at     = [r \in Requests |-> Null]
  /\ via    = [r \in Requests |-> Null]
  /\ answer = [r \in Requests |-> Null]
  /\ executed = <<>>
  /\ sentTo  = [r \in Requests |-> Null]
  /\ crossed = [r \in Requests |-> 0]
  /\ unled = {} /\ changes = 0

Connections(n) == {l \in links : n \in {l[1], l[2]}}
Peer(l, n) == IF l[1] = n THEN l[2] ELSE l[1]
Alone(n) == Cardinality(Connections(n)) = 1

(* first is isFirstNode; done is isBusinessExecuted and isReadyCallBack,   *)
(* which are always set together; named says that the event carries its    *)
(* groupId, which only transaction events need.                            *)
Message(r, l, n, mid, first) ==
  [of |-> r, link |-> l, to |-> Peer(l, n), messageId |-> mid,
   first |-> first, done |-> FALSE, id |-> Null, named |-> TRUE]

(* Mutant: what is written to a connection that is closed arrives.         *)
OnTheWayAnyhow(m) == {m}

(* What is written to a connection that is closed is lost.                 *)
OnTheWay(m) == IF m.link \in links THEN {m} ELSE {}

Goto(r, l) == pc' = [pc EXCEPT ![r] = l]

-----------------------------------------------------------------------------
(* The TC.  Transaction messages have no messageId.                        *)

TcAsks(r) ==
  /\ tc[r] = "new"
  /\ \E l \in Connections(From[r]) :
       net' = net \cup {Message(r, l, From[r],
                                IF Kind[r] = "id" THEN "asked" ELSE Null, TRUE)}
  /\ tc' = [tc EXCEPT ![r] = "waiting"]
  /\ UNCHANGED <<links, leader, got, handler, history, changes>>

TcGivesUp(r) ==
  /\ tc[r] = "waiting"
  /\ tc' = [tc EXCEPT ![r] = "timed out"]
  /\ UNCHANGED <<links, leader, net, got, handler, history, changes>>

(* A TC only looks for the thread that waits; an event it did not ask for  *)
(* is dropped.                                                             *)
TcHandles(m) ==
  /\ m \in net /\ m.to \in Tcs
  /\ net' = net \ {m}
  /\ IF m.messageId = "asked" /\ tc[m.of] = "waiting"
     THEN /\ tc'  = [tc EXCEPT ![m.of] = "answered"]
          /\ got' = [got EXCEPT ![m.of] = m.id]
     ELSE UNCHANGED <<tc, got>>
  /\ UNCHANGED <<links, leader, handler, history, changes>>

-----------------------------------------------------------------------------
(* A TM handles a message: first it wakes the thread that waits for it.    *)

Awaited(m) == m.messageId = "forward" /\ pc[m.of] = "waiting" /\ at[m.of] = m.to

NextId == Len(executed) + 1

(* Mutant: the event is sent back before the id is set in it.              *)
AnswerEarly(m) == [m EXCEPT !.to = Peer(m.link, m.to), !.done = Kind[m.of] = "id"]

(* Mutant: the event is not marked as executed.                            *)
AnswerUnmarked(m) == [m EXCEPT !.to = Peer(m.link, m.to),
                               !.id = IF Kind[m.of] = "id" THEN NextId ELSE Null]

Answer(m) == [m EXCEPT !.to = Peer(m.link, m.to), !.done = Kind[m.of] = "id",
                       !.id = IF Kind[m.of] = "id" THEN NextId ELSE Null]

Crossing(m) == IF m.to \in Tms THEN [crossed EXCEPT ![m.of] = @ + 1] ELSE crossed

(* The event's own logic answers over the connection the event came by.    *)
(* Without a groupId the repository throws, and nobody is answered.        *)
Execute(m) ==
  IF m.named
  THEN /\ Len(executed) < MaxExecuted
       /\ executed' = Append(executed, [of |-> m.of, at |-> m.to,
                                        alone |-> Alone(m.to), again |-> m.done])
       /\ net' = (net \ {m}) \cup OnTheWay(Answer(m))
       /\ crossed' = Crossing(Answer(m))
  ELSE net' = net \ {m} /\ UNCHANGED <<executed, crossed>>

(* Mutant: onBusinessExecuted does not look whether the event was executed. *)
ExecutesAnswers(m) == Alone(m.to) \/ ~m.first

(* onOneConnection, onFirstNode, onBusinessExecuted: which of them acts.   *)
Executes(m) == Alone(m.to) \/ (~m.first /\ ~m.done)
Forwards(m) == ~Alone(m.to) /\ m.first

(* The events of TCs come over connections the TM has accepted, so that     *)
(* every handler that forwards keeps a thread of the pool these share.  A   *)
(* connection the TM has dialled has a handler and a pool of its own.       *)
Forwarders(n) ==
  {r \in Requests : at[r] = n /\ pc[r] \in {"choosing", "chosen", "sending", "waiting", "woken"}}

Full(n) == Cardinality(Forwarders(n)) >= Threads[n]

(* Mutant: the connections a TM has dialled share the pool too.             *)
HasSharedThread(m) == ~Full(m.to)

HasThread(m) == m.link[1] = m.to \/ ~Full(m.to)

(* A thread that was woken copies the answer while its handler may be      *)
(* executing it again: it may find the old id in it or the new one.        *)
Wake(m) ==
  IF Awaited(m)
  THEN /\ Goto(m.of, "woken")
       /\ \E id \in IF Executes(m) THEN {m.id, NextId} ELSE {m.id} :
            answer' = [answer EXCEPT ![m.of] = id]
  ELSE UNCHANGED <<pc, answer>>

TmExecutes(m) ==
  /\ m \in net /\ m.to \in Tms /\ HasThread(m) /\ Executes(m)
  /\ Wake(m)
  /\ Execute(m)
  /\ UNCHANGED <<links, leader, tc, got, at, via, sentTo, unled, changes>>

TmIgnores(m) ==
  /\ m \in net /\ m.to \in Tms /\ HasThread(m) /\ ~Executes(m) /\ ~Forwards(m)
  /\ Wake(m)
  /\ net' = net \ {m}
  /\ UNCHANGED <<links, leader, tc, got, at, via, history, changes>>

TmForwards(m) ==
  /\ m \in net /\ m.to \in Tms /\ HasThread(m) /\ Forwards(m)
  /\ net' = net \ {m}
  /\ Goto(m.of, "choosing")
  /\ at'  = [at EXCEPT ![m.of] = m.to]
  /\ via' = [via EXCEPT ![m.of] = m.link]
  /\ UNCHANGED <<links, leader, tc, got, answer, history, changes>>

-----------------------------------------------------------------------------
(* The handler that forwards.  The connections it dialled to the TMs that  *)
(* are in Redis are candidates; a record that expires while it reads them  *)
(* ends the handler with an exception.                                     *)

Candidates(r, known) ==
  {l \in Connections(at[r]) : l # via[r] /\ l[1] = at[r] /\ l[2] \in known}

SelectLeaderWithoutTc(r) ==
  /\ pc[r] = "choosing"
  /\ Goto(r, "chosen")
  /\ IF Connections(at[r]) = {} THEN UNCHANGED leader
     ELSE \E known \in SUBSET (Tms \ {at[r]}) :
            \E l \in IF Candidates(r, known) = {} THEN {Null} ELSE Candidates(r, known) :
              leader' = [leader EXCEPT ![at[r]] = l]
  /\ UNCHANGED <<links, net, tc, got, at, via, answer, history, changes>>

RecordExpires(r) ==
  /\ pc[r] = "choosing"
  /\ Goto(r, "failed")
  /\ UNCHANGED <<links, leader, net, tc, got, at, via, answer, history, changes>>

(* Mutant: the leader chosen first is kept, if there is one or not.        *)
SelectNoLeader(r) ==
  /\ pc[r] = "chosen"
  /\ Goto(r, "sending")
  /\ UNCHANGED <<links, leader, net, tc, got, at, via, answer, history, changes>>

(* Then the first connection in the order of the map becomes the leader.   *)
SelectLeader(r) ==
  /\ pc[r] = "chosen"
  /\ Goto(r, "sending")
  /\ IF Connections(at[r]) = {} THEN UNCHANGED leader
     ELSE \E l \in Connections(at[r]) : leader' = [leader EXCEPT ![at[r]] = l]
  /\ UNCHANGED <<links, net, tc, got, at, via, answer, history, changes>>

(* Mutant: the event's fields are copied.                                  *)
AbsMessageCopied(r, l) == Message(r, l, at[r], "forward", FALSE)

(* getAbsMessage makes an event of the same class with no field set.       *)
AbsMessage(r, l) ==
  [Message(r, l, at[r], "forward", FALSE) EXCEPT !.named = Kind[r] = "id"]

RequestMsg(r) ==
  /\ pc[r] = "sending" /\ leader[at[r]] # Null
  /\ LET m == AbsMessage(r, leader[at[r]]) IN
       /\ net' = net \cup OnTheWay(m)
       /\ sentTo' = [sentTo EXCEPT ![r] = m.to]
       /\ crossed' = Crossing(m)
  /\ Goto(r, "waiting")
  /\ UNCHANGED <<links, leader, tc, got, at, via, answer, executed, unled, changes>>

CheckLeaderFails(r) ==
  /\ pc[r] = "sending" /\ leader[at[r]] = Null
  /\ Goto(r, "failed")
  /\ unled' = unled \cup {r}
  /\ UNCHANGED <<links, leader, net, tc, got, at, via, answer, executed, sentTo, crossed, changes>>

(* No answer in time: there is nothing to copy the properties from.        *)
TimesUp(r) ==
  /\ pc[r] = "waiting"
  /\ Goto(r, "failed")
  /\ UNCHANGED <<links, leader, net, tc, got, at, via, answer, history, changes>>

(* onReadyCallBack, with the first message's id restored.                  *)
ReadyCallBack(r) ==
  /\ pc[r] = "woken"
  /\ Goto(r, "done")
  /\ net' = net \cup OnTheWay([Message(r, via[r], at[r], "asked", TRUE)
                               EXCEPT !.done = TRUE, !.id = answer[r]])
  /\ UNCHANGED <<links, leader, tc, got, at, via, answer, history, changes>>

-----------------------------------------------------------------------------
(* A connection opens, or closes and loses what is on it.                  *)

Open(l) ==
  /\ l \notin links /\ changes < MaxChanges
  /\ links' = links \cup {l} /\ changes' = changes + 1
  /\ UNCHANGED <<leader, net, tc, got, handler, history>>

Close(l) ==
  /\ l \in links /\ changes < MaxChanges
  /\ links' = links \ {l} /\ changes' = changes + 1
  /\ net' = {m \in net : m.link # l}
  /\ UNCHANGED <<leader, tc, got, handler, history>>

Handle(m) == TcHandles(m) \/ TmExecutes(m) \/ TmIgnores(m) \/ TmForwards(m)

Step(r) ==
  \/ SelectLeaderWithoutTc(r) \/ SelectLeader(r)
  \/ RequestMsg(r) \/ CheckLeaderFails(r) \/ ReadyCallBack(r)

Next ==
  \/ \E r \in Requests :
       TcAsks(r) \/ TcGivesUp(r) \/ Step(r) \/ RecordExpires(r) \/ TimesUp(r)
  \/ \E m \in net : Handle(m)
  \/ \E l \in Links : Open(l) \/ Close(l)

(* Threads run and messages arrive, and one that has a thread is handled;   *)
(* nothing says that a wait times out.                                      *)
Fairness ==
  \A r \in Requests : WF_vars(Step(r)) /\ WF_vars(\E m \in net : m.of = r /\ Handle(m))

Spec == Init /\ [][Next]_vars /\ Fairness

-----------------------------------------------------------------------------
Executions == 1..Len(executed)
Ids == Executions \cup {Null}

(* Types, and that only the TM of a handler that forwards is set.          *)
TypeOK ==
  /\ links \subseteq Links
  /\ leader \in [Tms -> Links \cup {Null}]
  /\ net \subseteq [of : Requests, link : links, to : Nodes,
                    messageId : {"asked", "forward", Null}, first : BOOLEAN,
                    done : BOOLEAN, id : Ids, named : BOOLEAN]
  /\ tc \in [Requests -> {"new", "waiting", "timed out", "answered"}]
  /\ got \in [Requests -> Ids] /\ answer \in [Requests -> Ids]
  /\ pc \in [Requests -> {"none", "choosing", "chosen", "sending", "waiting",
                          "woken", "done", "failed"}]
  /\ \A r \in Requests : pc[r] # "none" => at[r] \in Tms /\ via[r] \in Links

(* EventStatusHandler's flags: whatever connections come and go, an event  *)
(* is executed a second time only by a TM that has a single connection,    *)
(* which does not look whether the event is an answer (onOneConnection).   *)
ExecutedAgainOnlyAlone ==
  \A i, j \in Executions :
    (i < j /\ executed[i].of = executed[j].of) => executed[j].alone /\ executed[j].again

(* The flags also end the exchange: between TMs an event goes once there   *)
(* and once back, plus once for each time a lone TM executes an answer.    *)
NoPingPong ==
  \A r \in Requests :
    crossed[r] <= 2 + Cardinality({i \in Executions : executed[i].of = r /\ executed[i].again})

(* The answer a TC gets holds an id that was generated for that request,   *)
(* although a TM hands the object on while it may execute it again.        *)
AnswerIsForTheRequest ==
  \A r \in Requests : tc[r] = "answered" => got[r] \in Executions /\ executed[got[r]].of = r

(* A forwarded transaction event has lost its groupId: transaction events  *)
(* are executed only where the TC is the TM's single connection.           *)
TransactionsStayLocal ==
  \A i \in Executions :
    Kind[executed[i].of] = "transaction" => executed[i].alone /\ ~executed[i].again

(* The leader is a field all handlers of a TM share: a handler finds none  *)
(* only while another handler chooses, or after connections changed.       *)
UnledHasCause ==
  \A r \in unled : changes > 0 \/ \E q \in Requests \ {r} : at[q] = at[r]

(* An id request that is forwarded to a TM is answered to the TC, unless   *)
(* connections change, the wait times out, or the event it waits for stays *)
(* without a thread: it came over a connection its TM has accepted, and    *)
(* all threads for those are kept by handlers that forward.  These may be  *)
(* waiting for each other, and then only their time limit goes on.         *)
Served ==
  \A r \in Requests :
    (pc[r] = "waiting" /\ sentTo[r] \in Tms /\ Kind[r] = "id")
      ~> \/ tc[r] # "waiting" \/ pc[r] = "failed" \/ changes > 0
         \/ [](\E m \in net : /\ m.of = r /\ m.messageId = "forward"
                              /\ m.link[2] = m.to /\ Full(m.to))

(* The safety half of Served: while connections stay, the event a handler   *)
(* waits for is on its way, to the other TM as long as nobody has executed  *)
(* it and back to the handler's own once somebody has; and the TC's answer  *)
(* is on its way once the handler is done, unless the TC has it.  On its    *)
(* way says that it is not lost, not that a thread is free to handle it.    *)
NobodyWaitsInVain ==
  \A r \in Requests :
    (Kind[r] = "id" /\ sentTo[r] \in Tms /\ changes = 0) =>
      /\ pc[r] = "waiting" =>
           \E m \in net : /\ m.of = r /\ m.messageId = "forward"
                          /\ m.to = IF m.done THEN at[r] ELSE sentTo[r]
      /\ (pc[r] = "done" /\ tc[r] = "waiting") =>
           \E m \in net : m.of = r /\ m.messageId = "asked" /\ m.done /\ m.to \in Tcs

(* TmManagerReporter.java:57 "choose another TmNode to connect to",        *)
(* line 64 "filter out the connections of TCs".                            *)
ForwardedToTm == \A r \in Requests : sentTo[r] \in Tms \cup {Null}
=============================================================================
