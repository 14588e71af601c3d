--------------------------- MODULE AspectThread ---------------------------
(***************************************************************************)
(* The threads of one TC, pooled and used again, with what the aspect and  *)
(* the RPC tracer bind to them: TransactionInfo and JdbcTransaction.  The  *)
(* TC keeps one group id for all transactions it starts (SnowflakeInfo,    *)
(* Cache) and one connection per group id (JdbcContext).                   *)
(*                                                                         *)
(* A request is served once, by one thread, with at most one database      *)
(* connection, which is named after it.  The TM, the other TCs and the     *)
(* database are external: answers come or do not.  An annotated method     *)
(* that calls another one in its thread is left out.                       *)
(***************************************************************************)
EXTENDS Naturals, FiniteSets

CONSTANTS Threads, Requests,
          Header,     \* Header[r] is the group id r comes with, Null if none
          Annotated,  \* requests whose method starts or joins transactions
          Fetchers,   \* threads that may ask the TM for an id at a time
          MaxIds,     \* bound on the ids the TM gives
          Null

ASSUME AspectThreadAssumption ==
  /\ Null \notin Requests \cup Nat
  /\ \A r \in Requests : Header[r] \notin 1..MaxIds
  /\ Annotated \subseteq Requests /\ MaxIds \in Nat

Groups == 1..MaxIds \cup ({Header[r] : r \in Requests} \ {Null})
States == {"CREATE", "JOIN", "NOTIFY"}
Infos  == [groupId : Groups \cup {Null}, state : States, typed : BOOLEAN]

(* What a request runs with that is in no group.                           *)
Alone == [groupId |-> Null, state |-> "alone", typed |-> FALSE]

ASSUME NullAssumption == Null \notin Infos \cup {Alone}

VARIABLES
  groupId, ids, asking, \* the cached id, how many were given, who asks for one
  info, jdbc,           \* the thread-locals
  pc, doing, success,   \* where each thread is, its request, successReturn
  held,                 \* JdbcContext: the connection kept for each group
  conn,                 \* the connection of each request
  task, lock,           \* the executor's wait of each joiner, and the one that
                        \* is registered under each group id
  ran, threw, adrift      \* history: the info each request ran with, those that
                        \* left the thread by an exception in the end step,
                        \* and those whose TM was not asked or waited for

cache   == <<groupId, ids, asking>>
locals  == <<info, jdbc>>
thread  == <<pc, doing, success>>
jdbcCtx == <<held, conn>>
tasks   == <<task, lock, adrift>>
vars    == <<cache, locals, thread, jdbcCtx, tasks, ran, threw>>

Init ==
  /\ groupId = Null /\ ids = 0 /\ asking = {}
  /\ info = [t \in Threads |-> Null] /\ jdbc = [t \in Threads |-> Null]
  /\ pc   = [t \in Threads |-> "idle"]
  /\ doing = [t \in Threads |-> Null] /\ success = [t \in Threads |-> FALSE]
  /\ held = [g \in Groups |-> Null]
  /\ conn = [r \in Requests |-> "none"]
  /\ task = [r \in Requests |-> "none"] /\ lock = [g \in Groups |-> Null]
  /\ ran  = [r \in Requests |-> Null]
  /\ threw = {} /\ adrift = {}

Goto(t, l) == pc' = [pc EXCEPT ![t] = l]
GroupOf(t) == info[t].groupId

-----------------------------------------------------------------------------
(* The id cache.  A fetcher looks for TAG, asks the TM and stores the id   *)
(* with its TAG; after 12 hours the cache forgets both.                    *)

Ask(f) ==
  /\ groupId = Null /\ f \notin asking /\ ids + Cardinality(asking) < MaxIds
  /\ asking' = asking \cup {f}
  /\ UNCHANGED <<groupId, ids, locals, thread, jdbcCtx, tasks, ran, threw>>

IdArrives(f) ==
  /\ f \in asking
  /\ asking' = asking \ {f}
  /\ ids' = ids + 1 /\ groupId' = ids + 1
  /\ UNCHANGED <<locals, thread, jdbcCtx, tasks, ran, threw>>

NoId(f) ==
  /\ f \in asking
  /\ asking' = asking \ {f}
  /\ UNCHANGED <<groupId, ids, locals, thread, jdbcCtx, tasks, ran, threw>>

GrowsOld ==
  /\ groupId # Null
  /\ groupId' = Null
  /\ UNCHANGED <<ids, asking, locals, thread, jdbcCtx, tasks, ran, threw>>

-----------------------------------------------------------------------------
(* A thread takes a request.  The tracer binds the header's group, unless  *)
(* something is bound; the aspect takes what is bound, or starts a group.  *)

Traced(t, r) ==
  IF Header[r] # Null /\ info[t] = Null
  THEN [groupId |-> Header[r], state |-> "JOIN", typed |-> FALSE]
  ELSE info[t]

Taken(t, r) ==
  IF r \notin Annotated THEN Traced(t, r)
  ELSE IF Traced(t, r) = Null
       THEN [groupId |-> groupId, state |-> "CREATE", typed |-> TRUE]
       ELSE [Traced(t, r) EXCEPT !.typed = TRUE]

Serve(t, r) ==
  /\ pc[t] = "idle" /\ ran[r] = Null
  /\ info' = [info EXCEPT ![t] = Taken(t, r)]
  /\ ran'  = [ran EXCEPT ![r] = IF Taken(t, r) = Null THEN Alone ELSE Taken(t, r)]
  /\ doing' = [doing EXCEPT ![t] = r]
  /\ Goto(t, IF r \in Annotated /\ Taken(t, r).state = "CREATE" THEN "creating" ELSE "business")
  /\ UNCHANGED <<cache, jdbc, success, jdbcCtx, tasks, threw>>

CreateAnswered(t) ==
  /\ pc[t] = "creating" /\ GroupOf(t) # Null
  /\ Goto(t, "business")
  /\ UNCHANGED <<cache, locals, doing, success, jdbcCtx, tasks, ran, threw>>

(* tryEndTransaction: who created, or left NOTIFY behind, notifies.        *)
ToEnd(t, ok) ==
  /\ success' = [success EXCEPT ![t] = ok]
  /\ IF info[t].state = "JOIN" THEN Goto(t, "joining") /\ UNCHANGED info
     ELSE Goto(t, "notifying") /\ info' = [info EXCEPT ![t].state = "NOTIFY"]

(* No answer in time, no TM, or no group id to wait under.                 *)
CreateFails(t) ==
  /\ pc[t] = "creating"
  /\ ToEnd(t, FALSE)
  /\ UNCHANGED <<cache, jdbc, doing, jdbcCtx, tasks, ran, threw>>

(* The business takes a connection, which is a proxied one in a            *)
(* transaction: its close does nothing.                                    *)
Connect(t) ==
  /\ pc[t] = "business" /\ info[t] # Null /\ info[t].typed
  /\ conn[doing[t]] = "none"
  /\ jdbc' = [jdbc EXCEPT ![t] = doing[t]]
  /\ conn' = [conn EXCEPT ![doing[t]] = "open"]
  /\ UNCHANGED <<cache, info, thread, held, tasks, ran, threw>>

(* It ends its local transaction: the connection is kept for the group     *)
(* instead.  This need not come: a connection may be used in auto-commit,  *)
(* saveLog may throw, and without a group id the map refuses it.           *)
Keep(t) ==
  /\ pc[t] = "business" /\ conn[doing[t]] = "open" /\ GroupOf(t) # Null
  /\ conn' = [conn EXCEPT ![doing[t]] = "kept"]
  /\ held' = [held EXCEPT ![GroupOf(t)] = doing[t]]
  /\ UNCHANGED <<cache, locals, thread, tasks, ran, threw>>

BusinessEnds(t) ==
  /\ pc[t] = "business" /\ doing[t] \in Annotated
  /\ \E ok \in BOOLEAN : ToEnd(t, ok)
  /\ UNCHANGED <<cache, jdbc, doing, jdbcCtx, tasks, ran, threw>>

(* Mutant: a thread in the pool still has its request.                     *)
LeaveBusy(t) == Goto(t, "idle") /\ UNCHANGED doing

Leave(t) == Goto(t, "idle") /\ doing' = [doing EXCEPT ![t] = Null]

(* A method without annotation returns: nobody clears the thread-locals.   *)
PlainEnds(t) ==
  /\ pc[t] = "business" /\ doing[t] \notin Annotated
  /\ Leave(t)
  /\ UNCHANGED <<cache, locals, success, jdbcCtx, tasks, ran, threw>>

-----------------------------------------------------------------------------
(* The end step.  An exception in it skips clearTransaction.               *)

(* Mutant: only the JdbcTransaction is cleared.                            *)
ClearJdbc(t) ==
  /\ jdbc' = [jdbc EXCEPT ![t] = Null]
  /\ UNCHANGED info

Clear(t) ==
  /\ info' = [info EXCEPT ![t] = Null]
  /\ jdbc' = [jdbc EXCEPT ![t] = Null]

Throw(t) == threw' = threw \cup {doing[t]} /\ UNCHANGED locals

(* LcnCommitor.commit ends the connection kept for the group, whosever it  *)
(* is; one that was ended before only raises what is swallowed, and one    *)
(* that breaks is rolled back.                                             *)
EndConnection(g, commit) ==
  /\ \E how \in IF commit THEN {"committed", "rolled back"} ELSE {"rolled back"} :
       conn' = [conn EXCEPT ![held[g]] = IF @ = "kept" THEN how ELSE @]
  /\ UNCHANGED held

HasConnection(g) == g # Null /\ held[g] # Null

(* Without a connection it throws, and in a commit also without a          *)
(* JdbcTransaction on the thread, whose log ids it deletes.                *)
CanEnd(t, commit) == HasConnection(GroupOf(t)) /\ (commit => jdbc[t] # Null)

NotifyEnds(t, commit) ==
  /\ Leave(t)
  /\ IF CanEnd(t, commit)
     THEN /\ EndConnection(GroupOf(t), commit)
          /\ Clear(t) /\ UNCHANGED threw
     ELSE Throw(t) /\ UNCHANGED jdbcCtx
  /\ UNCHANGED <<cache, success, tasks, ran>>

(* An answer may be that to another transaction under the same group id.   *)
NotifyAnswered(t) ==
  /\ pc[t] = "notifying"
  /\ \E commit \in {FALSE, success[t]} : NotifyEnds(t, commit)

(* After a success the thread asks again instead.                          *)
NotifyTimedOut(t) ==
  /\ pc[t] = "notifying" /\ ~success[t]
  /\ NotifyEnds(t, FALSE)

(* The request throws: no TM is connected, or no lock can be had.          *)
RequestThrows(t) ==
  /\ pc[t] \in {"notifying", "joining"}
  /\ Leave(t) /\ Throw(t)
  /\ adrift' = adrift \cup {doing[t]}
  /\ UNCHANGED <<cache, success, jdbcCtx, task, lock, ran>>

JoinAnswered(t) ==
  /\ pc[t] = "joining"
  /\ Leave(t) /\ Clear(t)
  /\ task' = IF jdbc[t] = Null THEN task ELSE [task EXCEPT ![doing[t]] = "started"]
  /\ UNCHANGED <<cache, success, jdbcCtx, lock, adrift, ran, threw>>

(* Mutant: a join without an answer throws and does not roll back.         *)
JoinTimedOutKeeps(t) ==
  /\ pc[t] = "joining"
  /\ Leave(t) /\ Throw(t)
  /\ UNCHANGED <<cache, success, jdbcCtx, tasks, ran>>

JoinTimedOut(t) ==
  /\ pc[t] = "joining"
  /\ Leave(t) /\ Throw(t)
  /\ IF HasConnection(GroupOf(t))
     THEN EndConnection(GroupOf(t), FALSE)
     ELSE UNCHANGED jdbcCtx
  /\ UNCHANGED <<cache, success, tasks, ran>>

-----------------------------------------------------------------------------
(* The executor's part of a join.  The lock is registered under the group  *)
(* id, where it hides an earlier one; it is never cleared.                 *)

TaskWaits(r) ==
  /\ task[r] = "started"
  /\ task' = [task EXCEPT ![r] = "waiting"]
  /\ lock' = [lock EXCEPT ![ran[r].groupId] = r]
  /\ UNCHANGED <<cache, locals, thread, jdbcCtx, adrift, ran, threw>>

CommitEvent(g) ==
  /\ lock[g] # Null
  /\ lock' = [lock EXCEPT ![g] = Null]
  /\ IF task[lock[g]] = "waiting"
     THEN /\ task' = [task EXCEPT ![lock[g]] = "over"]
          /\ IF HasConnection(g)
             THEN \E commit \in BOOLEAN : EndConnection(g, commit)
             ELSE UNCHANGED jdbcCtx
     ELSE UNCHANGED <<task, jdbcCtx>>
  /\ UNCHANGED <<cache, locals, thread, adrift, ran, threw>>

(* Mutant: the wait is not timed.                                          *)
TaskWaitsOn(r) ==
  /\ task[r] = "waiting" /\ lock[ran[r].groupId] = Null
  /\ task' = [task EXCEPT ![r] = "over"]
  /\ adrift' = adrift \cup {r}
  /\ UNCHANGED <<cache, locals, thread, jdbcCtx, lock, ran, threw>>

(* No event in time, or no lock to wait on: the connection is left as it is. *)
TaskTimesUp(r) ==
  /\ task[r] \in {"started", "waiting"}
  /\ task' = [task EXCEPT ![r] = "over"]
  /\ adrift' = adrift \cup {r}
  /\ UNCHANGED <<cache, locals, thread, jdbcCtx, lock, ran, threw>>

IdCache == GrowsOld \/ \E f \in Fetchers : Ask(f) \/ IdArrives(f) \/ NoId(f)

Steps(t) ==
  \/ CreateAnswered(t) \/ BusinessEnds(t) \/ PlainEnds(t)
  \/ NotifyAnswered(t) \/ JoinAnswered(t)

Thread(t) ==
  \/ \E r \in Requests : Serve(t, r)
  \/ CreateFails(t) \/ Connect(t) \/ Keep(t)
  \/ NotifyTimedOut(t) \/ JoinTimedOut(t) \/ RequestThrows(t)

Task(r) == TaskWaits(r) \/ TaskTimesUp(r)

Next ==
  \/ IdCache
  \/ \E t \in Threads : Steps(t) \/ Thread(t)
  \/ \E r \in Requests : Task(r)
  \/ \E g \in Groups : CommitEvent(g)

(* Threads run, waits are timed, and a TM answers a notify in the end.     *)
Fairness ==
  /\ \A t \in Threads : WF_vars(Steps(t)) /\ WF_vars(CreateFails(t))
  /\ \A r \in Requests : WF_vars(Task(r))

Spec == Init /\ [][Next]_vars /\ Fairness

-----------------------------------------------------------------------------
TypeOK ==
  /\ groupId \in 1..MaxIds \cup {Null} /\ ids \in 0..MaxIds /\ asking \subseteq Fetchers
  /\ info \in [Threads -> Infos \cup {Null}]
  /\ jdbc \in [Threads -> Requests \cup {Null}]
  /\ pc \in [Threads -> {"idle", "creating", "business", "joining", "notifying"}]
  /\ doing \in [Threads -> Requests \cup {Null}] /\ success \in [Threads -> BOOLEAN]
  /\ \A t \in Threads : pc[t] = "idle" <=> doing[t] = Null
  /\ \A t \in Threads : pc[t] \in {"creating", "joining", "notifying"} => info[t] # Null
  /\ held \in [Groups -> Requests \cup {Null}]
  /\ conn \in [Requests -> {"none", "open", "kept", "committed", "rolled back"}]
  /\ task \in [Requests -> {"none", "started", "waiting", "over"}]
  /\ lock \in [Groups -> Requests \cup {Null}]

(* The group r runs under, Null if it has none.                            *)
RanIn(r) == IF ran[r] = Null THEN Null ELSE ran[r].groupId

Served(r) == \A t \in Threads : doing[t] # r

(* A thread goes back to the pool with a TransactionInfo only when the end *)
(* step threw, or when a method without annotation was called with a group *)
(* id: then the request that binds it is one of these.                     *)
LeakHasCause ==
  \A t \in Threads :
    (pc[t] = "idle" /\ info[t] # Null) =>
      \E r \in Requests :
        /\ RanIn(r) = info[t].groupId
        /\ r \in threw \/ (r \notin Annotated /\ Header[r] # Null)

WasKept(r) == conn[r] \in {"kept", "committed", "rolled back"}

(* A connection that JdbcContext was given stays open with nobody left to  *)
(* end it only when the TM was not asked or not waited for long enough,    *)
(* when its method was not annotated and found what an earlier request left *)
(* on the thread, or when that of another request under its group id took   *)
(* its place.  (One that JdbcContext was never given always stays open.)   *)
AbandonedHasCause ==
  \A r \in Requests :
    (conn[r] = "kept" /\ Served(r) /\ task[r] \in {"none", "over"}) =>
      \/ r \in adrift \/ r \notin Annotated
      \/ \E q \in Requests \ {r} : WasKept(q) /\ RanIn(q) = RanIn(r)

(* Every request leaves its thread, and every joiner's task ends, when a   *)
(* TM answers what is asked again.                                         *)
RequestsEnd ==
  /\ \A t \in Threads : pc[t] # "idle" ~> pc[t] = "idle"
  /\ \A r \in Requests : task[r] = "started" ~> task[r] = "over"

(* TransactionAspectContext.java:33 "transactionInfo == null shows that a  *)
(* distributed transaction starts": a request without a header starts one. *)
StartsItsOwn ==
  \A r \in Annotated :
    (ran[r] # Null /\ Header[r] = Null) => ran[r].state = "CREATE"
=============================================================================
