------------------------- MODULE AspectThreadProofs -------------------------
(***************************************************************************)
(* Proofs about AspectThread for any number of threads, requests and ids:  *)
(* what leaks on a pooled thread has a cause, and so has every connection  *)
(* that is left open.                                                      *)
(***************************************************************************)
EXTENDS AspectThread, FiniteSetTheorems, TLAPS

LEMMA GroupFacts ==
  /\ Null \notin Groups /\ Null \notin Requests /\ Null \notin Infos /\ Null # Alone
  /\ Alone \notin Infos /\ 1..MaxIds \subseteq Groups
  /\ \A r \in Requests : Header[r] = Null \/ Header[r] \in Groups
BY AspectThreadAssumption, NullAssumption DEF Groups, Infos, Alone, States

InGroup(r, g) == ran[r] \in Infos /\ ran[r].groupId = g

Types ==
  /\ TypeOK
  /\ IsFiniteSet(asking) /\ ids + Cardinality(asking) <= MaxIds
  /\ ran \in [Requests -> Infos \cup {Null, Alone}]

(* Somebody in the group left the thread by an exception, or was called     *)
(* with the group's id without being annotated.                             *)
Caused(g) ==
  \E r \in Requests : InGroup(r, g) /\ (r \in threw \/ (r \notin Annotated /\ Header[r] # Null))

IdleOK(t) == info[t] # Null => Caused(info[t].groupId)

BusyOK(t) ==
  LET r == doing[t]
  IN  /\ ran[r] # Null /\ task[r] = "none"
      /\ \A u \in Threads \ {t} : doing[u] # r
      /\ r \in Annotated => info[t] # Null
      /\ pc[t] # "business" => r \in Annotated
      /\ info[t] # Null => /\ InGroup(r, info[t].groupId)
                           /\ r \notin Annotated => Caused(info[t].groupId)
      /\ conn[r] # "none" => jdbc[t] # Null /\ info[t] # Null

ThreadOK(t) == IF pc[t] = "idle" THEN IdleOK(t) ELSE BusyOK(t)

(* Only a request that runs in a transaction has a connection or a task.    *)
RanFirst == \A r \in Requests : conn[r] # "none" \/ task[r] # "none" => ran[r] \in Infos

ThreadInv == Types /\ RanFirst /\ \A t \in Threads : ThreadOK(t)

(* A connection is kept under its request's group, by it or by another one. *)
KeptOK ==
  /\ \A g \in Groups : /\ held[g] # Null => WasKept(held[g]) /\ InGroup(held[g], g)
                       /\ lock[g] # Null => InGroup(lock[g], g)
  /\ \A r \in Requests : WasKept(r) => RanIn(r) # Null /\ held[RanIn(r)] # Null

KeptInv == KeptOK /\ AbandonedHasCause

-----------------------------------------------------------------------------
(* What leaks on a thread *)

LEMMA ThreadInit == Init => ThreadInv
<1> SUFFICES ASSUME Init PROVE ThreadInv
  OBVIOUS
<1>1. IsFiniteSet(asking) /\ ids + Cardinality(asking) <= MaxIds
  BY FS_EmptySet, AspectThreadAssumption DEF Init
<1>2. TypeOK
  BY AspectThreadAssumption DEF Init, TypeOK
<1> QED  BY <1>1, <1>2 DEF Init, ThreadInv, Types, RanFirst, ThreadOK, IdleOK

LEMMA CausedStays ==
  ASSUME \A r \in Requests : ran[r] # Null => ran'[r] = ran[r], threw \subseteq threw',
         NEW g, Caused(g)
  PROVE  Caused(g)'
BY GroupFacts DEF Caused, InGroup

(* A thread that takes no part in a step.                                   *)
LEMMA OtherThread ==
  ASSUME ThreadInv, NEW u \in Threads,
         pc'[u] = pc[u], doing'[u] = doing[u], info'[u] = info[u], jdbc'[u] = jdbc[u],
         \A r \in Requests : ran[r] # Null => ran'[r] = ran[r], threw \subseteq threw',
         pc[u] # "idle" => /\ task[doing[u]] = "none" => task'[doing[u]] = "none"
                           /\ conn[doing[u]] = "none" => conn'[doing[u]] = "none"
                           /\ \A v \in Threads \ {u} : doing'[v] # doing[u]
  PROVE  ThreadOK(u)'
<1>1. ThreadOK(u) /\ doing[u] \in Requests \cup {Null} /\ (pc[u] = "idle" <=> doing[u] = Null)
  BY DEF ThreadInv, Types, TypeOK
<1>2. CASE pc[u] = "idle"
  BY <1>1, <1>2, CausedStays DEF ThreadOK, IdleOK
<1>3. CASE pc[u] # "idle"
  <2>1. doing[u] \in Requests /\ BusyOK(u) /\ ran'[doing[u]] = ran[doing[u]]
    BY <1>1, <1>3 DEF ThreadOK, BusyOK
  <2>2. ASSUME info[u] # Null, doing[u] \notin Annotated PROVE Caused(info[u].groupId)'
    BY <2>1, <2>2, CausedStays DEF BusyOK
  <2> QED  BY <1>3, <2>1, <2>2 DEF ThreadOK, BusyOK, InGroup
<1> QED  BY <1>2, <1>3

(* The id cache and the executor leave all threads alone.                   *)
LEMMA CacheStep == ThreadInv /\ IdCache => ThreadInv'
<1> SUFFICES ASSUME ThreadInv, IdCache PROVE ThreadInv'
  OBVIOUS
<1>1. UNCHANGED <<info, jdbc, pc, doing, success, held, conn, task, lock, adrift, ran, threw>>
  BY DEF IdCache, GrowsOld, Ask, IdArrives, NoId, locals, thread, jdbcCtx, tasks
<1> DEFINE CacheOK == /\ groupId' \in 1..MaxIds \cup {Null} /\ ids' \in 0..MaxIds
                      /\ asking' \subseteq Fetchers
                      /\ IsFiniteSet(asking') /\ ids' + Cardinality(asking') <= MaxIds
<1>2. CacheOK
  <2>1. /\ groupId \in 1..MaxIds \cup {Null} /\ ids \in 0..MaxIds /\ asking \subseteq Fetchers
        /\ IsFiniteSet(asking) /\ ids + Cardinality(asking) <= MaxIds /\ Cardinality(asking) \in Nat
        /\ MaxIds \in Nat
    BY AspectThreadAssumption, FS_CardinalityType DEF ThreadInv, Types, TypeOK
  <2>2. CASE GrowsOld
    BY <2>1, <2>2 DEF GrowsOld
  <2>3. ASSUME NEW f \in Fetchers, Ask(f) PROVE CacheOK
    <3>1. /\ f \notin asking /\ ids + Cardinality(asking) < MaxIds
          /\ asking' = asking \cup {f} /\ UNCHANGED <<groupId, ids>>
      BY <2>3 DEF Ask
    <3>2. IsFiniteSet(asking \cup {f}) /\ Cardinality(asking \cup {f}) = Cardinality(asking) + 1
      BY <2>1, <3>1, FS_AddElement
    <3>3. IsFiniteSet(asking') /\ Cardinality(asking') = Cardinality(asking) + 1
      BY <3>1, <3>2
    <3>4. asking' \subseteq Fetchers
      BY <2>1, <3>1
    <3>5. groupId' \in 1..MaxIds \cup {Null} /\ ids' \in 0..MaxIds
      BY <2>1, <3>1
    <3>6. ids' + Cardinality(asking') <= MaxIds
      <4>1. ids \in Nat /\ ids' = ids
        BY <2>1, <3>1
      <4> QED  BY <2>1, <3>1, <3>3, <4>1
    <3> QED  BY <3>3, <3>4, <3>5, <3>6
  <2>4. ASSUME NEW f \in Fetchers, IdArrives(f) \/ NoId(f) PROVE CacheOK
    <3>1. /\ f \in asking /\ asking' = asking \ {f}
          /\ UNCHANGED <<groupId, ids>> \/ (ids' = ids + 1 /\ groupId' = ids + 1)
      BY <2>4 DEF IdArrives, NoId
    <3>2. IsFiniteSet(asking \ {f}) /\ Cardinality(asking \ {f}) = Cardinality(asking) - 1
      BY <2>1, <3>1, FS_RemoveElement
    <3>3. Cardinality(asking') \in Nat /\ Cardinality(asking') = Cardinality(asking) - 1
      BY <3>1, <3>2, FS_CardinalityType
    <3>4. ids' \in 0..MaxIds /\ ids' + Cardinality(asking') <= MaxIds
      <4>1. ids \in Nat /\ (ids' = ids \/ ids' = ids + 1)
        BY <2>1, <3>1
      <4> QED  BY <2>1, <3>3, <4>1
    <3>5. groupId' \in 1..MaxIds \cup {Null}
      BY <2>1, <3>1, <3>4
    <3> QED  BY <2>1, <3>1, <3>2, <3>4, <3>5
  <2> QED  BY <2>2, <2>3, <2>4 DEF IdCache
<1>3. Types'
  BY <1>1, <1>2 DEF ThreadInv, Types, TypeOK
<1>4. ASSUME NEW u \in Threads PROVE ThreadOK(u)'
  <2>1. pc[u] # "idle" => \A v \in Threads \ {u} : doing'[v] # doing[u]
    BY <1>1 DEF ThreadInv, ThreadOK, BusyOK
  <2> QED  BY <1>1, <2>1, OtherThread
<1>5. RanFirst'
  BY <1>1 DEF ThreadInv, RanFirst
<1> QED  BY <1>3, <1>4, <1>5 DEF ThreadInv

LEMMA TasksStep ==
  ASSUME ThreadInv,
         \/ \E r \in Requests : TaskWaits(r) \/ TaskTimesUp(r)
         \/ \E g \in Groups : CommitEvent(g)
  PROVE  ThreadInv'
<1> USE DEF cache, locals, thread, jdbcCtx, tasks
<1>1. UNCHANGED <<groupId, ids, asking, info, jdbc, pc, doing, success, held, ran, threw>>
  BY DEF TaskWaits, TaskTimesUp, CommitEvent, EndConnection
<1> DEFINE TasksOK ==
      /\ task' \in [Requests -> {"none", "started", "waiting", "over"}]
      /\ lock' \in [Groups -> Requests \cup {Null}]
      /\ conn' \in [Requests -> {"none", "open", "kept", "committed", "rolled back"}]
      /\ \A r \in Requests : /\ task[r] = "none" => task'[r] = "none"
                             /\ conn[r] = "none" => conn'[r] = "none"
<1>2. TasksOK
  <2>1. /\ task \in [Requests -> {"none", "started", "waiting", "over"}]
        /\ lock \in [Groups -> Requests \cup {Null}] /\ held \in [Groups -> Requests \cup {Null}]
        /\ conn \in [Requests -> {"none", "open", "kept", "committed", "rolled back"}]
    BY DEF ThreadInv, Types, TypeOK
  <2>2. ASSUME NEW r \in Requests, TaskWaits(r) PROVE TasksOK
    BY <2>1, <2>2 DEF TaskWaits
  <2>3. ASSUME NEW r \in Requests, TaskTimesUp(r) PROVE TasksOK
    BY <2>1, <2>3 DEF TaskTimesUp
  <2>4. ASSUME NEW g \in Groups, CommitEvent(g) PROVE TasksOK
    <3>1. /\ lock[g] \in Requests /\ lock' = [lock EXCEPT ![g] = Null]
          /\ task' = task \/ (task[lock[g]] = "waiting" /\ task' = [task EXCEPT ![lock[g]] = "over"])
      BY <2>1, <2>4 DEF CommitEvent
    <3>2. conn' = conn \/ \E how \in {"committed", "rolled back"} :
             conn' = [conn EXCEPT ![held[g]] = IF conn[held[g]] = "kept" THEN how ELSE conn[held[g]]]
      <4>1. conn' = conn \/ \E commit \in BOOLEAN : EndConnection(g, commit)
        BY <2>4 DEF CommitEvent
      <4> QED  BY <4>1 DEF EndConnection
    <3>3. CASE conn' = conn
      BY <2>1, <3>1, <3>3
    <3>4. ASSUME NEW how \in {"committed", "rolled back"},
                 conn' = [conn EXCEPT ![held[g]] = IF conn[held[g]] = "kept" THEN how ELSE conn[held[g]]]
          PROVE  TasksOK
      BY <2>1, <3>1, <3>4
    <3> QED  BY <3>2, <3>3, <3>4
  <2> QED  BY <2>2, <2>3, <2>4
<1>3. Types'
  BY <1>1, <1>2 DEF ThreadInv, Types, TypeOK
<1>4. ASSUME NEW u \in Threads PROVE ThreadOK(u)'
  <2>1. pc[u] # "idle" => doing[u] \in Requests /\ \A v \in Threads \ {u} : doing'[v] # doing[u]
    <3>1. ASSUME pc[u] # "idle" PROVE doing[u] \in Requests /\ BusyOK(u)
      BY <3>1, GroupFacts DEF ThreadInv, ThreadOK, Types, TypeOK
    <3> QED  BY <1>1, <3>1 DEF BusyOK
  <2> QED  BY <1>1, <1>2, <2>1, OtherThread
<1>5. RanFirst'
  BY <1>1, <1>2 DEF ThreadInv, RanFirst
<1> QED  BY <1>3, <1>4, <1>5 DEF ThreadInv

LEMMA ServeStep ==
  ASSUME ThreadInv, NEW t \in Threads, NEW r \in Requests, Serve(t, r)
  PROVE  ThreadInv'
<1>i. PICK i : i = Taken(t, r)
  OBVIOUS
<1>1. /\ pc[t] = "idle" /\ ran[r] = Null
      /\ info' = [info EXCEPT ![t] = i] /\ ran' = [ran EXCEPT ![r] = IF i = Null THEN Alone ELSE i]
      /\ doing' = [doing EXCEPT ![t] = r]
      /\ pc' = [pc EXCEPT ![t] = IF r \in Annotated /\ i.state = "CREATE" THEN "creating" ELSE "business"]
      /\ UNCHANGED <<groupId, ids, asking, jdbc, success, held, conn, task, lock, adrift, threw>>
  BY <1>i DEF Serve, Goto, cache, jdbcCtx, tasks
<1>2. /\ info \in [Threads -> Infos \cup {Null}] /\ ran \in [Requests -> Infos \cup {Null, Alone}]
      /\ groupId \in Groups \cup {Null}
      /\ pc \in [Threads -> {"idle", "creating", "business", "joining", "notifying"}]
      /\ doing \in [Threads -> Requests \cup {Null}]
      /\ \A u \in Threads : pc[u] = "idle" <=> doing[u] = Null
      /\ \A u \in Threads : pc[u] \in {"creating", "joining", "notifying"} => info[u] # Null
  BY GroupFacts DEF ThreadInv, Types, TypeOK
<1>3. /\ i \in Infos \cup {Null}
      /\ r \in Annotated => i \in Infos
      /\ r \notin Annotated /\ i # Null => i = info[t] \/ (Header[r] # Null /\ i.groupId = Header[r])
  <2>1. Header[r] # Null => [groupId |-> Header[r], state |-> "JOIN", typed |-> FALSE] \in Infos
    BY GroupFacts DEF Infos, States
  <2>2. [groupId |-> groupId, state |-> "CREATE", typed |-> TRUE] \in Infos
    BY <1>2 DEF Infos, States
  <2>3. Traced(t, r) \in Infos \cup {Null}
    BY <1>2, <2>1 DEF Traced
  <2>4. ASSUME NEW x \in Infos PROVE [x EXCEPT !.typed = TRUE] \in Infos
    BY DEF Infos
  <2>5. r \in Annotated => i \in Infos
    BY <1>i, <2>2, <2>3, <2>4 DEF Taken
  <2>6. r \notin Annotated => i = Traced(t, r)
    BY <1>i DEF Taken
  <2>7. Traced(t, r) = info[t] \/ (Header[r] # Null /\ Traced(t, r).groupId = Header[r])
    BY DEF Traced
  <2> QED  BY <2>3, <2>5, <2>6, <2>7
<1>4. Types'
  <2>1. info' \in [Threads -> Infos \cup {Null}] /\ ran' \in [Requests -> Infos \cup {Null, Alone}]
        /\ doing' \in [Threads -> Requests \cup {Null}]
    BY <1>1, <1>2, <1>3
  <2>2. pc' \in [Threads -> {"idle", "creating", "business", "joining", "notifying"}]
    BY <1>1, <1>2
  <2>3. \A u \in Threads : pc'[u] = "idle" <=> doing'[u] = Null
    BY <1>1, <1>2, GroupFacts
  <2>4. \A u \in Threads : pc'[u] \in {"creating", "joining", "notifying"} => info'[u] # Null
    BY <1>1, <1>2, <1>3, GroupFacts
  <2> QED  BY <1>1, <2>1, <2>2, <2>3, <2>4 DEF ThreadInv, Types, TypeOK
<1>5. ASSUME NEW u \in Threads, pc[u] # "idle" PROVE doing[u] # r /\ BusyOK(u)
  BY <1>1, <1>5 DEF ThreadInv, ThreadOK, BusyOK
<1>6. ASSUME NEW u \in Threads \ {t} PROVE ThreadOK(u)'
  <2>1. pc'[u] = pc[u] /\ doing'[u] = doing[u] /\ info'[u] = info[u]
    BY <1>1, <1>2, <1>6
  <2>2. pc[u] # "idle" => \A v \in Threads \ {u} : doing'[v] # doing[u]
    BY <1>1, <1>2, <1>5 DEF BusyOK
  <2>3. \A q \in Requests : ran[q] # Null => ran'[q] = ran[q]
    BY <1>1, <1>2
  <2> QED  BY <1>1, <2>1, <2>2, <2>3, OtherThread
<1>7. ThreadOK(t)'
  <2>1. pc'[t] # "idle" /\ doing'[t] = r /\ info'[t] = i /\ (pc'[t] # "business" => r \in Annotated)
        /\ ran'[r] = IF i = Null THEN Alone ELSE i
    BY <1>1, <1>2
  <2>2. task'[r] = "none" /\ conn'[r] = "none"
    BY <1>1, GroupFacts DEF ThreadInv, RanFirst
  <2>3. ran'[r] # Null /\ (r \in Annotated => i # Null)
    BY <1>3, <2>1, GroupFacts
  <2>4. ASSUME NEW v \in Threads \ {t} PROVE doing'[v] # r
    BY <1>1, <1>2, <1>5, <2>4, GroupFacts
  <2>5. i # Null => InGroup(r, i.groupId)'
    BY <1>3, <2>1 DEF InGroup
  <2>6. ASSUME r \notin Annotated, i # Null PROVE Caused(i.groupId)'
    <3>1. CASE i = info[t]
      <4>1. Caused(i.groupId)
        BY <1>1, <2>6, <3>1 DEF ThreadInv, ThreadOK, IdleOK
      <4>2. \A q \in Requests : ran[q] # Null => ran'[q] = ran[q]
        BY <1>1, <1>2
      <4> QED  BY <1>1, <4>1, <4>2, CausedStays
    <3>2. CASE Header[r] # Null /\ i.groupId = Header[r]
      BY <2>5, <2>6, <3>2 DEF Caused, InGroup
    <3> QED  BY <1>3, <2>6, <3>1, <3>2
  <2> QED  BY <2>1, <2>2, <2>3, <2>4, <2>5, <2>6 DEF ThreadOK, BusyOK, InGroup, Caused
<1>8. RanFirst'
  BY <1>1, <1>2, GroupFacts DEF ThreadInv, RanFirst
<1> QED  BY <1>4, <1>6, <1>7, <1>8 DEF ThreadInv

LEMMA EndFacts ==
  ASSUME TypeOK, NEW g \in Groups, NEW commit \in BOOLEAN, EndConnection(g, commit)
  PROVE  /\ conn' \in [Requests -> {"none", "open", "kept", "committed", "rolled back"}]
         /\ held' = held
         /\ \A r \in Requests : /\ conn'[r] = "kept" => conn[r] = "kept"
                                /\ conn'[r] = "none" <=> conn[r] = "none"
                                /\ WasKept(r)' <=> WasKept(r)
                                /\ r = held[g] => conn'[r] # "kept"
                                /\ r # held[g] => conn'[r] = conn[r]
<1>1. PICK how \in {"committed", "rolled back"} :
        conn' = [conn EXCEPT ![held[g]] = IF conn[held[g]] = "kept" THEN how ELSE conn[held[g]]]
  BY DEF EndConnection
<1> QED  BY <1>1 DEF TypeOK, EndConnection, WasKept

(* A step that thread t takes with its request.                             *)
LEMMA ThreadStep ==
  ASSUME ThreadInv, NEW t \in Threads, pc[t] # "idle",
         \A u \in Threads \ {t} : /\ pc'[u] = pc[u] /\ doing'[u] = doing[u]
                                  /\ info'[u] = info[u] /\ jdbc'[u] = jdbc[u],
         doing'[t] \in {doing[t], Null},
         ran' = ran, threw \subseteq threw',
         \A q \in Requests \ {doing[t]} : /\ task'[q] = task[q]
                                          /\ conn[q] = "none" => conn'[q] = "none",
         Types', RanFirst', ThreadOK(t)'
  PROVE  ThreadInv'
<1>1. BusyOK(t) /\ ran' = ran /\ (\A u \in Threads : pc[u] = "idle" <=> doing[u] = Null)
      /\ doing \in [Threads -> Requests \cup {Null}]
  BY DEF ThreadInv, ThreadOK, Types, TypeOK
<1>2. ASSUME NEW u \in Threads \ {t} PROVE ThreadOK(u)'
  <2>1. ASSUME pc[u] # "idle"
        PROVE  /\ doing[u] \in Requests \ {doing[t]} /\ task[doing[u]] = "none"
               /\ \A v \in Threads \ {u} : doing'[v] # doing[u]
    <3>1. BusyOK(u) /\ doing[u] \in Requests
      BY <1>1, <2>1 DEF ThreadInv, ThreadOK
    <3> QED  BY <1>1, <3>1, GroupFacts DEF BusyOK
  <2> QED  BY <1>1, <2>1, OtherThread
<1> QED  BY <1>2 DEF ThreadInv

(* What is known of a busy thread.                                          *)
LEMMA BusyFacts ==
  ASSUME ThreadInv, NEW t \in Threads, pc[t] # "idle"
  PROVE  /\ doing[t] \in Requests /\ BusyOK(t) /\ ran[doing[t]] # Null
         /\ doing[t] \in Annotated \/ pc[t] # "business" =>
              /\ info[t] \in Infos /\ InGroup(doing[t], info[t].groupId)
              /\ info[t].groupId \in Groups \cup {Null}
<1>1. doing[t] \in Requests /\ BusyOK(t) /\ info[t] \in Infos \cup {Null}
  BY GroupFacts DEF ThreadInv, ThreadOK, Types, TypeOK
<1> QED  BY <1>1 DEF BusyOK, Infos

LEMMA CreateAnsweredStep ==
  ASSUME ThreadInv, NEW t \in Threads, CreateAnswered(t)
  PROVE  ThreadInv'
<1>1. /\ pc[t] = "creating" /\ pc' = [pc EXCEPT ![t] = "business"]
      /\ UNCHANGED <<groupId, ids, asking, info, jdbc, doing, success, held, conn,
                     task, lock, adrift, ran, threw>>
  BY DEF CreateAnswered, Goto, cache, locals, jdbcCtx, tasks
<1>2. pc' \in [Threads -> {"idle", "creating", "business", "joining", "notifying"}]
      /\ pc'[t] = "business" /\ \A u \in Threads \ {t} : pc'[u] = pc[u]
  BY <1>1 DEF ThreadInv, Types, TypeOK
<1>3. BusyOK(t) /\ RanFirst'
  BY <1>1, BusyFacts DEF ThreadInv, RanFirst
<1>4. Types'
  <2>1. \A u \in Threads : pc'[u] = "idle" <=> pc[u] = "idle"
    BY <1>1, <1>2
  <2>2. \A u \in Threads : pc'[u] \in {"creating", "joining", "notifying"} => pc[u] = pc'[u]
    BY <1>1, <1>2
  <2> QED  BY <1>1, <1>2, <2>1, <2>2 DEF ThreadInv, Types, TypeOK
<1>5. ThreadOK(t)'
  BY <1>1, <1>2, <1>3 DEF ThreadOK, BusyOK, InGroup, Caused
<1> QED  BY <1>1, <1>2, <1>3, <1>4, <1>5, ThreadStep

LEMMA ToEndStep ==
  ASSUME ThreadInv, NEW t \in Threads, CreateFails(t) \/ BusinessEnds(t)
  PROVE  ThreadInv'
<1>1. PICK ok \in BOOLEAN : ToEnd(t, ok)
  BY DEF CreateFails, BusinessEnds
<1>2. /\ pc[t] # "idle" /\ (doing[t] \in Annotated \/ pc[t] # "business")
      /\ UNCHANGED <<groupId, ids, asking, jdbc, doing, held, conn, task, lock, adrift, ran, threw>>
  BY DEF CreateFails, BusinessEnds, cache, jdbcCtx, tasks
<1>3. /\ doing[t] \in Requests /\ BusyOK(t) /\ doing[t] \in Annotated
      /\ info[t] \in Infos /\ InGroup(doing[t], info[t].groupId)
  <2>1. doing[t] \in Requests /\ BusyOK(t)
    BY <1>2, BusyFacts
  <2> QED  BY <1>2, <2>1, BusyFacts DEF BusyOK
<1>4. /\ info \in [Threads -> Infos \cup {Null}] /\ success \in [Threads -> BOOLEAN]
      /\ pc \in [Threads -> {"idle", "creating", "business", "joining", "notifying"}]
  BY DEF ThreadInv, Types, TypeOK
<1>5. /\ pc' \in [Threads -> {"idle", "creating", "business", "joining", "notifying"}]
      /\ pc'[t] \in {"joining", "notifying"} /\ \A u \in Threads \ {t} : pc'[u] = pc[u]
  BY <1>1, <1>4 DEF ToEnd, Goto
<1>6. /\ info' \in [Threads -> Infos \cup {Null}] /\ \A u \in Threads \ {t} : info'[u] = info[u]
      /\ info'[t] \in Infos /\ info'[t].groupId = info[t].groupId
  BY <1>1, <1>3, <1>4 DEF ToEnd, Infos, States
<1>7. success' \in [Threads -> BOOLEAN]
  BY <1>1, <1>4 DEF ToEnd
<1>8. Types'
  <2>1. \A u \in Threads : pc'[u] = "idle" <=> pc[u] = "idle"
    BY <1>2, <1>5
  <2>2. \A u \in Threads : pc'[u] \in {"creating", "joining", "notifying"} => info'[u] # Null
    <3>1. info'[t] # Null
      BY <1>6, GroupFacts
    <3>2. \A u \in Threads : pc[u] \in {"creating", "joining", "notifying"} => info[u] # Null
      BY DEF ThreadInv, Types, TypeOK
    <3> QED  BY <1>5, <1>6, <3>1, <3>2
  <2> QED  BY <1>2, <1>5, <1>6, <1>7, <2>1, <2>2 DEF ThreadInv, Types, TypeOK
<1>9. ThreadOK(t)'
  <2>1. BusyOK(t)'
    BY <1>2, <1>3, <1>5, <1>6, GroupFacts DEF BusyOK, InGroup
  <2> QED  BY <1>5, <2>1 DEF ThreadOK
<1>10. RanFirst'
  BY <1>2 DEF ThreadInv, RanFirst
<1> QED  BY <1>2, <1>5, <1>6, <1>8, <1>9, <1>10, ThreadStep

LEMMA ConnectStep ==
  ASSUME ThreadInv, NEW t \in Threads, Connect(t)
  PROVE  ThreadInv'
<1>1. /\ pc[t] = "business" /\ info[t] # Null
      /\ jdbc' = [jdbc EXCEPT ![t] = doing[t]] /\ conn' = [conn EXCEPT ![doing[t]] = "open"]
      /\ UNCHANGED <<groupId, ids, asking, info, pc, doing, success, held, task, lock, adrift, ran, threw>>
  BY DEF Connect, cache, thread, tasks
<1>2. doing[t] \in Requests /\ BusyOK(t) /\ InGroup(doing[t], info[t].groupId)
  <2>1. doing[t] \in Requests /\ BusyOK(t)
    BY <1>1, BusyFacts
  <2> QED  BY <1>1, <2>1 DEF BusyOK
<1>3. /\ jdbc' \in [Threads -> Requests \cup {Null}] /\ jdbc'[t] = doing[t]
      /\ \A u \in Threads \ {t} : jdbc'[u] = jdbc[u]
      /\ conn' \in [Requests -> {"none", "open", "kept", "committed", "rolled back"}]
      /\ \A q \in Requests \ {doing[t]} : conn'[q] = conn[q]
  BY <1>1, <1>2 DEF ThreadInv, Types, TypeOK
<1>4. Types'
  BY <1>1, <1>3 DEF ThreadInv, Types, TypeOK
<1>5. ThreadOK(t)'
  <2>1. BusyOK(t)'
    BY <1>1, <1>2, <1>3, GroupFacts DEF BusyOK, InGroup, Caused
  <2> QED  BY <1>1, <2>1 DEF ThreadOK
<1>6. RanFirst'
  BY <1>1, <1>2, <1>3 DEF ThreadInv, RanFirst, InGroup
<1> QED  BY <1>1, <1>3, <1>4, <1>5, <1>6, ThreadStep

(* What Keep finds: its request's connection, and a group.                  *)
LEMMA KeepFacts ==
  ASSUME ThreadInv, NEW t \in Threads, Keep(t)
  PROVE  /\ doing[t] \in Requests /\ BusyOK(t) /\ InGroup(doing[t], info[t].groupId)
         /\ info[t] # Null /\ info[t].groupId \in Groups
<1>1. pc[t] = "business" /\ conn[doing[t]] = "open" /\ info[t].groupId # Null
  BY DEF Keep, GroupOf
<1>2. doing[t] \in Requests /\ BusyOK(t) /\ info[t] \in Infos \cup {Null}
  BY <1>1, BusyFacts DEF ThreadInv, Types, TypeOK
<1> QED  BY <1>1, <1>2 DEF BusyOK, Infos

LEMMA KeepStep ==
  ASSUME ThreadInv, NEW t \in Threads, Keep(t)
  PROVE  ThreadInv'
<1>1. /\ pc[t] = "business" /\ conn[doing[t]] = "open"
      /\ conn' = [conn EXCEPT ![doing[t]] = "kept"]
      /\ held' = [held EXCEPT ![info[t].groupId] = doing[t]]
      /\ UNCHANGED <<groupId, ids, asking, info, jdbc, pc, doing, success, task, lock, adrift, ran, threw>>
  BY DEF Keep, GroupOf, cache, locals, thread, tasks
<1>2. /\ conn' \in [Requests -> {"none", "open", "kept", "committed", "rolled back"}]
      /\ \A q \in Requests : conn[q] = "none" => conn'[q] = "none"
      /\ held' \in [Groups -> Requests \cup {Null}]
  BY <1>1, KeepFacts DEF ThreadInv, Types, TypeOK
<1>3. Types'
  BY <1>1, <1>2 DEF ThreadInv, Types, TypeOK
<1>4. ThreadOK(t)'
  <2>1. BusyOK(t)'
    BY <1>1, <1>2, KeepFacts DEF BusyOK, InGroup, Caused
  <2> QED  BY <1>1, <2>1 DEF ThreadOK
<1>5. RanFirst'
  BY <1>1, <1>2, KeepFacts DEF ThreadInv, RanFirst
<1> QED  BY <1>1, <1>2, <1>3, <1>4, <1>5, ThreadStep

(* A thread goes back to the pool.                                          *)
LEMMA LeaveStep ==
  ASSUME ThreadInv, NEW t \in Threads, pc[t] # "idle", Leave(t),
         UNCHANGED <<groupId, ids, asking, success, held, lock, ran>>, threw \subseteq threw',
         info' = [info EXCEPT ![t] = Null] \/ (info' = info /\ (info[t] # Null => Caused(info[t].groupId)')),
         jdbc' = [jdbc EXCEPT ![t] = Null] \/ jdbc' = jdbc,
         task' = task \/ (info[t] # Null /\ task' = [task EXCEPT ![doing[t]] = "started"]),
         conn' \in [Requests -> {"none", "open", "kept", "committed", "rolled back"}],
         \A r \in Requests : conn'[r] = "none" <=> conn[r] = "none"
  PROVE  ThreadInv'
<1>1. doing[t] \in Requests /\ BusyOK(t)
  BY BusyFacts
<1>2. /\ pc \in [Threads -> {"idle", "creating", "business", "joining", "notifying"}]
      /\ doing \in [Threads -> Requests \cup {Null}] /\ info \in [Threads -> Infos \cup {Null}]
      /\ jdbc \in [Threads -> Requests \cup {Null}]
      /\ task \in [Requests -> {"none", "started", "waiting", "over"}]
      /\ \A u \in Threads : pc[u] = "idle" <=> doing[u] = Null
      /\ \A u \in Threads : pc[u] \in {"creating", "joining", "notifying"} => info[u] # Null
  BY DEF ThreadInv, Types, TypeOK
<1>3. /\ pc' = [pc EXCEPT ![t] = "idle"] /\ doing' = [doing EXCEPT ![t] = Null]
  BY DEF Leave, Goto
<1>4. /\ pc' \in [Threads -> {"idle", "creating", "business", "joining", "notifying"}]
      /\ doing' \in [Threads -> Requests \cup {Null}] /\ info' \in [Threads -> Infos \cup {Null}]
      /\ jdbc' \in [Threads -> Requests \cup {Null}]
      /\ task' \in [Requests -> {"none", "started", "waiting", "over"}]
  BY <1>1, <1>2, <1>3
<1>5. /\ pc'[t] = "idle" /\ doing'[t] = Null
      /\ \A u \in Threads \ {t} : pc'[u] = pc[u] /\ doing'[u] = doing[u] /\ info'[u] = info[u]
                                  /\ jdbc'[u] = jdbc[u]
      /\ \A q \in Requests \ {doing[t]} : task'[q] = task[q]
  BY <1>2, <1>3
<1>6. Types'
  <2>1. ASSUME NEW u \in Threads
        PROVE  /\ pc'[u] = "idle" <=> doing'[u] = Null
               /\ pc'[u] \in {"creating", "joining", "notifying"} => info'[u] # Null
    <3>1. CASE u = t
      BY <1>5, <3>1
    <3>2. CASE u # t
      <4>1. pc'[u] = pc[u] /\ doing'[u] = doing[u] /\ info'[u] = info[u]
        BY <1>5, <3>2
      <4> QED  BY <1>2, <4>1
    <3> QED  BY <3>1, <3>2
  <2>2. /\ \A u \in Threads : pc'[u] = "idle" <=> doing'[u] = Null
        /\ \A u \in Threads : pc'[u] \in {"creating", "joining", "notifying"} => info'[u] # Null
    BY <2>1
  <2> QED  BY <1>4, <2>1, <2>2 DEF ThreadInv, Types, TypeOK
<1>7. ThreadOK(t)'
  <2>1. info'[t] = Null \/ (info'[t] = info[t] /\ (info[t] # Null => Caused(info[t].groupId)'))
    BY <1>2
  <2> QED  BY <1>5, <2>1 DEF ThreadOK, IdleOK, Caused, InGroup
<1>8. RanFirst'
  <2>1. task' # task => ran[doing[t]] \in Infos
    BY <1>1 DEF BusyOK, InGroup
  <2> QED  BY <1>5, <2>1 DEF ThreadInv, RanFirst
<1> QED  BY <1>5, <1>6, <1>7, <1>8, ThreadStep

(* Whoever throws in the end step is a cause of what stays on its thread.   *)
LEMMA ThrowCauses ==
  ASSUME ThreadInv, NEW t \in Threads, pc[t] \in {"joining", "notifying"}, Throw(t), ran' = ran
  PROVE  threw \subseteq threw' /\ Caused(info[t].groupId)'
<1>1. /\ doing[t] \in Requests /\ info[t] \in Infos /\ InGroup(doing[t], info[t].groupId)
  BY BusyFacts
<1>2. threw \subseteq threw' /\ doing[t] \in threw'
  BY DEF Throw
<1> QED  BY <1>1, <1>2 DEF Caused, InGroup, Throw, locals

LEMMA EndStep ==
  ASSUME ThreadInv, NEW t \in Threads,
         \/ NotifyAnswered(t) \/ NotifyTimedOut(t) \/ JoinAnswered(t) \/ JoinTimedOut(t)
         \/ RequestThrows(t) \/ PlainEnds(t)
  PROVE  ThreadInv'
<1> USE DEF cache, locals, thread, jdbcCtx, tasks
<1>t. /\ TypeOK /\ conn \in [Requests -> {"none", "open", "kept", "committed", "rolled back"}]
  BY DEF ThreadInv, Types, TypeOK
<1>1. CASE PlainEnds(t)
  <2>1. pc[t] = "business" /\ doing[t] \notin Annotated /\ Leave(t)
        /\ UNCHANGED <<groupId, ids, asking, info, jdbc, success, held, conn, task, lock, adrift, ran, threw>>
    BY <1>1 DEF PlainEnds
  <2>2. info[t] # Null => Caused(info[t].groupId)
    BY <2>1, BusyFacts DEF BusyOK
  <2>3. info[t] # Null => Caused(info[t].groupId)'
    BY <2>1, <2>2 DEF Caused, InGroup
  <2> QED  BY <1>t, <2>1, <2>3, LeaveStep
<1>2. CASE JoinAnswered(t)
  <2>1. /\ pc[t] = "joining" /\ Leave(t)
        /\ info' = [info EXCEPT ![t] = Null] /\ jdbc' = [jdbc EXCEPT ![t] = Null]
        /\ task' = task \/ task' = [task EXCEPT ![doing[t]] = "started"]
        /\ UNCHANGED <<groupId, ids, asking, success, held, conn, lock, adrift, ran, threw>>
    BY <1>2 DEF JoinAnswered, Clear
  <2>2. info[t] # Null
    BY <2>1 DEF ThreadInv, Types, TypeOK
  <2> QED  BY <1>t, <2>1, <2>2, LeaveStep
<1>3. CASE JoinTimedOut(t)
  <2>1. /\ pc[t] = "joining" /\ Leave(t) /\ Throw(t) /\ UNCHANGED <<info, jdbc>>
        /\ UNCHANGED <<groupId, ids, asking, success, task, lock, adrift, ran>>
    BY <1>3 DEF JoinTimedOut, Throw
  <2>2. threw \subseteq threw' /\ Caused(info[t].groupId)'
    BY <2>1, ThrowCauses
  <2>3. CASE UNCHANGED <<held, conn>>
    BY <1>t, <2>1, <2>2, <2>3, LeaveStep
  <2>4. CASE ~UNCHANGED <<held, conn>>
    <3>1. info[t].groupId \in Groups /\ EndConnection(info[t].groupId, FALSE)
      <4>1. info[t].groupId \in Groups \cup {Null}
        BY <2>1, BusyFacts
      <4> QED  BY <1>3, <2>4, <4>1 DEF JoinTimedOut, GroupOf, HasConnection
    <3>2. /\ held' = held /\ conn' \in [Requests -> {"none", "open", "kept", "committed", "rolled back"}]
          /\ \A r \in Requests : conn'[r] = "none" <=> conn[r] = "none"
      BY <1>t, <3>1, EndFacts
    <3> QED  BY <2>1, <2>2, <3>2, LeaveStep
  <2> QED  BY <2>3, <2>4
<1>4. ASSUME pc[t] = "notifying", NEW commit \in BOOLEAN, NotifyEnds(t, commit) PROVE ThreadInv'
  <2>1. /\ Leave(t) /\ UNCHANGED <<groupId, ids, asking, success, task, lock, adrift, ran>>
    BY <1>4 DEF NotifyEnds
  <2>2. CASE CanEnd(t, commit)
    <3>1. info[t].groupId \in Groups /\ EndConnection(info[t].groupId, commit)
          /\ info' = [info EXCEPT ![t] = Null] /\ jdbc' = [jdbc EXCEPT ![t] = Null]
          /\ threw' = threw
      <4>1. info[t].groupId \in Groups \cup {Null}
        BY <1>4, BusyFacts
      <4> QED  BY <1>4, <2>2, <4>1 DEF NotifyEnds, CanEnd, GroupOf, HasConnection, Clear
    <3>2. /\ held' = held /\ conn' \in [Requests -> {"none", "open", "kept", "committed", "rolled back"}]
          /\ \A r \in Requests : conn'[r] = "none" <=> conn[r] = "none"
      BY <1>t, <3>1, EndFacts
    <3> QED  BY <1>4, <2>1, <3>1, <3>2, LeaveStep
  <2>3. CASE ~CanEnd(t, commit)
    <3>1. Throw(t) /\ UNCHANGED <<held, conn, info, jdbc>>
      BY <1>4, <2>3 DEF NotifyEnds, Throw
    <3>2. threw \subseteq threw' /\ Caused(info[t].groupId)'
      BY <1>4, <2>1, <3>1, ThrowCauses
    <3> QED  BY <1>t, <1>4, <2>1, <3>1, <3>2, LeaveStep
  <2> QED  BY <2>2, <2>3
<1>5. CASE RequestThrows(t)
  <2>1. /\ pc[t] \in {"joining", "notifying"} /\ Leave(t) /\ Throw(t)
        /\ UNCHANGED <<groupId, ids, asking, info, jdbc, success, held, conn, task, lock, ran>>
    BY <1>5 DEF RequestThrows, Throw
  <2>2. threw \subseteq threw' /\ Caused(info[t].groupId)'
    BY <2>1, ThrowCauses
  <2> QED  BY <1>t, <2>1, <2>2, LeaveStep
<1>6. NotifyAnswered(t) \/ NotifyTimedOut(t) =>
        pc[t] = "notifying" /\ \E commit \in BOOLEAN : NotifyEnds(t, commit)
  <2>1. success[t] \in BOOLEAN
    BY <1>t DEF TypeOK
  <2> QED  BY <2>1 DEF NotifyAnswered, NotifyTimedOut
<1> QED  BY <1>1, <1>2, <1>3, <1>4, <1>5, <1>6

LEMMA ThreadNext == ThreadInv /\ [Next]_vars => ThreadInv'
<1> SUFFICES ASSUME ThreadInv, [Next]_vars PROVE ThreadInv'
  OBVIOUS
<1>1. CASE IdCache
  BY <1>1, CacheStep
<1>2. ASSUME NEW t \in Threads, Steps(t) \/ Thread(t) PROVE ThreadInv'
  BY <1>2, ServeStep, CreateAnsweredStep, ToEndStep, ConnectStep, KeepStep, EndStep
     DEF Steps, Thread
<1>3. CASE (\E r \in Requests : Task(r)) \/ (\E g \in Groups : CommitEvent(g))
  BY <1>3, TasksStep DEF Task
<1>4. CASE UNCHANGED vars
  <2>1. UNCHANGED <<groupId, ids, asking, info, jdbc, pc, doing, success, held, conn, task, lock,
                    adrift, ran, threw>>
    BY <1>4 DEF vars, cache, locals, thread, jdbcCtx, tasks
  <2>2. Types' /\ RanFirst'
    BY <2>1 DEF ThreadInv, Types, TypeOK, RanFirst
  <2>3. ASSUME NEW t \in Threads PROVE ThreadOK(t)'
    <3>1. pc[t] # "idle" => \A v \in Threads \ {t} : doing'[v] # doing[t]
      BY <2>1 DEF ThreadInv, ThreadOK, BusyOK
    <3> QED  BY <2>1, <3>1, OtherThread
  <2> QED  BY <2>2, <2>3 DEF ThreadInv
<1> QED  BY <1>1, <1>2, <1>3, <1>4 DEF Next

(* The types, and that a thread in the pool has no request: whichever way  *)
(* ThreadLocal is left, the aspect's steps give the thread back.           *)
THEOREM AspectThreadTypeCorrect == Spec => []TypeOK
<1>1. ThreadInv => TypeOK
  BY DEF ThreadInv, Types
<1> QED  BY <1>1, ThreadInit, ThreadNext, PTL DEF Spec

(* What TransactionContext leaves on a pooled thread was left by a request *)
(* whose end step threw, or bound by the tracer for a method without       *)
(* annotation.                                                             *)
THEOREM LeaksHaveCauses == Spec => []LeakHasCause
<1>1. ThreadInv => LeakHasCause
  <2> SUFFICES ASSUME ThreadInv, NEW t \in Threads, pc[t] = "idle", info[t] # Null
               PROVE  \E r \in Requests : /\ RanIn(r) = info[t].groupId
                                          /\ r \in threw \/ (r \notin Annotated /\ Header[r] # Null)
    BY DEF LeakHasCause
  <2>1. Caused(info[t].groupId)
    BY DEF ThreadInv, ThreadOK, IdleOK
  <2> QED  BY <2>1, GroupFacts DEF Caused, InGroup, RanIn
<1> QED  BY <1>1, ThreadInit, ThreadNext, PTL DEF Spec

-----------------------------------------------------------------------------
(* Connections that are left open *)

Left(r) == Served(r) /\ task[r] \in {"none", "over"}

Excused(r) ==
  \/ r \in adrift \/ r \notin Annotated
  \/ \E q \in Requests \ {r} : WasKept(q) /\ RanIn(q) = RanIn(r)

LEMMA RanFacts ==
  ASSUME ThreadInv, KeptInv, NEW r \in Requests, WasKept(r)
  PROVE  ran[r] \in Infos /\ ran[r] # Null /\ RanIn(r) = ran[r].groupId /\ RanIn(r) \in Groups
<1>1. ran[r] \in Infos
  BY DEF ThreadInv, RanFirst, WasKept
<1>2. RanIn(r) # Null
  BY DEF KeptInv, KeptOK
<1> QED  BY <1>1, <1>2, GroupFacts DEF RanIn, Infos

(* What a step has to respect for the connections to stay accounted for.    *)
LEMMA KeptStep ==
  ASSUME ThreadInv, KeptInv, ThreadInv',
         \A q \in Requests : /\ ran[q] # Null => ran'[q] = ran[q]
                             /\ WasKept(q) => WasKept(q)',
         adrift \subseteq adrift',
         \A g \in Groups :
           \/ held'[g] = held[g]
           \/ /\ held'[g] \in Requests /\ conn'[held'[g]] = "kept"
              /\ ran'[held'[g]] \in Infos /\ ran'[held'[g]].groupId = g,
         \A g \in Groups :
           \/ lock'[g] = lock[g] \/ lock'[g] = Null
           \/ lock'[g] \in Requests /\ ran'[lock'[g]] \in Infos /\ ran'[lock'[g]].groupId = g,
         \A q \in Requests : ~WasKept(q) /\ WasKept(q)' =>
           RanIn(q)' \in Groups /\ held'[RanIn(q)'] \in Requests,
         \A q \in Requests : conn'[q] = "kept" /\ Left(q)' =>
           (conn[q] = "kept" /\ (Left(q) \/ Excused(q))) \/ q \in adrift'
  PROVE  KeptInv'
<1>1. \A q \in Requests : WasKept(q) => /\ ran[q] \in Infos /\ ran'[q] = ran[q] /\ RanIn(q)' = RanIn(q)
                                       /\ RanIn(q) \in Groups
  BY RanFacts DEF RanIn
<1>2. /\ held \in [Groups -> Requests \cup {Null}] /\ lock \in [Groups -> Requests \cup {Null}]
  BY DEF ThreadInv, Types, TypeOK
<1>3. ASSUME NEW g \in Groups
      PROVE  /\ held'[g] # Null => /\ WasKept(held[g])' /\ ran'[held'[g]] \in Infos
                                   /\ ran'[held'[g]].groupId = g
             /\ lock'[g] # Null => ran'[lock'[g]] \in Infos /\ ran'[lock'[g]].groupId = g
             /\ held[g] # Null => held'[g] # Null
  <2>1. held[g] # Null => /\ held[g] \in Requests /\ WasKept(held[g]) /\ ran[held[g]] \in Infos
                          /\ ran[held[g]].groupId = g /\ ran'[held[g]] = ran[held[g]]
    BY <1>1, <1>2 DEF KeptInv, KeptOK, InGroup
  <2>2. lock[g] # Null => /\ lock[g] \in Requests /\ ran[lock[g]] \in Infos
                          /\ ran[lock[g]].groupId = g /\ ran'[lock[g]] = ran[lock[g]]
    BY <1>2, GroupFacts DEF KeptInv, KeptOK, InGroup
  <2>3. held[g] # Null => conn'[held[g]] \in {"kept", "committed", "rolled back"}
    BY <2>1 DEF WasKept
  <2>4. held'[g] # Null => /\ conn'[held'[g]] \in {"kept", "committed", "rolled back"}
                           /\ ran'[held'[g]] \in Infos /\ ran'[held'[g]].groupId = g
    BY <2>1, <2>3
  <2>5. held[g] # Null => held'[g] # Null
    BY GroupFacts
  <2>6. lock'[g] # Null => ran'[lock'[g]] \in Infos /\ ran'[lock'[g]].groupId = g
    BY <2>2
  <2> QED  BY <2>4, <2>5, <2>6 DEF WasKept
<1>4. ASSUME NEW q \in Requests, WasKept(q)'
      PROVE  RanIn(q)' # Null /\ held'[RanIn(q)'] # Null
  <2>1. CASE ~WasKept(q)
    BY <1>4, <2>1, GroupFacts
  <2>2. CASE WasKept(q)
    <3>1. RanIn(q)' = RanIn(q) /\ RanIn(q) \in Groups /\ held[RanIn(q)] # Null
      BY <1>1, <2>2 DEF KeptInv, KeptOK
    <3> QED  BY <1>3, <3>1, GroupFacts
  <2> QED  BY <2>1, <2>2
<1>5. KeptOK'
  BY <1>3, <1>4 DEF KeptOK, InGroup
<1>6. ASSUME NEW r \in Requests, conn'[r] = "kept", Left(r)' PROVE Excused(r)'
  <2>1. CASE r \in adrift'
    BY <2>1 DEF Excused
  <2>2. CASE Excused(r) /\ conn[r] = "kept"
    <3>1. RanIn(r)' = RanIn(r) /\ (r \in adrift => r \in adrift')
      BY <1>1, <2>2 DEF WasKept
    <3>2. ASSUME NEW q \in Requests \ {r}, WasKept(q), RanIn(q) = RanIn(r)
          PROVE  WasKept(q)' /\ RanIn(q)' = RanIn(r)'
      BY <1>1, <3>1, <3>2
    <3> QED  BY <2>2, <3>1, <3>2 DEF Excused
  <2>3. conn[r] = "kept" /\ Left(r) => Excused(r)
    BY DEF KeptInv, AbandonedHasCause, Left, Excused
  <2> QED  BY <1>6, <2>1, <2>2, <2>3
<1>7. AbandonedHasCause'
  BY <1>6 DEF AbandonedHasCause, Left, Excused
<1> QED  BY <1>5, <1>7 DEF KeptInv

LEMMA KeptInit == Init => KeptInv
BY DEF Init, KeptInv, KeptOK, AbandonedHasCause, WasKept

(* Steps that end no connection and give no thread back.                    *)
LEMMA KeptQuietStep ==
  ASSUME ThreadInv, KeptInv, ThreadInv',
         UNCHANGED <<held, conn, task, lock, adrift>>,
         \A q \in Requests : ran[q] # Null => ran'[q] = ran[q],
         \A q \in Requests : Served(q)' => Served(q)
  PROVE  KeptInv'
<1>1. \A q \in Requests : conn'[q] = "kept" /\ Left(q)' => conn[q] = "kept" /\ Left(q)
  BY DEF Left
<1>2. \A q \in Requests : WasKept(q)' <=> WasKept(q)
  BY DEF WasKept
<1> QED  BY <1>1, <1>2, KeptStep, Zenon

LEMMA KeptServeStep ==
  ASSUME ThreadInv, KeptInv, ThreadInv', NEW t \in Threads, NEW r \in Requests, Serve(t, r)
  PROVE  KeptInv'
<1>1. /\ pc[t] = "idle" /\ ran[r] = Null /\ doing' = [doing EXCEPT ![t] = r]
      /\ ran'  = [ran EXCEPT ![r] = IF Taken(t, r) = Null THEN Alone ELSE Taken(t, r)]
      /\ UNCHANGED <<held, conn, task, lock, adrift>>
  BY DEF Serve, jdbcCtx, tasks
<1>2. doing[t] = Null /\ doing \in [Threads -> Requests \cup {Null}]
      /\ ran \in [Requests -> Infos \cup {Null, Alone}]
  BY <1>1 DEF ThreadInv, Types, TypeOK
<1>3. \A q \in Requests : ran[q] # Null => ran'[q] = ran[q]
  BY <1>1, <1>2
<1>4. ASSUME NEW q \in Requests, Served(q)', NEW u \in Threads PROVE doing[u] # q
  BY <1>1, <1>2, <1>4, GroupFacts DEF Served
<1>5. \A q \in Requests : Served(q)' => Served(q)
  BY <1>4 DEF Served
<1> QED  BY <1>1, <1>3, <1>5, KeptQuietStep

LEMMA KeptConnectStep ==
  ASSUME ThreadInv, KeptInv, ThreadInv', NEW t \in Threads, Connect(t)
  PROVE  KeptInv'
<1>1. /\ conn[doing[t]] = "none" /\ conn' = [conn EXCEPT ![doing[t]] = "open"]
      /\ UNCHANGED <<held, doing, task, lock, adrift, ran>>
  BY DEF Connect, thread, tasks
<1>2. \A q \in Requests : conn'[q] = conn[q] \/ (conn[q] = "none" /\ conn'[q] = "open")
  <2>1. conn \in [Requests -> {"none", "open", "kept", "committed", "rolled back"}]
    BY DEF ThreadInv, Types, TypeOK
  <2>2. ASSUME NEW q \in Requests PROVE conn'[q] = conn[q] \/ (conn[q] = "none" /\ conn'[q] = "open")
    BY <1>1, <2>1
  <2> QED  BY <2>2
<1>3. \A q \in Requests : WasKept(q)' <=> WasKept(q)
  BY <1>2 DEF WasKept
<1>4. \A q \in Requests : conn'[q] = "kept" /\ Left(q)' => conn[q] = "kept" /\ Left(q)
  BY <1>1, <1>2 DEF Left, Served
<1> QED  BY <1>1, <1>3, <1>4, KeptStep, Zenon

LEMMA KeptKeepStep ==
  ASSUME ThreadInv, KeptInv, ThreadInv', NEW t \in Threads, Keep(t)
  PROVE  KeptInv'
<1>d. PICK d : d = doing[t]
  OBVIOUS
<1>g. PICK g : g = info[t].groupId
  OBVIOUS
<1>1. /\ pc[t] = "business" /\ conn[d] = "open" /\ conn' = [conn EXCEPT ![d] = "kept"]
      /\ held' = [held EXCEPT ![g] = d] /\ UNCHANGED <<doing, task, lock, adrift, ran>>
  BY <1>d, <1>g DEF Keep, GroupOf, thread, tasks
<1>2. d \in Requests /\ g \in Groups /\ ran[d] \in Infos /\ ran[d].groupId = g
  BY <1>d, <1>g, KeepFacts DEF InGroup
<1>3. /\ conn \in [Requests -> {"none", "open", "kept", "committed", "rolled back"}]
      /\ held \in [Groups -> Requests \cup {Null}]
  BY DEF ThreadInv, Types, TypeOK
<1>4. /\ conn'[d] = "kept" /\ \A q \in Requests \ {d} : conn'[q] = conn[q]
      /\ held'[g] = d /\ \A h \in Groups \ {g} : held'[h] = held[h]
  BY <1>1, <1>2, <1>3
<1>5. \A q \in Requests : /\ ran[q] # Null => ran'[q] = ran[q]
                          /\ WasKept(q) => WasKept(q)'
  BY <1>1, <1>4 DEF WasKept
<1>6. \A h \in Groups :
        \/ held'[h] = held[h]
        \/ /\ held'[h] \in Requests /\ conn'[held'[h]] = "kept"
           /\ ran'[held'[h]] \in Infos /\ ran'[held'[h]].groupId = h
  BY <1>1, <1>2, <1>4
<1>7. ASSUME NEW q \in Requests, ~WasKept(q), WasKept(q)'
      PROVE  RanIn(q)' \in Groups /\ held'[RanIn(q)'] \in Requests
  <2>1. q = d
    BY <1>4, <1>7 DEF WasKept
  <2>2. RanIn(q)' = g
    BY <1>1, <1>2, <2>1, GroupFacts DEF RanIn
  <2> QED  BY <1>2, <1>4, <2>2
<1>8. ASSUME NEW q \in Requests, conn'[q] = "kept", Left(q)' PROVE conn[q] = "kept" /\ Left(q)
  BY <1>1, <1>d, <1>4, <1>8 DEF Left, Served
<1> QED  BY <1>1, <1>5, <1>6, <1>7, <1>8, KeptStep, Zenon

(* The connection kept for a group is the only one that needs a reason.     *)
LEMMA OnlyKept ==
  ASSUME ThreadInv, KeptInv, NEW r \in Requests, conn[r] = "kept", ~Excused(r)
  PROVE  RanIn(r) \in Groups /\ held[RanIn(r)] = r
<1>1. RanIn(r) \in Groups /\ held[RanIn(r)] \in Requests
  <2>1. WasKept(r) /\ held \in [Groups -> Requests \cup {Null}]
    BY DEF WasKept, ThreadInv, Types, TypeOK
  <2> QED  BY <2>1, RanFacts DEF KeptInv, KeptOK
<1>2. WasKept(held[RanIn(r)]) /\ RanIn(held[RanIn(r)]) = RanIn(r)
  BY <1>1, GroupFacts DEF KeptInv, KeptOK, InGroup, RanIn
<1> QED  BY <1>1, <1>2 DEF Excused

(* A thread that leaves its request ends the group's connection, unless the *)
(* request has an excuse or its task will do it.                            *)
LEMMA KeptLeaveStep ==
  ASSUME ThreadInv, KeptInv, ThreadInv', NEW t \in Threads, pc[t] # "idle", Leave(t),
         UNCHANGED <<lock, ran, held>>, adrift \subseteq adrift',
         \A q \in Requests : /\ conn'[q] = "kept" => conn[q] = "kept"
                             /\ WasKept(q)' <=> WasKept(q)
                             /\ q # doing[t] => task'[q] = task[q],
         conn'[doing[t]] = "kept" => \/ task'[doing[t]] = "started" \/ doing[t] \in adrift'
                                     \/ Excused(doing[t])
  PROVE  KeptInv'
<1>1. doing' = [doing EXCEPT ![t] = Null] /\ doing \in [Threads -> Requests \cup {Null}]
  BY DEF Leave, ThreadInv, Types, TypeOK
<1>2. ASSUME NEW q \in Requests, conn'[q] = "kept", Left(q)'
      PROVE  (conn[q] = "kept" /\ (Left(q) \/ Excused(q))) \/ q \in adrift'
  <2>1. CASE q = doing[t]
    BY <1>2, <2>1 DEF Left
  <2>2. CASE q # doing[t]
    <3>1. ASSUME NEW u \in Threads PROVE doing[u] # q
      BY <1>1, <1>2, <2>2 DEF Left, Served
    <3> QED  BY <1>2, <2>2, <3>1 DEF Left, Served
  <2> QED  BY <2>1, <2>2
<1> QED  BY <1>2, KeptStep, Zenon

LEMMA KeptEndStep ==
  ASSUME ThreadInv, KeptInv, ThreadInv', NEW t \in Threads,
         \/ NotifyAnswered(t) \/ NotifyTimedOut(t) \/ JoinAnswered(t) \/ JoinTimedOut(t)
         \/ RequestThrows(t) \/ PlainEnds(t)
  PROVE  KeptInv'
<1> USE DEF cache, locals, thread, jdbcCtx, tasks
<1>d. PICK d : d = doing[t]
  OBVIOUS
<1>g. PICK g : g = GroupOf(t)
  OBVIOUS
<1>1. /\ TypeOK /\ \A q \in Requests : conn' = conn => (WasKept(q)' <=> WasKept(q))
  BY DEF ThreadInv, Types, WasKept
<1>2. CASE PlainEnds(t)
  <2>1. /\ pc[t] = "business" /\ doing[t] \notin Annotated /\ Leave(t)
        /\ UNCHANGED <<conn, task, lock, adrift, ran, held>>
    BY <1>2 DEF PlainEnds
  <2> QED  BY <1>1, <2>1, KeptLeaveStep DEF Excused
<1>3. CASE JoinAnswered(t)
  <2>1. /\ pc[t] = "joining" /\ Leave(t) /\ UNCHANGED <<conn, lock, adrift, ran, held>>
        /\ task' = IF jdbc[t] = Null THEN task ELSE [task EXCEPT ![doing[t]] = "started"]
    BY <1>3 DEF JoinAnswered
  <2>2. doing[t] \in Requests /\ (conn[doing[t]] = "kept" => jdbc[t] # Null)
    BY <2>1, BusyFacts DEF BusyOK
  <2>3. task \in [Requests -> {"none", "started", "waiting", "over"}]
    BY <1>1 DEF TypeOK
  <2>4. conn'[doing[t]] = "kept" => task'[doing[t]] = "started"
    BY <2>1, <2>2, <2>3
  <2>5. \A q \in Requests : q # doing[t] => task'[q] = task[q]
    BY <2>1, <2>2, <2>3
  <2> QED  BY <1>1, <2>1, <2>4, <2>5, KeptLeaveStep
<1>4. ASSUME pc[t] \in {"joining", "notifying"}, Leave(t), UNCHANGED <<lock, adrift, ran, held, task>>,
             \/ HasConnection(g) /\ \E commit \in BOOLEAN : EndConnection(g, commit)
             \/ (conn[d] = "kept" => ~HasConnection(g)) /\ UNCHANGED conn
      PROVE  KeptInv'
  <2>1. /\ d \in Requests /\ ran[d] \in Infos /\ ran[d].groupId = g
        /\ g \in Groups \cup {Null} /\ RanIn(d) = g
    <3>1. /\ d \in Requests /\ ran[d] \in Infos /\ ran[d].groupId = g /\ g \in Groups \cup {Null}
      BY <1>4, <1>d, <1>g, BusyFacts DEF InGroup, GroupOf
    <3> QED  BY <3>1, GroupFacts DEF RanIn
  <2>2. CASE HasConnection(g) /\ \E commit \in BOOLEAN : EndConnection(g, commit)
    <3>1. g \in Groups /\ \E commit \in BOOLEAN : EndConnection(g, commit)
      BY <2>1, <2>2 DEF HasConnection
    <3>2. \A q \in Requests : /\ conn'[q] = "kept" => conn[q] = "kept"
                              /\ WasKept(q)' <=> WasKept(q)
                              /\ q = held[g] => conn'[q] # "kept"
      BY <1>1, <3>1, EndFacts
    <3>3. conn'[d] = "kept" => Excused(d)
      BY <2>1, <3>2, OnlyKept
    <3> QED  BY <1>4, <1>d, <3>2, <3>3, KeptLeaveStep
  <2>3. CASE (conn[d] = "kept" => ~HasConnection(g)) /\ UNCHANGED conn
    <3>1. conn' = conn
      BY <2>3
    <3>2. conn[d] = "kept" => Excused(d)
      BY <2>1, <2>3, OnlyKept, GroupFacts DEF HasConnection
    <3> QED  BY <1>1, <1>4, <1>d, <3>1, <3>2, KeptLeaveStep
  <2> QED  BY <1>4, <2>2, <2>3
<1>5. CASE JoinTimedOut(t)
  BY <1>4, <1>5, <1>g DEF JoinTimedOut, EndConnection
<1>6. ASSUME NEW commit \in BOOLEAN, pc[t] = "notifying", NotifyEnds(t, commit) PROVE KeptInv'
  <2>1. Leave(t) /\ UNCHANGED <<lock, adrift, ran, held, task>>
    BY <1>6 DEF NotifyEnds, EndConnection
  <2>2. CASE CanEnd(t, commit)
    <3>1. HasConnection(g) /\ \E c \in BOOLEAN : EndConnection(g, c)
      BY <1>6, <1>g, <2>2 DEF NotifyEnds, CanEnd
    <3> QED  BY <1>4, <1>6, <2>1, <3>1
  <2>3. CASE ~CanEnd(t, commit)
    <3>1. conn' = conn
      BY <1>6, <2>3 DEF NotifyEnds
    <3>2. conn[d] = "kept" => jdbc[t] # Null
      BY <1>6, <1>d, BusyFacts DEF BusyOK
    <3>3. conn[d] = "kept" => ~HasConnection(g)
      BY <1>g, <2>3, <3>2 DEF CanEnd
    <3> QED  BY <1>4, <1>6, <2>1, <3>1, <3>3
  <2> QED  BY <2>2, <2>3
<1>7. CASE RequestThrows(t)
  <2>1. /\ pc[t] \in {"joining", "notifying"} /\ Leave(t) /\ adrift' = adrift \cup {doing[t]}
        /\ UNCHANGED <<conn, task, lock, ran, held>>
    BY <1>7 DEF RequestThrows
  <2>2. adrift \subseteq adrift' /\ doing[t] \in adrift'
    BY <2>1
  <2> QED  BY <1>1, <2>1, <2>2, KeptLeaveStep
<1>8. NotifyAnswered(t) \/ NotifyTimedOut(t) =>
        pc[t] = "notifying" /\ \E commit \in BOOLEAN : NotifyEnds(t, commit)
  <2>1. success[t] \in BOOLEAN
    BY <1>1 DEF TypeOK
  <2> QED  BY <2>1 DEF NotifyAnswered, NotifyTimedOut
<1> QED  BY <1>2, <1>3, <1>5, <1>6, <1>7, <1>8

LEMMA KeptTaskStep ==
  ASSUME ThreadInv, KeptInv, ThreadInv', NEW r \in Requests, TaskWaits(r) \/ TaskTimesUp(r)
  PROVE  KeptInv'
<1>1. /\ task[r] # "none" /\ UNCHANGED <<conn, held, ran, doing>>
      /\ \/ /\ adrift' = adrift /\ task' = [task EXCEPT ![r] = "waiting"]
            /\ lock' = [lock EXCEPT ![ran[r].groupId] = r]
         \/ adrift' = adrift \cup {r} /\ task' = [task EXCEPT ![r] = "over"] /\ lock' = lock
  BY DEF TaskWaits, TaskTimesUp, thread, jdbcCtx
<1>2. /\ task \in [Requests -> {"none", "started", "waiting", "over"}]
      /\ lock \in [Groups -> Requests \cup {Null}]
  BY DEF ThreadInv, Types, TypeOK
<1>3. ran[r] \in Infos
  BY <1>1 DEF ThreadInv, RanFirst
<1>4. \A g \in Groups : \/ lock'[g] = lock[g]
                        \/ lock'[g] \in Requests /\ ran'[lock'[g]] \in Infos /\ ran'[lock'[g]].groupId = g
  BY <1>1, <1>2, <1>3
<1>5. ASSUME NEW q \in Requests, conn'[q] = "kept", Left(q)'
      PROVE  (conn[q] = "kept" /\ Left(q)) \/ q \in adrift'
  <2>1. CASE q = r
    BY <1>1, <1>2, <1>5, <2>1 DEF Left
  <2>2. CASE q # r
    BY <1>1, <1>2, <1>5, <2>2 DEF Left, Served
  <2> QED  BY <2>1, <2>2
<1>6. adrift \subseteq adrift'
  BY <1>1
<1>7. \A q \in Requests : WasKept(q)' <=> WasKept(q)
  BY <1>1 DEF WasKept
<1> QED  BY <1>1, <1>4, <1>5, <1>6, <1>7, KeptStep, Zenon

LEMMA KeptCommitEventStep ==
  ASSUME ThreadInv, KeptInv, ThreadInv', NEW g \in Groups, CommitEvent(g)
  PROVE  KeptInv'
<1>l. PICK l : l = lock[g]
  OBVIOUS
<1>1. /\ l # Null /\ lock' = [lock EXCEPT ![g] = Null] /\ held' = held
      /\ UNCHANGED <<ran, doing, adrift>>
      /\ \/ /\ task[l] = "waiting" /\ task' = [task EXCEPT ![l] = "over"]
            /\ \/ HasConnection(g) /\ \E commit \in BOOLEAN : EndConnection(g, commit)
               \/ ~HasConnection(g) /\ conn' = conn
         \/ task' = task /\ conn' = conn
  BY <1>l DEF CommitEvent, EndConnection, thread, jdbcCtx
<1>2. /\ TypeOK /\ task \in [Requests -> {"none", "started", "waiting", "over"}]
      /\ lock \in [Groups -> Requests \cup {Null}]
  BY DEF ThreadInv, Types, TypeOK
<1>3. l \in Requests /\ RanIn(l) = g /\ g # Null
  <2>1. l \in Requests /\ InGroup(l, g)
    BY <1>l, <1>1, <1>2 DEF KeptInv, KeptOK
  <2> QED  BY <2>1, GroupFacts DEF InGroup, RanIn
<1>4. \A q \in Requests : /\ conn'[q] = "kept" => conn[q] = "kept"
                          /\ WasKept(q)' <=> WasKept(q)
  BY <1>1, <1>2, EndFacts DEF WasKept
<1>5. \A h \in Groups : lock'[h] = lock[h] \/ lock'[h] = Null
  BY <1>1, <1>2
<1>6. ASSUME NEW q \in Requests, conn'[q] = "kept", Left(q)'
      PROVE  conn[q] = "kept" /\ (Left(q) \/ Excused(q))
  <2>1. CASE task'[q] = task[q]
    BY <1>1, <1>4, <1>6, <2>1 DEF Left, Served
  <2>2. CASE task'[q] # task[q]
    <3>1. q = l
      BY <1>1, <1>2, <1>3, <2>2
    <3>2. CASE HasConnection(g) /\ \E commit \in BOOLEAN : EndConnection(g, commit)
      <4>1. q # held[g]
        BY <1>2, <1>6, <3>2, EndFacts
      <4> QED  BY <1>3, <1>4, <1>6, <3>1, <4>1, OnlyKept
    <3>3. CASE ~HasConnection(g)
      BY <1>3, <1>4, <1>6, <3>1, <3>3, OnlyKept, GroupFacts DEF HasConnection
    <3> QED  BY <1>1, <2>2, <3>2, <3>3
  <2> QED  BY <2>1, <2>2
<1> QED  BY <1>1, <1>4, <1>5, <1>6, KeptStep, Zenon

LEMMA KeptNext == ThreadInv /\ KeptInv /\ ThreadInv' /\ [Next]_vars => KeptInv'
<1> SUFFICES ASSUME ThreadInv, KeptInv, ThreadInv', [Next]_vars PROVE KeptInv'
  OBVIOUS
<1>1. CASE IdCache \/ UNCHANGED vars
  <2>1. UNCHANGED <<held, conn, task, lock, adrift, ran, doing>>
    BY <1>1 DEF IdCache, GrowsOld, Ask, IdArrives, NoId, vars, thread, jdbcCtx, tasks
  <2> QED  BY <2>1, KeptQuietStep DEF Served
<1>2. ASSUME NEW t \in Threads, Steps(t) \/ Thread(t) PROVE KeptInv'
  <2>1. CASE CreateAnswered(t) \/ BusinessEnds(t) \/ CreateFails(t)
    <3>1. UNCHANGED <<held, conn, task, lock, adrift, ran, doing>>
      BY <2>1 DEF CreateAnswered, BusinessEnds, CreateFails, jdbcCtx, tasks
    <3> QED  BY <3>1, KeptQuietStep DEF Served
  <2> QED  BY <1>2, <2>1, KeptServeStep, KeptConnectStep, KeptKeepStep, KeptEndStep
     DEF Steps, Thread
<1>3. CASE (\E r \in Requests : Task(r)) \/ (\E g \in Groups : CommitEvent(g))
  BY <1>3, KeptTaskStep, KeptCommitEventStep DEF Task
<1> QED  BY <1>1, <1>2, <1>3 DEF Next

(* What JdbcContext was given stays open with nobody left to end it only   *)
(* where the TM was not asked or the wait was over too early, where the    *)
(* method was not annotated, or where another connection was put in its    *)
(* place under the same group id.                                          *)
THEOREM AbandonedConnectionsHaveCauses == Spec => []AbandonedHasCause
<1>1. KeptInv => AbandonedHasCause
  BY DEF KeptInv
<1> QED  BY <1>1, ThreadInit, ThreadNext, KeptInit, KeptNext, PTL DEF Spec
=============================================================================
