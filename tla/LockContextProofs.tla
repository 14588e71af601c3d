------------------------- MODULE LockContextProofs -------------------------
(***************************************************************************)
(* Proofs about LockContext for any requests, keys, pool size and timing.  *)
(***************************************************************************)
EXTENDS LockContext, FiniteSetTheorems, TLAPS

LEMMA TypeInit == Init => TypeOK
BY RequestsAssumption DEF Init, TypeOK, PcStates, Locks

LEMMA TypeStep == TypeOK /\ [Next]_vars => TypeOK'
<1> SUFFICES ASSUME TypeOK, [Next]_vars PROVE TypeOK'
  OBVIOUS
<1> USE RequestsAssumption DEF TypeOK, PcStates, Locks, Goto, HGoto,
        requester, handler, context, fields
<1>1. ASSUME NEW r \in Requests, CreateCached(r) \/ CreateUncached(r) PROVE TypeOK'
  BY <1>1 DEF CreateCached, CreateUncached, Take, MayAdd
<1>2. ASSUME NEW r \in Requests, Reuse(r) PROVE TypeOK'
  <2>1. Head(freeList) \in Locks /\ Tail(freeList) \in Seq(Locks)
    BY <1>2 DEF Reuse
  <2> QED  BY <1>2, <2>1 DEF Reuse, Take, MayAdd
<1>3. ASSUME NEW r \in Requests, Refuse(r) PROVE TypeOK'
  BY <1>3 DEF Refuse, MayAdd
<1>4. ASSUME NEW r \in Requests, PutThrows(r) \/ PutAndSend(r) PROVE TypeOK'
  <2>1. CASE PutThrows(r)
    BY <2>1 DEF PutThrows
  <2>2. CASE PutAndSend(r)
    BY <2>2 DEF PutAndSend
  <2> QED  BY <1>4, <2>1, <2>2
<1>5. ASSUME NEW r \in Requests, Await(r) \/ AwaitTimedOut(r) PROVE TypeOK'
  BY <1>5 DEF Await, AwaitTimedOut
<1>6. ASSUME NEW r \in Requests, GetRes(r) PROVE TypeOK'
  BY <1>6 DEF GetRes
<1>7. ASSUME NEW r \in Requests, ClearUsed(r) \/ ClearRes(r) PROVE TypeOK'
  BY <1>7 DEF ClearUsed, ClearRes
<1>8. ASSUME NEW r \in Requests, IgnoreAnswer(r) PROVE TypeOK'
  BY <1>8 DEF IgnoreAnswer
<1>9. ASSUME NEW r \in Requests, LookUp(r) PROVE TypeOK'
  BY <1>9 DEF LookUp
<1>10. ASSUME NEW r \in Requests, Free(r) PROVE TypeOK'
  <2>1. freeList' \in Seq(Locks)
    BY <1>10 DEF Free
  <2> QED  BY <1>10, <2>1 DEF Free
<1>11. ASSUME NEW r \in Requests, RemoveKey(r) PROVE TypeOK'
  BY <1>11 DEF RemoveKey
<1>12. ASSUME NEW r \in Requests, SetRes(r) PROVE TypeOK'
  BY <1>12 DEF SetRes
<1>13. ASSUME NEW r \in Requests, Signal(r) PROVE TypeOK'
  BY <1>13 DEF Signal
<1>14. CASE UNCHANGED vars
  BY <1>14 DEF vars
<1> QED
  BY <1>1, <1>2, <1>3, <1>4, <1>5, <1>6, <1>7, <1>8, <1>9, <1>10, <1>11, <1>12, <1>13, <1>14
     DEF Next, AddKey, Wait, Handle, Finished

(* Every step of every thread keeps every variable within its type, and a  *)
(* lock is looked up before it is written to: no null lock is dereferenced. *)
THEOREM LockContextTypeCorrect == Spec => []TypeOK
<1>1. Init => TypeOK
  BY TypeInit
<1>2. TypeOK /\ [Next]_vars => TypeOK'
  BY TypeStep
<1> QED  BY <1>1, <1>2, PTL DEF Spec

-----------------------------------------------------------------------------
(* A lock has one holder at a time *)

LEMMA HolderInit == Init => HolderInv
BY TypeInit, RequestsAssumption DEF Init, HolderInv, Fresh, HeldIsUsed, OneHolder, Holds

LEMMA TakeKeepsHolders ==
  ASSUME HolderInv, TypeOK', NEW r \in Requests, NEW l \in Locks, Take(r, l), MayAdd(r),
         \A o \in Requests : Holds(o) => lock[o] # l
  PROVE  HeldIsUsed' /\ OneHolder'
<1> USE DEF HolderInv, TypeOK, Take, Goto, MayAdd, Holds
<1>1. \A o \in Requests : o # r => lock'[o] = lock[o] /\ pc'[o] = pc[o]
  OBVIOUS
<1>2. lock'[r] = l /\ l \in used' /\ used \subseteq used'
  OBVIOUS
<1> QED  BY <1>1, <1>2 DEF HeldIsUsed, OneHolder

LEMMA HolderStep == HolderInv /\ [Next]_vars => HolderInv'
<1> SUFFICES ASSUME HolderInv, [Next]_vars PROVE HolderInv'
  OBVIOUS
<1>0. TypeOK /\ TypeOK'
  BY TypeStep DEF HolderInv
<1>s. SUFFICES Fresh' /\ HeldIsUsed' /\ OneHolder'
  BY <1>0 DEF HolderInv
<1>1. ASSUME NEW r \in Requests, CreateCached(r) \/ CreateUncached(r)
      PROVE  Fresh' /\ HeldIsUsed' /\ OneHolder'
  <2>1. Take(r, r) /\ MayAdd(r) /\ cacheList' \subseteq cacheList \cup {r} /\ freeList' = freeList
    BY <1>1 DEF CreateCached, CreateUncached
  <2>2. \A o \in Requests : lock[o] # r
    BY <2>1 DEF HolderInv, Fresh, MayAdd
  <2>3. HeldIsUsed' /\ OneHolder'
    BY <1>0, <2>1, <2>2, TakeKeepsHolders DEF Locks
  <2>4. Fresh'
    BY <1>0, <2>1 DEF Take, Goto, HolderInv, Fresh, TypeOK
  <2> QED  BY <2>3, <2>4
<1>2. ASSUME NEW r \in Requests, Reuse(r)
      PROVE  Fresh' /\ HeldIsUsed' /\ OneHolder'
  <2> DEFINE l == Head(freeList)
  <2>1. /\ freeList # <<>> /\ l \in Locks /\ l = freeList[1] /\ 1 \in DOMAIN freeList
        /\ \A i \in DOMAIN Tail(freeList) : Tail(freeList)[i] = freeList[i + 1]
                                            /\ i + 1 \in DOMAIN freeList
    BY <1>0, <1>2 DEF Reuse, TypeOK
  <2>2. /\ l \notin used /\ Take(r, l) /\ MayAdd(r)
        /\ freeList' = Tail(freeList) /\ cacheList' = cacheList
    BY <1>2 DEF Reuse
  <2> HIDE DEF l
  <2>3. HeldIsUsed' /\ OneHolder'
    BY <1>0, <2>1, <2>2, TakeKeepsHolders DEF HolderInv, HeldIsUsed
  <2>4. \A o \in Requests : pc[o] = "start" => o # l
    BY <2>1 DEF HolderInv, Fresh
  <2>5. Fresh'
    <3> SUFFICES ASSUME NEW x \in Requests, pc'[x] = "start"
                 PROVE  /\ x \notin cacheList'
                        /\ \A o \in Requests : lock'[o] # x
                        /\ \A i \in DOMAIN freeList' : freeList'[i] # x
      BY DEF Fresh
    <3>1. pc[x] = "start"
      BY <1>0, <2>2 DEF Take, Goto, TypeOK
    <3>2. x \notin cacheList' /\ \A o \in Requests : lock'[o] # x
      BY <1>0, <2>2, <2>4, <3>1 DEF Take, TypeOK, HolderInv, Fresh
    <3>3. \A i \in DOMAIN freeList' : freeList'[i] # x
      BY <2>1, <2>2, <3>1 DEF HolderInv, Fresh
    <3> QED  BY <3>2, <3>3
  <2> QED  BY <2>3, <2>5
<1>3. ASSUME NEW r \in Requests, Free(r)
      PROVE  Fresh' /\ HeldIsUsed' /\ OneHolder'
  <2>1. pc' = pc /\ lock' = lock /\ used' = used /\ cacheList' = cacheList
    BY <1>3 DEF Free, requester, fields
  <2>2. HeldIsUsed' /\ OneHolder'
    BY <2>1 DEF HolderInv, HeldIsUsed, OneHolder, Holds
  <2>3. \A i \in DOMAIN freeList' : freeList'[i] \in cacheList \cup {freeList[j] : j \in DOMAIN freeList}
    <3> DEFINE l == map[MessageId[r]]
    <3>1. CASE l \in cacheList
      <4>1. freeList' = Append(freeList, l) /\ l \in Locks
        BY <1>0, <1>3, <3>1 DEF Free, TypeOK
      <4> HIDE DEF l
      <4> QED  BY <1>0, <3>1, <4>1 DEF TypeOK
    <3>2. CASE l \notin cacheList
      BY <1>3, <3>2 DEF Free
    <3> QED  BY <3>1, <3>2
  <2>4. Fresh'
    BY <2>1, <2>3 DEF HolderInv, Fresh
  <2> QED  BY <2>2, <2>4
<1>4. ASSUME NEW r \in Requests, ClearUsed(r)
      PROVE  Fresh' /\ HeldIsUsed' /\ OneHolder'
  BY <1>0, <1>4 DEF ClearUsed, Goto, context, HolderInv, TypeOK, Fresh, HeldIsUsed, OneHolder, Holds
<1>5. ASSUME NEW r \in Requests,
             \/ Refuse(r) \/ PutThrows(r) \/ PutAndSend(r) \/ Await(r) \/ AwaitTimedOut(r) \/ GetRes(r)
             \/ ClearRes(r) \/ IgnoreAnswer(r) \/ LookUp(r) \/ RemoveKey(r) \/ SetRes(r)
             \/ Signal(r)
      PROVE  Fresh' /\ HeldIsUsed' /\ OneHolder'
  <2>1. lock' = lock /\ used' = used /\ cacheList' = cacheList /\ freeList' = freeList
    BY <1>5 DEF Refuse, PutThrows, PutAndSend, Await, AwaitTimedOut, GetRes, ClearRes, IgnoreAnswer, LookUp,
                RemoveKey, SetRes, Signal, requester, context, fields
  <2>2. \A o \in Requests : (pc'[o] = "start" => pc[o] = "start") /\ (Holds(o)' => Holds(o))
    BY <1>0, <1>5 DEF Refuse, PutThrows, PutAndSend, Await, AwaitTimedOut, GetRes, ClearRes, IgnoreAnswer,
                      LookUp, RemoveKey, SetRes, Signal, requester, Goto, TypeOK, Holds, MayAdd
  <2> QED  BY <2>1, <2>2 DEF HolderInv, Fresh, HeldIsUsed, OneHolder
<1>6. CASE UNCHANGED vars
  BY <1>6 DEF vars, HolderInv, Fresh, HeldIsUsed, OneHolder, Holds
<1> QED
  BY <1>1, <1>2, <1>3, <1>4, <1>5, <1>6 DEF Next, AddKey, Wait, Handle, Finished

(* However many threads wait and answers come, late or twice under one key, *)
(* no two threads wait on the same lock object at the same time.            *)
THEOREM LocksHaveOneHolder == Spec => []OneHolder
<1>1. Init => HolderInv
  BY HolderInit
<1>2. HolderInv /\ [Next]_vars => HolderInv'
  BY HolderStep
<1>3. HolderInv => OneHolder
  BY DEF HolderInv
<1> QED  BY <1>1, <1>2, <1>3, PTL DEF Spec

-----------------------------------------------------------------------------
(* Answers go astray only over a lock that was given up too early *)

LEMMA AnswerInit == OwnKeys /\ Init => AnswerInv
BY HolderInit, RequestsAssumption
   DEF Init, AnswerInv, KeysLeadToLock, AnswersStayOnLock, PunctualGetOwn, Sent, Locks

(* A lock that was not punctual does not become so: its holders only grow. *)
LEMMA PunctualBefore ==
  ASSUME TypeOK, \A o \in Requests : lock[o] # Null => lock'[o] = lock[o],
         NEW l \in Locks, Punctual(l)'
  PROVE  Punctual(l)
BY RequestsAssumption DEF Punctual, Unpunctual, Locks

(* On a punctual lock, the one whose answer is being handed over is the one *)
(* that still holds the lock.                                               *)
LEMMA HandedToHolder ==
  ASSUME AnswerInv, NEW q \in Requests, NEW r \in Requests,
         hpc[q] \in {"removed", "set"}, lock[r] = found[q], Punctual(lock[r]), Holds(r)
  PROVE  q = r
<1>1. lock[q] = lock[r] /\ Sent(q) /\ lock[q] # Null
  BY DEF AnswerInv, HolderInv, TypeOK, KeysLeadToLock
<1>2. pc[q] \in {"sent", "waiting"}
  BY <1>1 DEF AnswerInv, HolderInv, TypeOK, PcStates, PunctualGetOwn, Sent
<1> QED  BY <1>1, <1>2 DEF AnswerInv, HolderInv, OneHolder, Holds

LEMMA TakeKeepsAnswers ==
  ASSUME OwnKeys, AnswerInv, TypeOK', NEW r \in Requests, NEW l \in Locks, Take(r, l), MayAdd(r)
  PROVE  KeysLeadToLock' /\ AnswersStayOnLock' /\ PunctualGetOwn'
<1> USE RequestsAssumption DEF AnswerInv, HolderInv, Take, MayAdd, Goto, handler
<1>1. /\ lock'[r] = l /\ pc'[r] = "adding" /\ lock[r] = Null /\ l # Null
      /\ map[Key[r]] = Null /\ hpc[r] = "none" /\ result[r] = Null
      /\ UNCHANGED <<result, hpc, found, map, res>>
      /\ \A o \in Requests : o # r => lock'[o] = lock[o] /\ pc'[o] = pc[o]
  BY DEF TypeOK, KeysLeadToLock, AnswersStayOnLock, Sent, Locks
<1>2. KeysLeadToLock'
  BY <1>1 DEF KeysLeadToLock, Sent
<1>3. AnswersStayOnLock'
  BY <1>1 DEF AnswersStayOnLock, TypeOK, Locks
<1>4. PunctualGetOwn'
  <2> SUFFICES ASSUME NEW o \in Requests, o # r, lock[o] # Null, Punctual(lock[o])'
               PROVE  Punctual(lock[o])
    BY <1>1 DEF PunctualGetOwn
  <2>1. \A x \in Requests : lock[x] # Null => lock'[x] = lock[x]
    BY <1>1
  <2>2. lock'[o] = lock[o] /\ lock[o] \in Locks
    BY <1>1 DEF TypeOK
  <2> QED  BY <2>1, <2>2, PunctualBefore
<1> QED  BY <1>2, <1>3, <1>4

LEMMA AnswerStep == OwnKeys /\ AnswerInv /\ [Next]_vars => AnswerInv'
<1> SUFFICES ASSUME OwnKeys, AnswerInv, [Next]_vars
             PROVE  KeysLeadToLock' /\ AnswersStayOnLock' /\ PunctualGetOwn'
  BY HolderStep DEF AnswerInv
<1>0. TypeOK /\ TypeOK'
  BY TypeStep DEF AnswerInv, HolderInv
<1> USE RequestsAssumption DEF Goto, HGoto, requester, handler, context, fields
<1>1. ASSUME NEW r \in Requests, CreateCached(r) \/ CreateUncached(r) \/ Reuse(r)
      PROVE  KeysLeadToLock' /\ AnswersStayOnLock' /\ PunctualGetOwn'
  <2>1. CASE CreateCached(r) \/ CreateUncached(r)
    BY <1>0, <2>1, TakeKeepsAnswers DEF CreateCached, CreateUncached, Locks
  <2>2. CASE Reuse(r)
    <3>1. Head(freeList) \in Locks
      BY <1>0, <2>2 DEF Reuse, TypeOK
    <3> QED  BY <1>0, <2>2, <3>1, TakeKeepsAnswers DEF Reuse
  <2> QED  BY <1>1, <2>1, <2>2
<1>2. ASSUME NEW r \in Requests, Refuse(r) \/ PutThrows(r) \/ Await(r) \/ ClearUsed(r)
      PROVE  KeysLeadToLock' /\ AnswersStayOnLock' /\ PunctualGetOwn'
  <2>1. UNCHANGED <<lock, result, hpc, found, map, res>>
    BY <1>2 DEF Refuse, PutThrows, Await, ClearUsed
  <2>2. KeysLeadToLock'
    BY <1>0, <1>2, <2>1
       DEF AnswerInv, KeysLeadToLock, Refuse, PutThrows, Await, ClearUsed, MayAdd, Sent, TypeOK
  <2>3. AnswersStayOnLock'
    BY <2>1 DEF AnswerInv, AnswersStayOnLock
  <2>4. PunctualGetOwn'
    BY <1>0, <1>2, <2>1
       DEF AnswerInv, PunctualGetOwn, Punctual, Refuse, PutThrows, Await, ClearUsed, MayAdd, TypeOK
  <2> QED  BY <2>2, <2>3, <2>4
<1>3. ASSUME NEW r \in Requests, PutAndSend(r)
      PROVE  KeysLeadToLock' /\ AnswersStayOnLock' /\ PunctualGetOwn'
  <2>1. UNCHANGED <<lock, result, hpc, found, res>>
    BY <1>3 DEF PutAndSend
  <2>2. /\ Key[r] \in Keys /\ map'[Key[r]] = lock[r]
        /\ \A o \in Requests : o # r => pc'[o] = pc[o]
        /\ \A o \in Requests : o # r => map'[Key[o]] = map[Key[o]]
        /\ pc[r] = "adding" /\ pc'[r] = "sent"
    BY <1>0, <1>3 DEF PutAndSend, TypeOK, OwnKeys
  <2>3. KeysLeadToLock'
    BY <2>1, <2>2 DEF AnswerInv, KeysLeadToLock, Sent
  <2>4. AnswersStayOnLock'
    BY <2>1 DEF AnswerInv, AnswersStayOnLock
  <2>5. hpc[r] = "none"
    BY <2>2 DEF AnswerInv, KeysLeadToLock, Sent
  <2>6. PunctualGetOwn'
    BY <2>1, <2>2, <2>5 DEF AnswerInv, PunctualGetOwn, Punctual
  <2> QED  BY <2>3, <2>4, <2>6
<1>4. ASSUME NEW r \in Requests, AwaitTimedOut(r)
      PROVE  KeysLeadToLock' /\ AnswersStayOnLock' /\ PunctualGetOwn'
  <2>1. /\ UNCHANGED <<lock, result, hpc, found, map, res>>
        /\ pc[r] = "waiting" /\ pc' = [pc EXCEPT ![r] = "awake"]
        /\ r \in Slow \/ hpc[r] = "over"
    BY <1>4 DEF AwaitTimedOut
  <2>2. KeysLeadToLock'
    BY <1>0, <2>1 DEF AnswerInv, KeysLeadToLock, Sent, TypeOK
  <2>3. AnswersStayOnLock'
    BY <2>1 DEF AnswerInv, AnswersStayOnLock
  <2>4. Punctual(lock[r]) => hpc[r] = "over"
    BY <2>1 DEF Punctual, Unpunctual
  <2>5. PunctualGetOwn'
    BY <1>0, <2>1, <2>4 DEF AnswerInv, PunctualGetOwn, Punctual, TypeOK
  <2> QED  BY <2>2, <2>3, <2>5
<1>5. ASSUME NEW r \in Requests, GetRes(r)
      PROVE  KeysLeadToLock' /\ AnswersStayOnLock' /\ PunctualGetOwn'
  <2>1. /\ UNCHANGED <<lock, hpc, found, map, res>>
        /\ result'[r] = res[lock[r]] /\ lock[r] \in Locks /\ lock[r] # Null
        /\ \A o \in Requests : o # r => pc'[o] = pc[o] /\ result'[o] = result[o]
        /\ pc[r] = "awake" /\ pc'[r] \in {"clearing", "done"}
    BY <1>0, <1>5 DEF GetRes, TypeOK, Locks
  <2>2. KeysLeadToLock'
    BY <2>1 DEF AnswerInv, KeysLeadToLock, Sent
  <2>3. AnswersStayOnLock'
    BY <2>1 DEF AnswerInv, AnswersStayOnLock
  <2>4. Punctual(lock[r]) => hpc[r] = "over" /\ result'[r] \in {Null, r}
    BY <2>1 DEF AnswerInv, PunctualGetOwn
  <2>5. PunctualGetOwn'
    BY <2>1, <2>4 DEF AnswerInv, PunctualGetOwn, Punctual
  <2> QED  BY <2>2, <2>3, <2>5
<1>6. ASSUME NEW r \in Requests, ClearRes(r)
      PROVE  KeysLeadToLock' /\ AnswersStayOnLock' /\ PunctualGetOwn'
  <2>1. /\ UNCHANGED <<lock, result, hpc, found, map>>
        /\ pc[r] = "cleared" /\ pc' = [pc EXCEPT ![r] = "done"]
        /\ \A l \in Locks : res'[l] \in {Null, res[l]}
    BY <1>0, <1>6 DEF ClearRes, TypeOK
  <2>2. KeysLeadToLock'
    BY <1>0, <2>1 DEF AnswerInv, KeysLeadToLock, Sent, TypeOK
  <2>3. AnswersStayOnLock'
    BY <2>1 DEF AnswerInv, AnswersStayOnLock
  <2>4. PunctualGetOwn'
    BY <1>0, <2>1 DEF AnswerInv, PunctualGetOwn, Punctual, TypeOK
  <2> QED  BY <2>2, <2>3, <2>4
<1>7. ASSUME NEW r \in Requests, IgnoreAnswer(r) \/ Free(r)
      PROVE  KeysLeadToLock' /\ AnswersStayOnLock' /\ PunctualGetOwn'
  <2>1. /\ UNCHANGED <<pc, lock, result, found, map, res>>
        /\ \A o \in Requests : o # r => hpc'[o] = hpc[o]
    BY <1>0, <1>7 DEF IgnoreAnswer, Free, TypeOK
  <2>2. \/ hpc[r] = "none" /\ hpc'[r] = "over" /\ MessageId[r] = Null /\ Sent(r)
        \/ hpc[r] = "found" /\ hpc'[r] = "freed"
    BY <1>0, <1>7 DEF IgnoreAnswer, Free, TypeOK
  <2>3. KeysLeadToLock'
    BY <2>1, <2>2 DEF AnswerInv, KeysLeadToLock, Sent
  <2>4. AnswersStayOnLock'
    BY <2>1 DEF AnswerInv, AnswersStayOnLock
  <2>5. hpc'[r] = "over" => ~Punctual(lock[r])
    BY <2>2 DEF Punctual, Unpunctual
  <2>6. PunctualGetOwn'
    BY <2>1, <2>2, <2>5 DEF AnswerInv, PunctualGetOwn, Punctual
  <2> QED  BY <2>3, <2>4, <2>6
<1>8. ASSUME NEW r \in Requests, LookUp(r)
      PROVE  KeysLeadToLock' /\ AnswersStayOnLock' /\ PunctualGetOwn'
  <2>1. /\ UNCHANGED <<pc, lock, result, map, res>>
        /\ hpc[r] = "none" /\ hpc'[r] = "found" /\ found'[r] = lock[r]
        /\ \A o \in Requests : o # r => hpc'[o] = hpc[o] /\ found'[o] = found[o]
        /\ Sent(r)
    BY <1>0, <1>8 DEF LookUp, TypeOK, OwnKeys, AnswerInv, KeysLeadToLock
  <2>2. KeysLeadToLock'
    BY <2>1 DEF AnswerInv, KeysLeadToLock, Sent
  <2>3. AnswersStayOnLock'
    BY <2>1 DEF AnswerInv, AnswersStayOnLock
  <2>4. PunctualGetOwn'
    BY <2>1 DEF AnswerInv, PunctualGetOwn, Punctual
  <2> QED  BY <2>2, <2>3, <2>4
<1>9. ASSUME NEW r \in Requests, RemoveKey(r)
      PROVE  KeysLeadToLock' /\ AnswersStayOnLock' /\ PunctualGetOwn'
  <2>1. /\ UNCHANGED <<pc, lock, result, found, res>>
        /\ hpc[r] = "freed" /\ hpc'[r] = "removed" /\ map'[Key[r]] = Null /\ Sent(r)
        /\ \A o \in Requests : o # r => hpc'[o] = hpc[o]
        /\ \A o \in Requests : o # r => map'[Key[o]] = map[Key[o]]
    <3>1. hpc[r] = "freed" /\ MessageId[r] = Key[r] /\ Key[r] \in Keys
      BY <1>0, <1>9 DEF RemoveKey, OwnKeys, TypeOK
    <3>2. Sent(r) /\ found[r] = lock[r]
      BY <3>1 DEF AnswerInv, KeysLeadToLock
    <3>3. found[r] # Null
      BY <1>0, <3>2 DEF TypeOK, Sent
    <3> QED  BY <1>0, <1>9, <3>1, <3>2, <3>3 DEF RemoveKey, TypeOK, OwnKeys
  <2>2. KeysLeadToLock'
    BY <2>1 DEF AnswerInv, KeysLeadToLock, Sent
  <2>3. AnswersStayOnLock'
    BY <2>1 DEF AnswerInv, AnswersStayOnLock
  <2>4. PunctualGetOwn'
    BY <2>1 DEF AnswerInv, PunctualGetOwn, Punctual
  <2> QED  BY <2>2, <2>3, <2>4
<1>10. ASSUME NEW r \in Requests, SetRes(r)
       PROVE  KeysLeadToLock' /\ AnswersStayOnLock' /\ PunctualGetOwn'
  <2>1. /\ UNCHANGED <<pc, lock, result, found, map>>
        /\ hpc[r] = "removed" /\ hpc'[r] = "set"
        /\ \A o \in Requests : o # r => hpc'[o] = hpc[o]
        /\ found[r] \in Locks /\ found[r] = lock[r]
        /\ res'[found[r]] = r /\ \A l \in Locks : l # found[r] => res'[l] = res[l]
    BY <1>0, <1>10 DEF SetRes, TypeOK, AnswerInv, KeysLeadToLock
  <2>2. KeysLeadToLock'
    BY <2>1 DEF AnswerInv, KeysLeadToLock, Sent
  <2>3. AnswersStayOnLock'
    BY <2>1 DEF AnswerInv, AnswersStayOnLock
  <2>4. ASSUME NEW o \in Requests, lock[o] # Null, Punctual(lock[o]),
               hpc'[o] \in {"set", "over"}, pc[o] \in {"sent", "waiting", "awake"}
        PROVE  res'[lock[o]] \in {Null, o}
    <3>1. CASE o = r
      BY <2>1, <3>1
    <3>2. CASE o # r
      <4>1. lock[o] # found[r]
        BY <2>1, <2>4, <3>2, HandedToHolder DEF Holds
      <4> QED  BY <1>0, <2>1, <2>4, <3>2, <4>1 DEF AnswerInv, PunctualGetOwn, TypeOK
    <3> QED  BY <3>1, <3>2
  <2>5. PunctualGetOwn'
    BY <2>1, <2>4 DEF AnswerInv, PunctualGetOwn, Punctual
  <2> QED  BY <2>2, <2>3, <2>5
<1>11. ASSUME NEW r \in Requests, Signal(r)
       PROVE  KeysLeadToLock' /\ AnswersStayOnLock' /\ PunctualGetOwn'
  <2>1. /\ UNCHANGED <<lock, result, found, map, res>>
        /\ hpc[r] = "set" /\ hpc'[r] = "over"
        /\ \A o \in Requests : o # r => hpc'[o] = hpc[o]
        /\ \A o \in Requests : \/ pc'[o] = pc[o]
                               \/ pc[o] = "waiting" /\ pc'[o] = "awake" /\ lock[o] = found[r]
    BY <1>0, <1>11 DEF Signal, TypeOK
  <2>2. KeysLeadToLock'
    BY <2>1 DEF AnswerInv, KeysLeadToLock, Sent
  <2>3. AnswersStayOnLock'
    BY <2>1 DEF AnswerInv, AnswersStayOnLock
  <2>4. ASSUME NEW o \in Requests, Punctual(lock[o]), pc'[o] # pc[o]
        PROVE  o = r
    BY <2>1, <2>4, HandedToHolder DEF Holds
  <2>5. PunctualGetOwn'
    BY <2>1, <2>4 DEF AnswerInv, PunctualGetOwn, Punctual
  <2> QED  BY <2>2, <2>3, <2>5
<1>12. CASE UNCHANGED vars
  BY <1>12 DEF vars, AnswerInv, KeysLeadToLock, AnswersStayOnLock, PunctualGetOwn, Punctual, Sent
<1> QED
  BY <1>1, <1>2, <1>3, <1>4, <1>5, <1>6, <1>7, <1>8, <1>9, <1>10, <1>11, <1>12
     DEF Next, AddKey, Wait, Handle, Finished

(* For requests under random keys, however many of them share the pool: an  *)
(* answer reaches the request it is for, unless a request that had the same *)
(* lock gave up waiting before its own answer had been handled.             *)
THEOREM StrayAnswersComeFromEarlyLeavers ==
  ASSUME OwnKeys PROVE Spec => []AnswerIsOwn
<1>1. Init => AnswerInv
  BY AnswerInit
<1>2. AnswerInv /\ [Next]_vars => AnswerInv'
  BY AnswerStep
<1>3. AnswerInv => AnswerIsOwn
  <2> SUFFICES ASSUME AnswerInv, NEW r \in Requests, result[r] \notin {Null, r}
               PROVE  /\ result[r] \in Shared(r)
                      /\ \E o \in Shared(r) \cup {r} : Unpunctual(o)
    BY DEF AnswerIsOwn
  <2>1. lock[r] # Null /\ lock[result[r]] = lock[r] /\ result[r] \in Requests
    BY DEF AnswerInv, AnswersStayOnLock, HolderInv, TypeOK
  <2>2. result[r] \in Shared(r)
    BY <2>1 DEF Shared
  <2>3. ~Punctual(lock[r])
    BY <2>1 DEF AnswerInv, PunctualGetOwn
  <2>4. PICK o \in Requests : lock[o] = lock[r] /\ Unpunctual(o)
    BY <2>3 DEF Punctual
  <2>5. o \in Shared(r) \cup {r}
    BY <2>1, <2>4 DEF Shared
  <2> QED  BY <2>2, <2>4, <2>5
<1> QED  BY <1>1, <1>2, <1>3, PTL DEF Spec

-----------------------------------------------------------------------------
(* An answer that has been handed over is still there when it is read *)

AloneHasAnswer ==
  \A r \in Requests :
    /\ hpc[r] \in {"set", "over"} /\ MessageId[r] # Null
    /\ pc[r] \in {"sent", "waiting", "awake"}
    /\ Shared(r) = {}
    => res[lock[r]] = r

(* Only r's own answer and r's own clear write to a lock that r alone had.  *)
LEMMA AloneStep ==
  ASSUME OwnKeys, AnswerInv, AnswerInv', AloneHasAnswer, [Next]_vars
  PROVE  AloneHasAnswer'
<1> SUFFICES ASSUME NEW r \in Requests, hpc'[r] \in {"set", "over"}, MessageId[r] # Null,
                    pc'[r] \in {"sent", "waiting", "awake"}, Shared(r)' = {}
             PROVE  res'[lock'[r]] = r
  BY DEF AloneHasAnswer
<1>0. TypeOK /\ TypeOK'
  BY DEF AnswerInv, HolderInv
<1> USE RequestsAssumption DEF Goto, HGoto, requester, handler, context, fields
<1>1. CASE /\ lock'[r] = lock[r] /\ hpc[r] \in {"set", "over"}
           /\ pc[r] \in {"sent", "waiting", "awake"}
           /\ res'[lock[r]] = res[lock[r]]
           /\ \A o \in Requests : lock[o] # Null => lock'[o] = lock[o]
  <2>1. lock[r] # Null
    BY <1>0, <1>1 DEF TypeOK
  <2>2. Shared(r) = {}
    BY <1>1, <2>1 DEF Shared
  <2> QED  BY <1>1, <2>2 DEF AloneHasAnswer
<1>2. ASSUME NEW q \in Requests, NEW l \in Locks, Take(q, l), MayAdd(q) PROVE res'[lock'[r]] = r
  <2>1. q # r /\ lock[q] = Null
    <3>1. hpc[q] = "none" /\ lock[q] = Null /\ hpc' = hpc
      BY <1>2 DEF AnswerInv, KeysLeadToLock, MayAdd, Sent, Take
    <3> QED  BY <3>1
  <2> QED  BY <1>0, <1>1, <1>2, <2>1 DEF Take, TypeOK
<1>3. ASSUME NEW q \in Requests, CreateCached(q) \/ CreateUncached(q) \/ Reuse(q)
      PROVE  res'[lock'[r]] = r
  <2>1. CASE CreateCached(q) \/ CreateUncached(q)
    BY <1>2, <2>1 DEF CreateCached, CreateUncached, Locks
  <2>2. CASE Reuse(q)
    <3>1. Head(freeList) \in Locks
      BY <1>0, <2>2 DEF Reuse, TypeOK
    <3> QED  BY <1>2, <2>2, <3>1 DEF Reuse
  <2> QED  BY <1>3, <2>1, <2>2
<1>4. ASSUME NEW q \in Requests, PutAndSend(q) PROVE res'[lock'[r]] = r
  <2>1. hpc[q] = "none"
    BY <1>4 DEF PutAndSend, AnswerInv, KeysLeadToLock, Sent
  <2> QED  BY <1>0, <1>1, <1>4, <2>1 DEF PutAndSend, TypeOK
<1>5. ASSUME NEW q \in Requests, Refuse(q) \/ PutThrows(q) \/ Await(q) \/ AwaitTimedOut(q)
                                  \/ GetRes(q) \/ ClearUsed(q)
      PROVE  res'[lock'[r]] = r
  BY <1>0, <1>1, <1>5 DEF Refuse, PutThrows, Await, AwaitTimedOut, GetRes, ClearUsed, TypeOK, MayAdd
<1>6. ASSUME NEW q \in Requests, ClearRes(q) PROVE res'[lock'[r]] = r
  <2>1. /\ pc[q] = "cleared" /\ pc' = [pc EXCEPT ![q] = "done"]
        /\ res' = [res EXCEPT ![lock[q]] = Null] /\ UNCHANGED <<lock, hpc>>
    BY <1>6 DEF ClearRes
  <2>2. q # r /\ lock[q] # lock[r]
    BY <1>0, <2>1 DEF Shared, TypeOK
  <2> QED  BY <1>0, <1>1, <2>1, <2>2 DEF TypeOK
<1>7. ASSUME NEW q \in Requests, IgnoreAnswer(q) \/ LookUp(q) \/ Free(q) PROVE res'[lock'[r]] = r
  BY <1>0, <1>1, <1>7 DEF IgnoreAnswer, LookUp, Free, TypeOK
<1>8. ASSUME NEW q \in Requests, RemoveKey(q) PROVE res'[lock'[r]] = r
  <2>1. hpc[q] = "freed" /\ found[q] = lock[q] /\ Sent(q)
    BY <1>8 DEF RemoveKey, AnswerInv, KeysLeadToLock
  <2>2. hpc'[q] = "removed"
    BY <1>0, <1>8, <2>1 DEF RemoveKey, TypeOK, Sent
  <2> QED  BY <1>0, <1>1, <1>8, <2>2 DEF RemoveKey, TypeOK
<1>9. ASSUME NEW q \in Requests, SetRes(q) PROVE res'[lock'[r]] = r
  <2>1. /\ hpc[q] = "removed" /\ hpc' = [hpc EXCEPT ![q] = "set"] /\ found[q] = lock[q]
        /\ lock[q] \in Locks /\ res' = [res EXCEPT ![lock[q]] = q] /\ UNCHANGED <<lock, pc>>
    <3>1. hpc[q] = "removed" /\ found[q] # Null
      BY <1>0, <1>9 DEF SetRes, TypeOK
    <3>2. found[q] = lock[q]
      BY <3>1 DEF AnswerInv, KeysLeadToLock
    <3>3. lock[q] \in Locks
      BY <1>0, <3>1, <3>2 DEF TypeOK
    <3> QED  BY <1>9, <3>1, <3>2, <3>3 DEF SetRes
  <2>2. CASE q = r
    BY <1>0, <2>1, <2>2 DEF TypeOK
  <2>3. CASE q # r
    <3>1. lock[q] # lock[r]
      BY <2>1, <2>3 DEF Shared, Locks
    <3> QED  BY <1>0, <1>1, <2>1, <2>3, <3>1 DEF TypeOK
  <2> QED  BY <2>2, <2>3
<1>10. ASSUME NEW q \in Requests, Signal(q) PROVE res'[lock'[r]] = r
  BY <1>0, <1>1, <1>10 DEF Signal, TypeOK
<1>11. CASE UNCHANGED vars
  BY <1>1, <1>11 DEF vars
<1> QED
  BY <1>3, <1>4, <1>5, <1>6, <1>7, <1>8, <1>9, <1>10, <1>11 DEF Next, AddKey, Wait, Handle, Finished

(* Under random keys: whoever is woken by its answer, late or not, finds it  *)
(* in its lock, unless the pool has given the lock to another one.           *)
THEOREM AnswersAreThere == ASSUME OwnKeys PROVE Spec => []AnsweredHasAnswer
<1>1. Init => AnswerInv /\ AloneHasAnswer
  BY AnswerInit DEF Init, AloneHasAnswer
<1>2. AnswerInv /\ AloneHasAnswer /\ [Next]_vars => AnswerInv' /\ AloneHasAnswer'
  BY AnswerStep, AloneStep
<1>3. AloneHasAnswer => AnsweredHasAnswer
  BY DEF AloneHasAnswer, AnsweredHasAnswer
<1> QED  BY <1>1, <1>2, <1>3, PTL DEF Spec

-----------------------------------------------------------------------------
(* addKey throws only at the limit *)

LEMMA UnreturnedHasLock ==
  ASSUME TypeOK, NEW o \in Unreturned PROVE lock[o] # Null
BY DEF TypeOK, Unreturned

LEMMA PoolInit == Init => PoolAccountedFor
BY DEF Init, PoolAccountedFor

(* A lock comes out of freeList into the hands of a request, and back when   *)
(* the answer to that request is looked up: clearKey finds the lock under    *)
(* the request's own key.                                                    *)
LEMMA PoolStep ==
  ASSUME OwnKeys, AnswerInv, TypeOK', PoolAccountedFor, [Next]_vars
  PROVE  PoolAccountedFor'
<1>0. TypeOK /\ TypeOK'
  BY DEF AnswerInv, HolderInv
<1> DEFINE Freed(l) == \E i \in DOMAIN freeList : freeList[i] = l
           Held(l) == \E o \in Unreturned : lock[o] = l
<1> SUFFICES ASSUME NEW l \in cacheList' PROVE Freed(l)' \/ Held(l)'
  BY DEF PoolAccountedFor
<1> USE DEF Goto, HGoto, requester, handler, context, fields
<1>1. CASE /\ cacheList' = cacheList /\ freeList' = freeList
           /\ \A o \in Requests : lock[o] # Null => lock'[o] = lock[o]
           /\ Unreturned \subseteq Unreturned'
  <2>1. l \in cacheList /\ (Freed(l) => Freed(l)')
    BY <1>1
  <2>2. ASSUME Held(l) PROVE Held(l)'
    <3>1. PICK o \in Unreturned : lock[o] = l
      BY <2>2
    <3>2. o \in Requests /\ lock[o] # Null
      BY <1>0, UnreturnedHasLock DEF Unreturned
    <3>3. o \in Unreturned' /\ lock'[o] = l
      BY <1>1, <3>1, <3>2
    <3> QED  BY <3>3
  <2> QED  BY <2>1, <2>2 DEF PoolAccountedFor
<1> HIDE DEF Freed, Held
<1>2. ASSUME NEW r \in Requests, NEW k \in Locks, Take(r, k), MayAdd(r)
      PROVE  /\ r \in Unreturned' /\ lock'[r] = k
             /\ Unreturned \subseteq Unreturned'
             /\ (Held(l) => Held(l)')
             /\ \A o \in Requests : lock[o] # Null => lock'[o] = lock[o]
  <2>1. hpc[r] = "none" /\ lock[r] = Null /\ pc[r] = "start"
    BY <1>2 DEF AnswerInv, KeysLeadToLock, MayAdd, Sent
  <2>2. r \in Unreturned' /\ lock'[r] = k
    BY <1>0, <1>2, <2>1 DEF Take, TypeOK, Unreturned
  <2>3. \A o \in Requests : lock[o] # Null => lock'[o] = lock[o]
    BY <1>0, <1>2, <2>1 DEF Take, TypeOK
  <2>4. Unreturned \subseteq Unreturned'
    BY <1>0, <1>2, <2>1 DEF Take, TypeOK, Unreturned
  <2>5. Held(l) => Held(l)'
    BY <1>0, <2>3, <2>4, UnreturnedHasLock DEF Held, Unreturned
  <2> QED  BY <2>2, <2>3, <2>4, <2>5
<1>3. ASSUME NEW r \in Requests, CreateCached(r) PROVE Freed(l)' \/ Held(l)'
  <2>1. r \in Unreturned' /\ lock'[r] = r /\ (Held(l) => Held(l)')
    BY <1>2, <1>3 DEF CreateCached, Locks
  <2>2. CASE l = r
    BY <2>1, <2>2 DEF Held
  <2>3. CASE l # r
    <3>1. l \in cacheList /\ freeList' = freeList
      BY <1>3, <2>3 DEF CreateCached
    <3> QED  BY <2>1, <3>1 DEF PoolAccountedFor, Freed, Held
  <2> QED  BY <2>2, <2>3
<1>4. ASSUME NEW r \in Requests, CreateUncached(r) PROVE Freed(l)' \/ Held(l)'
  <2>1. Take(r, r) /\ MayAdd(r) /\ r \in Locks /\ cacheList' = cacheList /\ freeList' = freeList
    BY <1>4 DEF CreateUncached, Locks
  <2> QED  BY <1>1, <1>2, <2>1
<1>5. ASSUME NEW r \in Requests, Reuse(r) PROVE Freed(l)' \/ Held(l)'
  <2>1. /\ Head(freeList) \in Locks /\ freeList[1] = Head(freeList)
        /\ \A i \in DOMAIN freeList : i = 1 \/ (i - 1 \in DOMAIN freeList'
                                               /\ freeList'[i - 1] = freeList[i])
    BY <1>0, <1>5 DEF Reuse, TypeOK
  <2>2. r \in Unreturned' /\ lock'[r] = Head(freeList) /\ (Held(l) => Held(l)')
    BY <1>2, <1>5, <2>1 DEF Reuse
  <2>3. l \in cacheList
    BY <1>5 DEF Reuse
  <2>4. CASE Freed(l)
    <3>1. PICK i \in DOMAIN freeList : freeList[i] = l
      BY <2>4 DEF Freed
    <3> QED  BY <2>1, <2>2, <3>1 DEF Freed, Held
  <2> QED  BY <2>2, <2>3, <2>4 DEF PoolAccountedFor, Freed, Held
<1>6. ASSUME NEW r \in Requests, Free(r) PROVE Freed(l)' \/ Held(l)'
  <2>1. /\ l \in cacheList /\ UNCHANGED <<pc, lock>> /\ hpc[r] = "found"
        /\ hpc' = [hpc EXCEPT ![r] = "freed"]
        /\ map[MessageId[r]] = lock[r]
    <3>1. hpc[r] = "found" /\ MessageId[r] = Key[r] /\ Sent(r)
      BY <1>0, <1>6 DEF Free, TypeOK, OwnKeys, AnswerInv, KeysLeadToLock
    <3> QED  BY <1>6, <3>1 DEF Free, AnswerInv, KeysLeadToLock
  <2>2. CASE Freed(l)
    <3>1. PICK i \in DOMAIN freeList : freeList[i] = l
      BY <2>2 DEF Freed
    <3>2. i \in DOMAIN freeList' /\ freeList'[i] = l
      BY <1>0, <1>6, <3>1 DEF Free, TypeOK
    <3> QED  BY <3>2 DEF Freed
  <2>3. ASSUME NEW o \in Unreturned, lock[o] = l, o # r PROVE Held(l)'
    <3>1. o \in Unreturned' /\ lock'[o] = l
      BY <1>0, <2>1, <2>3 DEF Unreturned, TypeOK
    <3> QED  BY <3>1 DEF Held
  <2>4. CASE lock[r] = l
    <3>1. freeList' = Append(freeList, l)
      BY <1>6, <2>1, <2>4 DEF Free
    <3>2. Len(freeList) + 1 \in DOMAIN freeList' /\ freeList'[Len(freeList) + 1] = l
      BY <1>0, <2>1, <3>1 DEF TypeOK
    <3> QED  BY <3>2 DEF Freed
  <2> QED  BY <2>1, <2>2, <2>3, <2>4 DEF PoolAccountedFor, Freed, Held
<1>7. ASSUME NEW r \in Requests,
             \/ Refuse(r) \/ PutThrows(r) \/ PutAndSend(r) \/ Await(r) \/ AwaitTimedOut(r) \/ GetRes(r)
             \/ ClearUsed(r) \/ ClearRes(r) \/ IgnoreAnswer(r) \/ LookUp(r) \/ RemoveKey(r)
             \/ SetRes(r) \/ Signal(r)
      PROVE  Freed(l)' \/ Held(l)'
  <2>1. UNCHANGED <<lock, cacheList, freeList>>
    BY <1>7 DEF Refuse, PutThrows, PutAndSend, Await, AwaitTimedOut, GetRes, ClearUsed, ClearRes, IgnoreAnswer,
                LookUp, RemoveKey, SetRes, Signal
  <2>2. \A o \in Requests : pc[o] \notin {"start", "refused"} => pc'[o] \notin {"start", "refused"}
    BY <1>0, <1>7 DEF Refuse, PutThrows, PutAndSend, Await, AwaitTimedOut, GetRes, ClearUsed, ClearRes,
                IgnoreAnswer, LookUp, RemoveKey, SetRes, Signal, MayAdd, TypeOK
  <2>3. \A o \in Requests : hpc[o] \in {"none", "found"} =>
                              hpc'[o] \in {"none", "found"} \/ MessageId[o] = Null
    BY <1>0, <1>7 DEF Refuse, PutThrows, PutAndSend, Await, AwaitTimedOut, GetRes, ClearUsed, ClearRes,
                IgnoreAnswer, LookUp, RemoveKey, SetRes, Signal, TypeOK
  <2>4. Unreturned \subseteq Unreturned'
    BY <2>2, <2>3 DEF Unreturned
  <2> QED  BY <1>1, <2>1, <2>4
<1>8. CASE UNCHANGED vars
  BY <1>1, <1>8 DEF vars, Unreturned
<1> QED
  BY <1>3, <1>4, <1>5, <1>6, <1>7, <1>8 DEF Next, AddKey, Wait, Handle, Finished

(* With nothing free, such requests have all the pooled locks. *)
LEMMA NothingFree ==
  ASSUME TypeOK, PoolAccountedFor, freeList = <<>>
  PROVE  Cardinality(cacheList) <= Cardinality(Unreturned)
<1> DEFINE T == {lock[o] : o \in Unreturned}
           f == [o \in Unreturned |-> lock[o]]
<1>1. IsFiniteSet(Unreturned) /\ Unreturned \in SUBSET Requests
  BY RequestsAssumption, FS_Subset DEF Unreturned
<1>2. f \in Surjection(Unreturned, T)
  BY DEF Surjection
<1>3. IsFiniteSet(T) /\ Cardinality(T) <= Cardinality(Unreturned)
  BY <1>1, <1>2, FS_Surjection
<1>4. cacheList \in SUBSET T
  BY DEF PoolAccountedFor
<1>5. IsFiniteSet(cacheList) /\ Cardinality(cacheList) <= Cardinality(T)
  BY <1>3, <1>4, FS_Subset
<1>6. /\ Cardinality(cacheList) \in Nat /\ Cardinality(T) \in Nat
      /\ Cardinality(Unreturned) \in Nat
  BY <1>1, <1>3, <1>5, FS_CardinalityType
<1> QED  BY <1>3, <1>5, <1>6

LEMMA RefusedStep ==
  ASSUME TypeOK, PoolAccountedFor, [Next]_vars, NEW r \in Requests,
         pc[r] # "refused", pc'[r] = "refused"
  PROVE  Cardinality(Unreturned) >= CacheSize
<1>1. Refuse(r)
  BY DEF Next, AddKey, Wait, Handle, Finished, CreateCached, Reuse, CreateUncached, Take, Refuse,
         PutThrows, PutAndSend, Await, AwaitTimedOut, GetRes, ClearUsed, ClearRes, IgnoreAnswer, LookUp, Free,
         RemoveKey, SetRes, Signal, Goto, requester, vars, TypeOK
<1>2. freeList = <<>> /\ Cardinality(cacheList) >= CacheSize
  BY <1>1 DEF Refuse, CacheFull
<1>3. Cardinality(cacheList) <= Cardinality(Unreturned)
  BY <1>2, NothingFree
<1>4. IsFiniteSet(Unreturned) /\ IsFiniteSet(cacheList)
  BY RequestsAssumption, FS_Subset DEF Unreturned, TypeOK, Locks
<1>5. Cardinality(cacheList) \in Nat /\ Cardinality(Unreturned) \in Nat /\ CacheSize \in Nat
  BY <1>4, FS_CardinalityType, RequestsAssumption
<1> QED  BY <1>2, <1>3, <1>5

(* Under random keys, the pool loses no lock but those of requests whose     *)
(* answer never comes or that threw for want of a group id: addKey finds freeList *)
(* empty only when as many locks as are pooled are out for such requests or  *)
(* for answers still to come.                                                *)
THEOREM RefusalsAreAtTheLimit == ASSUME OwnKeys PROVE Spec => RefusedOnlyAtLimit
<1>1. Init => AnswerInv /\ PoolAccountedFor
  BY AnswerInit, PoolInit
<1>2. AnswerInv /\ PoolAccountedFor /\ [Next]_vars => AnswerInv' /\ PoolAccountedFor'
  BY AnswerStep, PoolStep DEF AnswerInv, HolderInv
<1>3. AnswerInv /\ PoolAccountedFor /\ [Next]_vars =>
        [\A r \in Requests : pc[r] # "refused" /\ pc'[r] = "refused" =>
           Cardinality(Unreturned) >= CacheSize]_vars
  BY RefusedStep DEF AnswerInv, HolderInv
<1> QED  BY <1>1, <1>2, <1>3, PTL DEF Spec, RefusedOnlyAtLimit
=============================================================================
