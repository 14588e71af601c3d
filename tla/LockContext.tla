---------------------------- MODULE LockContext ----------------------------
(***************************************************************************)
(* How a thread waits for the answer to a message: it registers a Lock     *)
(* under a key (LockContext.addKey), sends the message, waits on the lock, *)
(* reads the answer and clears the lock.  A Netty thread that receives an  *)
(* answer takes the lock registered under the answer's messageId out of    *)
(* the map (LockContext.getKey), hands over the answer and signals.  Locks *)
(* are pooled: the first CacheSize of them come back through freeList.     *)
(*                                                                         *)
(* Each request is made once, by a thread of its own, and is answered at   *)
(* most once.  The lock a request creates, if it creates one, and the      *)
(* answer to it are both named after the request.                          *)
(***************************************************************************)
EXTENDS Naturals, Sequences, FiniteSets

CONSTANTS Requests,
          Key,        \* Key[r] is the key r registers its lock under
          Creates,    \* requests whose key is the group id, which may be null
                      \* because none has been fetched yet
          MessageId,  \* MessageId[r] is the id r's answer carries, Null if none
          CacheSize,  \* locks that are pooled; 1024 in the code
          Slow,       \* requests whose time may be up before the answer is there
          Joins,      \* joiners waiting for the commit event: they never clear
          Null

Keys  == ({Key[r] : r \in Requests} \cup {MessageId[r] : r \in Requests}) \ {Null}
Locks == Requests

ASSUME RequestsAssumption ==
  /\ Null \notin Requests /\ IsFiniteSet(Requests)
  /\ Key \in [Requests -> Keys]
  /\ MessageId \in [Requests -> Keys \cup {Null}]
  /\ CacheSize \in Nat
  /\ Creates \subseteq Requests /\ Slow \subseteq Requests /\ Joins \subseteq Requests

VARIABLES
  pc,         \* where each requesting thread is
  lock,       \* the lock it was given
  result,     \* what its call of getRes returned
  hpc,        \* where the Netty thread with the answer to each request is
  found,      \* the lock its map.get returned
  map,        \* LockContext.map
  cacheList,  \* LockContext.cacheList
  freeList,   \* LockContext.freeList
  used, res   \* the locks whose used flag is set, and the res field of each

requester == <<pc, lock, result>>
handler   == <<hpc, found>>
context   == <<map, cacheList, freeList>>
fields    == <<used, res>>
vars      == <<pc, lock, result, hpc, found, map, cacheList, freeList, used, res>>

Init ==
  /\ pc     = [r \in Requests |-> "start"]
  /\ lock   = [r \in Requests |-> Null]
  /\ result = [r \in Requests |-> Null]
  /\ hpc    = [r \in Requests |-> "none"]
  /\ found  = [r \in Requests |-> Null]
  /\ map    = [k \in Keys |-> Null]
  /\ cacheList = {} /\ freeList = <<>>
  /\ used = {} /\ res = [l \in Locks |-> Null]

Goto(r, l)  == pc'  = [pc  EXCEPT ![r] = l]
HGoto(r, l) == hpc' = [hpc EXCEPT ![r] = l]

-----------------------------------------------------------------------------
(* The requesting thread.  addKey is synchronized: one thread at a time is *)
(* between taking a lock and putting it in the map.                        *)

Take(r, l) ==
  /\ lock' = [lock EXCEPT ![r] = l]
  /\ used' = used \cup {l}
  /\ Goto(r, "adding")
  /\ UNCHANGED <<result, handler, map, res>>

MayAdd(r) == pc[r] = "start" /\ \A o \in Requests : pc[o] # "adding"

CacheFull == Cardinality(cacheList) >= CacheSize

CreateCached(r) ==
  /\ MayAdd(r) /\ ~CacheFull
  /\ Take(r, r)
  /\ cacheList' = cacheList \cup {r}
  /\ UNCHANGED freeList

(* Mutant: a free lock is reused without looking at its used flag. *)
ReuseUsed(r) ==
  /\ MayAdd(r) /\ CacheFull /\ freeList # <<>>
  /\ Take(r, Head(freeList))
  /\ freeList' = Tail(freeList)
  /\ UNCHANGED cacheList

Reuse(r) ==
  /\ MayAdd(r) /\ CacheFull /\ freeList # <<>> /\ Head(freeList) \notin used
  /\ Take(r, Head(freeList))
  /\ freeList' = Tail(freeList)
  /\ UNCHANGED cacheList

(* The first free lock is still in use: a lock that is not pooled. *)
CreateUncached(r) ==
  /\ MayAdd(r) /\ CacheFull /\ freeList # <<>> /\ Head(freeList) \in used
  /\ Take(r, r)
  /\ UNCHANGED <<cacheList, freeList>>

(* Mutant: an empty list is not noticed, and null is registered. *)
RefuseUnnoticed(r) ==
  /\ MayAdd(r) /\ CacheFull /\ freeList = <<>>
  /\ Goto(r, "adding")
  /\ UNCHANGED <<lock, result, handler, context, fields>>

(* getFirst on an empty list throws out of addKey. *)
Refuse(r) ==
  /\ MayAdd(r) /\ CacheFull /\ freeList = <<>>
  /\ Goto(r, "refused")
  /\ UNCHANGED <<lock, result, handler, context, fields>>

(* The map takes no null key: addKey throws, and the lock it has taken is   *)
(* neither registered nor cleared.                                          *)
PutThrows(r) ==
  /\ pc[r] = "adding" /\ r \in Creates
  /\ Goto(r, "threw")
  /\ UNCHANGED <<lock, result, handler, context, fields>>

(* The lock is in the map, then the message is written. *)
PutAndSend(r) ==
  /\ pc[r] = "adding"
  /\ map' = [map EXCEPT ![Key[r]] = lock[r]]
  /\ Goto(r, "sent")
  /\ UNCHANGED <<lock, result, handler, cacheList, freeList, fields>>

Await(r) ==
  /\ pc[r] = "sent"
  /\ Goto(r, "waiting")
  /\ UNCHANGED <<lock, result, handler, context, fields>>

(* Mutant: the wait is not timed. *)
AwaitUntimed(r) == pc[r] = "waiting" /\ UNCHANGED vars

(* The time is up, for a request that is not Slow only after its answer    *)
(* has been handled.                                                       *)
AwaitTimedOut(r) ==
  /\ pc[r] = "waiting"
  /\ r \in Slow \/ hpc[r] = "over"
  /\ Goto(r, "awake")
  /\ UNCHANGED <<lock, result, handler, context, fields>>

GetRes(r) ==
  /\ pc[r] = "awake"
  /\ result' = [result EXCEPT ![r] = res[lock[r]]]
  /\ Goto(r, IF r \in Joins THEN "done" ELSE "clearing")
  /\ UNCHANGED <<lock, handler, context, fields>>

(* Lock.clear writes its two fields one after the other. *)
ClearUsed(r) ==
  /\ pc[r] = "clearing"
  /\ used' = used \ {lock[r]}
  /\ Goto(r, "cleared")
  /\ UNCHANGED <<lock, result, handler, context, res>>

ClearRes(r) ==
  /\ pc[r] = "cleared"
  /\ res' = [res EXCEPT ![lock[r]] = Null]
  /\ Goto(r, "done")
  /\ UNCHANGED <<lock, result, handler, context, used>>

-----------------------------------------------------------------------------
(* The Netty thread that handles the answer to request r (AbsMessage.handle *)
(* and LockContext.getKey, which takes no monitor).                         *)

Sent(r) == pc[r] \notin {"start", "adding", "refused", "threw"}

(* An answer without a messageId wakes nobody. *)
IgnoreAnswer(r) ==
  /\ hpc[r] = "none" /\ Sent(r)
  /\ MessageId[r] = Null
  /\ HGoto(r, "over")
  /\ UNCHANGED <<requester, found, context, fields>>

LookUp(r) ==
  /\ hpc[r] = "none" /\ Sent(r)
  /\ MessageId[r] # Null
  /\ found' = [found EXCEPT ![r] = map[MessageId[r]]]
  /\ HGoto(r, "found")
  /\ UNCHANGED <<requester, context, fields>>

(* Mutant: clearKey removes the key and does not give the lock back. *)
FreeNothing(r) ==
  /\ hpc[r] = "found"
  /\ HGoto(r, "freed")
  /\ UNCHANGED <<requester, found, context, fields>>

(* clearKey: a second map.get, and a pooled lock goes back to freeList,    *)
(* although its requester has not read the answer yet.                     *)
Free(r) ==
  /\ hpc[r] = "found"
  /\ freeList' = IF map[MessageId[r]] \in cacheList
                 THEN Append(freeList, map[MessageId[r]]) ELSE freeList
  /\ HGoto(r, "freed")
  /\ UNCHANGED <<requester, found, map, cacheList, fields>>

RemoveKey(r) ==
  /\ hpc[r] = "freed"
  /\ map' = [map EXCEPT ![MessageId[r]] = Null]
  /\ HGoto(r, IF found[r] = Null THEN "over" ELSE "removed")
  /\ UNCHANGED <<requester, found, cacheList, freeList, fields>>

(* Mutant: the waiter is woken without its answer. *)
SetResNot(r) ==
  /\ hpc[r] = "removed"
  /\ HGoto(r, "set")
  /\ UNCHANGED <<requester, found, context, fields>>

SetRes(r) ==
  /\ hpc[r] = "removed"
  /\ res' = [res EXCEPT ![found[r]] = r]
  /\ HGoto(r, "set")
  /\ UNCHANGED <<requester, found, context, used>>

(* Whoever waits on the lock now is woken; without a waiter nothing happens. *)
Signal(r) ==
  /\ hpc[r] = "set"
  /\ pc' = [o \in Requests |-> IF pc[o] = "waiting" /\ lock[o] = found[r]
                               THEN "awake" ELSE pc[o]]
  /\ HGoto(r, "over")
  /\ UNCHANGED <<lock, result, found, context, fields>>

-----------------------------------------------------------------------------
AddKey(r) ==
  CreateCached(r) \/ Reuse(r) \/ CreateUncached(r) \/ Refuse(r) \/ PutThrows(r) \/ PutAndSend(r)

Wait(r) == Await(r) \/ AwaitTimedOut(r) \/ GetRes(r) \/ ClearUsed(r) \/ ClearRes(r)

Handle(r) == IgnoreAnswer(r) \/ LookUp(r) \/ Free(r) \/ RemoveKey(r) \/ SetRes(r) \/ Signal(r)

Finished == /\ \A r \in Requests : /\ pc[r] \in {"refused", "threw", "done"}
                                   /\ Sent(r) => hpc[r] = "over"
            /\ UNCHANGED vars

Next == (\E r \in Requests : AddKey(r) \/ Wait(r) \/ Handle(r)) \/ Finished

Spec == Init /\ [][Next]_vars

(* Threads run and a timed wait ends; the answer to a request that is not   *)
(* Slow comes and is handled, that to a Slow one may never come.           *)
FairSpec == /\ Spec
            /\ \A r \in Requests : WF_vars(AddKey(r) \/ Wait(r))
            /\ \A r \in Requests \ Slow : WF_vars(Handle(r))

-----------------------------------------------------------------------------
PcStates == {"start", "adding", "refused", "threw", "sent", "waiting", "awake",
             "clearing", "cleared", "done"}

(* Every variable holds a value the code can give it, and a thread that has *)
(* registered has a lock.                                                   *)
TypeOK ==
  /\ pc \in [Requests -> PcStates]
  /\ lock \in [Requests -> Locks \cup {Null}]
  /\ result \in [Requests -> Requests \cup {Null}]
  /\ hpc \in [Requests -> {"none", "found", "freed", "removed", "set", "over"}]
  /\ found \in [Requests -> Locks \cup {Null}]
  /\ map \in [Keys -> Locks \cup {Null}]
  /\ cacheList \subseteq Locks
  /\ freeList \in Seq(Locks)
  /\ used \subseteq Locks
  /\ res \in [Locks -> Requests \cup {Null}]
  /\ \A r \in Requests : pc[r] \notin {"start", "refused"} => lock[r] # Null
  /\ \A r \in Requests : hpc[r] \in {"removed", "set"} => found[r] # Null
  /\ \A r \in Requests : hpc[r] \in {"found", "freed"} => MessageId[r] # Null

Holds(r) == pc[r] \in {"adding", "sent", "waiting", "awake", "clearing"}

(* A lock comes back to the pool while its requester still waits on it, and *)
(* may be in freeList twice; still no two requesters ever hold the same one *)
(* between addKey and clear.                                                *)
OneHolder == \A a, b \in Requests : Holds(a) /\ Holds(b) /\ lock[a] = lock[b] => a = b

Shared(r) == {o \in Requests \ {r} : lock[o] # Null /\ lock[o] = lock[r]}

(* A request that may stop waiting before its answer has been handled. *)
Unpunctual(r) == r \in Slow \/ MessageId[r] = Null

(* A request gets the answer to its own message.  Where it gets another     *)
(* one's, that one had the same lock from the pool before, and one of the   *)
(* requests that had it stopped waiting too early.                          *)
AnswerIsOwn ==
  \A r \in Requests : result[r] \in {Null, r} \/
    /\ result[r] \in Shared(r)
    /\ \E o \in Shared(r) \cup {r} : Unpunctual(o)

(* A request whose answer has been handled, whose lock is not a reused one  *)
(* and which has not read it yet finds the answer there, however addKey,    *)
(* getKey and clear interleave.                                             *)
AnsweredHasAnswer ==
  \A r \in Requests :
    /\ hpc[r] = "over" /\ MessageId[r] # Null
    /\ pc[r] \in {"sent", "waiting", "awake"}
    /\ Shared(r) = {}
    => res[lock[r]] = r

(* AbsMessage.handle is there to wake the thread that waits for the message. *)
(* The code does not always do it: an answer without a messageId wakes       *)
(* nobody, and a signal that comes before the wait is lost.                  *)
AnsweredIsAwake == \A r \in Requests : hpc[r] = "over" => pc[r] # "waiting"

(* Requests whose lock has not come back to the pool: the answer has not    *)
(* been looked up or never will be, or there will be none because the       *)
(* request had no key and threw.                                            *)
Unreturned == {r \in Requests : /\ pc[r] \notin {"start", "refused"}
                                /\ hpc[r] \in {"none", "found"} \/ MessageId[r] = Null}

(* addKey throws only when as many locks as are pooled are out for answers  *)
(* that have not come or were lost to requests without a key: no other lock *)
(* is lost for the pool.                                                    *)
RefusedOnlyAtLimit ==
  [][\A r \in Requests : pc[r] # "refused" /\ pc'[r] = "refused" =>
       Cardinality(Unreturned) >= CacheSize]_vars

(* Every thread that registers comes to its end, signal or no signal.       *)
EveryRequestEnds == <>(\A r \in Requests : pc[r] \in {"refused", "threw", "done"})

-----------------------------------------------------------------------------
(* The inductive invariants behind OneHolder, AnswerIsOwn, RefusedOnlyAtLimit. *)

(* The lock named after a request exists only once the request created it. *)
Fresh == \A r \in Requests : pc[r] = "start" =>
           /\ r \notin cacheList
           /\ \A o \in Requests : lock[o] # r
           /\ \A i \in DOMAIN freeList : freeList[i] # r

HeldIsUsed == \A r \in Requests : Holds(r) => lock[r] \in used

HolderInv == TypeOK /\ Fresh /\ HeldIsUsed /\ OneHolder

(* Random keys: no two requests wait under the same one. *)
OwnKeys == /\ \A a, b \in Requests : Key[a] = Key[b] => a = b
           /\ \A r \in Requests : MessageId[r] \in {Key[r], Null}

(* A request's key leads to the lock it was given, until its answer has     *)
(* been looked up and the lock given back.                                  *)
KeysLeadToLock ==
  \A r \in Requests :
    /\ pc[r] \in {"start", "refused"} => lock[r] = Null
    /\ ~Sent(r) => hpc[r] = "none" /\ map[Key[r]] = Null
    /\ map[Key[r]] \in {Null, lock[r]}
    /\ Sent(r) /\ hpc[r] \in {"none", "found"} => map[Key[r]] = lock[r]
    /\ hpc[r] \in {"found", "freed", "removed", "set"} => found[r] = lock[r]

(* An answer is only ever seen by requests that had its request's lock. *)
AnswersStayOnLock ==
  /\ \A l \in Locks : res[l] # Null => lock[res[l]] = l
  /\ \A r \in Requests : result[r] # Null => lock[r] # Null /\ lock[result[r]] = lock[r]

Punctual(l) == \A o \in Requests : lock[o] = l => ~Unpunctual(o)

(* On a lock that had only punctual holders, nobody wakes before its answer *)
(* has been handled, and so nobody finds another's.                         *)
PunctualGetOwn ==
  \A r \in Requests : lock[r] # Null /\ Punctual(lock[r]) =>
    /\ pc[r] \in {"awake", "clearing", "cleared", "done"} => hpc[r] = "over"
    /\ hpc[r] \in {"set", "over"} /\ pc[r] \in {"sent", "waiting", "awake"} =>
         res[lock[r]] \in {Null, r}
    /\ result[r] \in {Null, r}

AnswerInv == HolderInv /\ KeysLeadToLock /\ AnswersStayOnLock /\ PunctualGetOwn

(* Every pooled lock is free, or a request has not returned it. *)
PoolAccountedFor ==
  \A l \in cacheList : \/ \E i \in DOMAIN freeList : freeList[i] = l
                       \/ \E o \in Unreturned : lock[o] = l
=============================================================================
