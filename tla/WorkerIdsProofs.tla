-------------------------- MODULE WorkerIdsProofs --------------------------
(* Proofs about WorkerIds, for any TMs, pairs, periods and times to live. *)
EXTENDS WorkerIds, TLAPS

(* nextKey yields a pair. *)
LEMMA NextKeyIsPair ==
  ASSUME TypeOK, NEW t \in Tms, NextKey(t)
  PROVE  /\ snowflakeVo' \in [Tms -> 0 .. Keys]
         /\ stopTrying' \in [Tms -> BOOLEAN]
         /\ snowflakeVo'[t] \in Pairs
         /\ \A u \in Tms : u # t => snowflakeVo'[u] = snowflakeVo[u]
BY TimesAssumption DEF TypeOK, NextKey, Pairs

(* The three ways in which a record changes keep Redis well formed. *)
RedisOK ==
  /\ owner \in [Pairs -> Tms \cup {Nobody}]
  /\ age \in [Pairs -> Nat]
  /\ lease \in [Pairs -> Nat]
  /\ \A k \in Pairs : age[k] <= lease[k] /\ lease[k] <= LockExpire + Digits

LEMMA SetOK ==
  ASSUME RedisOK, NEW k \in Pairs, NEW t \in Tms, Set(k, t)
  PROVE  RedisOK'
BY TimesAssumption DEF RedisOK, Set, Leases

LEMMA DeleteOK ==
  ASSUME RedisOK, NEW k \in Pairs, Delete(k)
  PROVE  RedisOK'
BY TimesAssumption DEF RedisOK, Delete

LEMMA TickOK ==
  ASSUME RedisOK, Tick
  PROVE  RedisOK'
<1>1. owner' \in [Pairs -> Tms \cup {Nobody}]
  BY DEF RedisOK, Tick
<1>2. ASSUME NEW k \in Pairs
      PROVE  age'[k] \in Nat /\ lease'[k] \in Nat
             /\ age'[k] <= lease'[k] /\ lease'[k] <= LockExpire + Digits
  <2>1. CASE owner'[k] = Nobody
    BY <2>1, TimesAssumption DEF RedisOK, Tick
  <2>2. CASE owner'[k] # Nobody
    <3>1. ~Expires(k)  BY <2>2 DEF Tick
    <3>2. owner[k] # Nobody  BY <2>2 DEF Tick
    <3>3. age[k] < lease[k]  BY <3>1, <3>2 DEF Expires, RedisOK
    <3> QED  BY <2>2, <3>3 DEF RedisOK, Tick
  <2> QED  BY <2>1, <2>2
<1>3. age' \in [Pairs -> Nat] /\ lease' \in [Pairs -> Nat]
  BY <1>2 DEF Tick
<1> QED  BY <1>1, <1>2, <1>3 DEF RedisOK

(* What TypeOK says of the cron job and the pair of a TM. *)
LEMMA CronFacts ==
  ASSUME TypeOK, NEW t \in Tms
  PROVE  /\ due[t] => life[t] \in {"up", "stopping"}
         /\ read[t] # Nobody => life[t] \in {"up", "stopping"} /\ read[t] \in Tms
         /\ life[t] \notin {"down", "trying"} => snowflakeVo[t] \in Pairs
<1>1. due[t] => life[t] \in {"up", "stopping"}
  BY DEF TypeOK
<1>2. read[t] # Nobody => due[t]
  BY DEF TypeOK
<1>3. read[t] \in Tms \cup {Nobody} /\ snowflakeVo[t] \in 0 .. Keys
  BY DEF TypeOK
<1>4. life[t] \notin {"down", "trying"} => snowflakeVo[t] # 0
  BY DEF TypeOK
<1>5. snowflakeVo[t] # 0 => snowflakeVo[t] \in Pairs
  BY <1>3, TimesAssumption DEF Pairs
<1> QED  BY <1>1, <1>2, <1>3, <1>4, <1>5

LEMMA TypeInit == Init => TypeOK
BY TimesAssumption DEF Init, TypeOK, Pairs

LEMMA TypeStep == TypeOK /\ [Next]_vars => TypeOK'
<1> SUFFICES ASSUME TypeOK, Next PROVE TypeOK'
  BY DEF TypeOK, vars, procVars, redisVars, cronVars
<1>1. stray' \subseteq Tms
  BY DEF Next, Remember
<1>2. RedisOK
  BY DEF TypeOK, RedisOK
<1>3. \A t \in Tms : life[t] \notin {"down", "trying"} => snowflakeVo[t] \in Pairs
  BY TimesAssumption DEF TypeOK, Pairs
<1> USE DEF procVars, redisVars, cronVars
<1>4. ASSUME NEW t \in Tms, Start(t) PROVE TypeOK'
  BY <1>1, <1>4 DEF TypeOK, Start
<1>5. ASSUME NEW t \in Tms, TryInit(t) PROVE TypeOK'
  <2>1. NextKey(t)  BY <1>5 DEF TryInit
  <2>2. snowflakeVo' \in [Tms -> 0 .. Keys] /\ stopTrying' \in [Tms -> BOOLEAN]
        /\ snowflakeVo'[t] \in Pairs /\ snowflakeVo'[t] # 0
        /\ \A u \in Tms : u # t => snowflakeVo'[u] = snowflakeVo[u]
    BY <2>1, NextKeyIsPair DEF Pairs
  <2>3. RedisOK'
    <3>1. CASE Set(snowflakeVo'[t], t)  BY <3>1, <1>2, <2>2, SetOK
    <3>2. CASE UNCHANGED redisVars  BY <3>2, <1>2 DEF RedisOK
    <3> QED  BY <1>5, <3>1, <3>2 DEF TryInit
  <2>4. /\ life' \in [Tms -> {"down", "trying", "checking", "up", "stopping"}]
        /\ \A u \in Tms : u # t => life'[u] = life[u]
        /\ due' = due /\ read' = read /\ phase' = phase
    BY <1>5 DEF TryInit, TypeOK
  <2>5. ~due[t]
    <3>1. life[t] = "trying"  BY <1>5 DEF TryInit
    <3> QED  BY <3>1, CronFacts
  <2> QED  BY <1>1, <2>2, <2>3, <2>4, <2>5 DEF TypeOK, RedisOK
<1>6. ASSUME NEW t \in Tms, HasKey(t) PROVE TypeOK'
  BY <1>1, <1>6 DEF TypeOK, HasKey
<1>7. ASSUME NEW t \in Tms, GetNothing(t) PROVE TypeOK'
  BY <1>1, <1>7 DEF TypeOK, GetNothing
<1>8. ASSUME NEW t \in Tms, GetInfo(t) PROVE TypeOK'
  BY <1>1, <1>3, <1>8 DEF TypeOK, GetInfo
<1>9. ASSUME NEW t \in Tms, SetInfo(t) PROVE TypeOK'
  <2>1. read[t] # Nobody
    BY <1>9 DEF SetInfo
  <2>2. snowflakeVo[t] \in Pairs /\ read[t] \in Tms
    BY <2>1, CronFacts
  <2>3. RedisOK'
    BY <1>2, <1>9, <2>2, SetOK DEF SetInfo
  <2> QED  BY <1>1, <1>9, <2>3 DEF TypeOK, RedisOK, SetInfo
<1>10. ASSUME NEW t \in Tms, Destroy(t) PROVE TypeOK'
  <2>1. snowflakeVo[t] \in Pairs
    BY <1>3, <1>10 DEF Destroy
  <2>2. RedisOK'
    BY <1>2, <1>10, <2>1, DeleteOK DEF Destroy
  <2> QED  BY <1>1, <1>10, <2>2 DEF TypeOK, RedisOK, Destroy
<1>11. ASSUME NEW t \in Tms, Exit(t) PROVE TypeOK'
  <2>1. 0 \in 0 .. Keys  BY TimesAssumption
  <2>2. RedisOK'  BY <1>2, <1>11 DEF RedisOK, Exit
  <2> QED  BY <1>1, <1>11, <2>1, <2>2 DEF TypeOK, RedisOK, Exit
<1>12. CASE Tick
  <2>1. RedisOK'
    BY <1>2, <1>12, TickOK
  <2>2. phase' \in 0 .. Period - 1
    BY <1>12, TimesAssumption DEF Tick, TypeOK
  <2> QED  BY <1>1, <1>12, <2>1, <2>2 DEF TypeOK, RedisOK, Tick
<1> QED
  BY <1>4, <1>5, <1>6, <1>7, <1>8, <1>9, <1>10, <1>11, <1>12
     DEF Next, Step, Initiator, ResetExpire

(* TypeOK holds in every reachable state, whatever the bounds. *)
THEOREM WorkerIdsTypeCorrect == Spec => []TypeOK
BY TypeInit, TypeStep, PTL DEF Spec

-----------------------------------------------------------------------------
(* A TM that uses a pair and has not gone astray has a record of its own     *)
(* and a pair that no other such TM uses.                                    *)
LEMMA OwnPair ==
  ASSUME TypeOK, OwnRecordIsFresh, NEW s \in Tms \ stray, NEW t \in Tms \ stray,
         life[s] \in {"checking", "up"}, life[t] \in {"checking", "up"},
         snowflakeVo[s] = snowflakeVo[t]
  PROVE  s = t
BY DEF OwnRecordIsFresh

(* What Remember says of a TM that has not gone astray. *)
LEMMA NotAstray ==
  ASSUME Remember, NEW t \in Tms, t \notin stray', life'[t] \in {"checking", "up"}
  PROVE  t \notin stray /\ ~GivesUp(t) /\ owner'[snowflakeVo'[t]] = t
BY DEF Remember

(* The age of a record within the bound of OwnRecordIsFresh. *)
Fresh(t) == age[snowflakeVo[t]] <= phase + (IF due[t] THEN Period ELSE 0)

LEMMA TickKeepsFresh ==
  ASSUME TypeOK, Tick, NEW t \in Tms, life[t] = "up", Fresh(t),
         owner'[snowflakeVo[t]] # Nobody
  PROVE  Fresh(t)'
<1>1. snowflakeVo[t] \in Pairs
  BY CronFacts
<1>2. age'[snowflakeVo'[t]] = age[snowflakeVo[t]] + 1
  BY <1>1 DEF Tick, procVars
<1>3. age[snowflakeVo[t]] \in Nat /\ phase \in 0 .. Period - 1 /\ due[t] \in BOOLEAN
  BY <1>1 DEF TypeOK
<1>4. CASE due[t]
  <2>1. phase < Late  BY <1>4 DEF Tick
  <2>2. phase' = phase + 1  BY <1>3, <2>1, TimesAssumption DEF Tick
  <2>3. due'[t]  BY <1>4 DEF Tick
  <2> QED  BY <1>2, <1>3, <1>4, <2>2, <2>3, TimesAssumption DEF Fresh
<1>5. CASE ~due[t]
  <2>1. CASE phase + 1 < Period
    <3>1. phase' = phase + 1  BY <1>3, <2>1, TimesAssumption DEF Tick
    <3>2. age[snowflakeVo[t]] <= phase  BY <1>3, <1>5 DEF Fresh
    <3> QED  BY <1>2, <1>3, <3>1, <3>2, TimesAssumption DEF Fresh
  <2>2. CASE phase + 1 = Period
    <3>1. phase' = 0  BY <1>3, <2>2, TimesAssumption DEF Tick
    <3>2. due'[t]  BY <3>1 DEF Tick
    <3>3. age[snowflakeVo[t]] <= phase  BY <1>3, <1>5 DEF Fresh
    <3> QED  BY <1>2, <1>3, <2>2, <3>1, <3>2, <3>3, TimesAssumption DEF Fresh
  <2> QED  BY <1>3, <2>1, <2>2, TimesAssumption
<1> QED  BY <1>4, <1>5

LEMMA FreshStep ==
  ASSUME LeaseInv, Next, NEW u \in Tms, u \notin stray', life'[u] \in {"checking", "up"}
  PROVE  Fresh(u)' /\ read'[u] \in {u, Nobody}
<1> DEFINE Goal == Fresh(u)' /\ read'[u] \in {u, Nobody}
<1>1. TypeOK /\ CronInTime /\ OwnRecordIsFresh
  BY DEF LeaseInv
<1>2. u \notin stray /\ ~GivesUp(u) /\ owner'[snowflakeVo'[u]] = u
  BY NotAstray DEF Next
<1>3. life[u] \in {"checking", "up"} =>
        Fresh(u) /\ read[u] \in {u, Nobody} /\ owner[snowflakeVo[u]] = u
  BY <1>1, <1>2 DEF OwnRecordIsFresh, Fresh
<1>4. u # Nobody
  BY TimesAssumption
<1>5. phase \in Nat /\ Period \in Nat
  BY <1>1, TimesAssumption DEF TypeOK
<1>6. ASSUME life'[u] = life[u], snowflakeVo'[u] = snowflakeVo[u], phase' = phase,
             due'[u] = due[u], read'[u] = read[u],
             age'[snowflakeVo[u]] = age[snowflakeVo[u]]
      PROVE  Goal
  BY <1>3, <1>6 DEF Fresh
<1>7. ASSUME age'[snowflakeVo'[u]] = 0, phase' = phase, due'[u] \in BOOLEAN
      PROVE  Fresh(u)'
  BY <1>5, <1>7 DEF Fresh
<1> USE DEF procVars, redisVars, cronVars
<1>8. ASSUME NEW t \in Tms, Start(t) PROVE Goal
  <2>1. u # t  BY <1>8, <1>1 DEF Start, TypeOK
  <2> QED  BY <1>1, <1>6, <1>8, <2>1 DEF Start, TypeOK
<1>9. ASSUME NEW t \in Tms, TryInit(t) PROVE Goal
  <2>1. NextKey(t) /\ life[t] = "trying"  BY <1>9 DEF TryInit
  <2>2. snowflakeVo'[t] \in Pairs /\ \A v \in Tms : v # t => snowflakeVo'[v] = snowflakeVo[v]
    BY <1>1, <2>1, NextKeyIsPair
  <2>3. CASE u = t
    <3>1. Set(snowflakeVo'[t], t)
      BY <1>1, <1>2, <1>9, <2>1, <2>3 DEF TryInit, GivesUp, TypeOK
    <3>2. age'[snowflakeVo'[u]] = 0
      BY <1>1, <2>2, <2>3, <3>1 DEF Set, TypeOK
    <3>3. read'[u] = read[u] /\ phase' = phase /\ due'[u] \in BOOLEAN
      BY <1>1, <1>9 DEF TryInit, TypeOK
    <3>4. read[u] = Nobody
      BY <1>1, <2>1, <2>3, CronFacts
    <3> QED  BY <1>7, <3>2, <3>3, <3>4
  <2>4. CASE u # t
    <3>1. life'[u] = life[u] /\ phase' = phase /\ due'[u] = due[u] /\ read'[u] = read[u]
      BY <1>1, <1>9, <2>4 DEF TryInit, TypeOK
    <3>2. CASE Set(snowflakeVo'[t], t)
      <4>1. snowflakeVo'[t] # snowflakeVo[u]
        BY <1>1, <1>2, <2>2, <2>4, <3>2 DEF Set, TypeOK
      <4> QED  BY <1>1, <1>6, <2>2, <2>4, <3>1, <3>2, <4>1 DEF Set, TypeOK
    <3>3. CASE UNCHANGED redisVars
      BY <1>6, <2>2, <2>4, <3>1, <3>3
    <3> QED  BY <1>9, <3>2, <3>3 DEF TryInit
  <2> QED  BY <2>3, <2>4
<1>10. ASSUME NEW t \in Tms, HasKey(t) PROVE Goal
  <2>1. life[u] \in {"checking", "up"}
    BY <1>1, <1>10 DEF HasKey, TypeOK
  <2> QED  BY <1>3, <1>10, <2>1 DEF HasKey, Fresh
<1>11. ASSUME NEW t \in Tms, GetNothing(t) PROVE Goal
  <2>1. u # t
    BY <1>1, <1>3, <1>4, <1>11 DEF GetNothing
  <2> QED  BY <1>1, <1>6, <1>11, <2>1 DEF GetNothing, TypeOK
<1>12. ASSUME NEW t \in Tms, GetInfo(t) PROVE Goal
  <2>1. CASE u = t
    BY <1>1, <1>3, <1>12, <2>1 DEF GetInfo, Fresh, TypeOK
  <2>2. CASE u # t
    BY <1>1, <1>6, <1>12, <2>2 DEF GetInfo, TypeOK
  <2> QED  BY <2>1, <2>2
<1>13. ASSUME NEW t \in Tms, SetInfo(t) PROVE Goal
  <2>1. snowflakeVo[t] \in Pairs /\ read[t] # Nobody
    BY <1>1, <1>13, CronFacts DEF SetInfo
  <2>2. Set(snowflakeVo[t], read[t]) /\ phase' = phase /\ due' \in [Tms -> BOOLEAN]
        /\ life' = life /\ snowflakeVo' = snowflakeVo
    BY <1>1, <1>13 DEF SetInfo, TypeOK
  <2>3. read'[u] \in {u, Nobody}
    BY <1>1, <1>3, <1>13, <2>2 DEF SetInfo, TypeOK
  <2>4. CASE snowflakeVo[u] = snowflakeVo[t]
    BY <1>1, <1>7, <2>1, <2>2, <2>3, <2>4 DEF Set, TypeOK
  <2>5. CASE snowflakeVo[u] # snowflakeVo[t]
    <3>1. u # t  BY <2>5
    <3>2. age'[snowflakeVo[u]] = age[snowflakeVo[u]]
      <4>1. snowflakeVo[u] \in Pairs  BY <1>1, <2>2, CronFacts
      <4> QED  BY <1>1, <2>2, <2>5, <4>1 DEF Set, TypeOK
    <3>3. due'[u] = due[u] /\ read'[u] = read[u]
      BY <1>1, <1>13, <3>1 DEF SetInfo, TypeOK
    <3> QED  BY <1>6, <2>2, <3>2, <3>3
  <2> QED  BY <2>4, <2>5
<1>14. ASSUME NEW t \in Tms, Destroy(t) PROVE Goal
  <2>1. u # t /\ snowflakeVo' = snowflakeVo /\ Delete(snowflakeVo[t]) /\ life'[u] = life[u]
        /\ due'[u] = due[u] /\ read' = read /\ phase' = phase
    BY <1>1, <1>14 DEF Destroy, TypeOK
  <2>2. snowflakeVo[t] \in Pairs /\ snowflakeVo[u] \in Pairs
    BY <1>1, <1>14, <2>1, CronFacts DEF Destroy
  <2>3. snowflakeVo[u] # snowflakeVo[t]
    BY <1>1, <1>2, <1>4, <2>1, <2>2 DEF Delete, TypeOK
  <2>4. age'[snowflakeVo[u]] = age[snowflakeVo[u]]
    BY <1>1, <2>1, <2>2, <2>3 DEF Delete, TypeOK
  <2> QED  BY <1>6, <2>1, <2>4
<1>15. ASSUME NEW t \in Tms, Exit(t) PROVE Goal
  <2>1. u # t  BY <1>1, <1>15 DEF Exit, TypeOK
  <2> QED  BY <1>1, <1>6, <1>15, <2>1 DEF Exit, TypeOK
<1>16. CASE Tick
  <2>1. life' = life /\ snowflakeVo' = snowflakeVo /\ read' = read /\ life[u] # "checking"
    BY <1>16 DEF Tick
  <2> QED  BY <1>1, <1>2, <1>3, <1>4, <1>16, <2>1, TickKeepsFresh
<1> QED
  BY <1>8, <1>9, <1>10, <1>11, <1>12, <1>13, <1>14, <1>15, <1>16
     DEF Next, Step, Initiator, ResetExpire

LEMMA CronStep ==
  ASSUME LeaseInv, Next
  PROVE  CronInTime'
<1> SUFFICES ASSUME NEW u \in Tms, due'[u] PROVE phase' <= Late
  BY DEF CronInTime
<1> USE DEF procVars, redisVars, cronVars
<1>1. TypeOK /\ CronInTime
  BY DEF LeaseInv
<1>2. due[u] => phase <= Late
  BY <1>1 DEF CronInTime
<1>3. ASSUME due'[u] => due[u], phase' = phase PROVE phase' <= Late
  BY <1>2, <1>3
<1>4. ASSUME NEW t \in Tms, Initiator(t) PROVE phase' <= Late
  BY <1>3, <1>4 DEF Initiator, Start, TryInit, HasKey
<1>5. ASSUME NEW t \in Tms, ResetExpire(t) PROVE phase' <= Late
  BY <1>1, <1>3, <1>5 DEF ResetExpire, GetNothing, GetInfo, SetInfo, TypeOK
<1>6. ASSUME NEW t \in Tms, Destroy(t) PROVE phase' <= Late
  <2>1. phase' = phase  BY <1>6 DEF Destroy
  <2>2. read[t] # Nobody => due[t]  BY <1>1 DEF TypeOK
  <2>3. due'[u] => due[u]  BY <1>1, <1>6, <2>2 DEF Destroy, TypeOK
  <2> QED  BY <1>3, <2>1, <2>3
<1>7. ASSUME NEW t \in Tms, Exit(t) PROVE phase' <= Late
  BY <1>1, <1>3, <1>7 DEF Exit, TypeOK
<1>8. CASE Tick
  <2>1. CASE due[u]
    <3>1. phase < Late /\ phase' = (phase + 1) % Period
      BY <1>8, <2>1 DEF Tick
    <3> QED  BY <1>1, <3>1, TimesAssumption DEF TypeOK
  <2>2. CASE ~due[u]
    <3>1. phase' = 0  BY <1>8, <2>2 DEF Tick
    <3> QED  BY <3>1, TimesAssumption
  <2> QED  BY <2>1, <2>2
<1> QED
  BY <1>4, <1>5, <1>6, <1>7, <1>8 DEF Next, Step

LEMMA LeaseInit == Init => LeaseInv
<1> SUFFICES ASSUME Init PROVE CronInTime /\ OwnRecordIsFresh
  BY TypeInit DEF LeaseInv
<1>1. CronInTime  BY DEF Init, CronInTime
<1>2. OwnRecordIsFresh  BY DEF Init, OwnRecordIsFresh
<1> QED  BY <1>1, <1>2

LEMMA LeaseStep == LeaseInv /\ [Next]_vars => LeaseInv'
<1> SUFFICES ASSUME LeaseInv, [Next]_vars PROVE CronInTime' /\ OwnRecordIsFresh'
  BY TypeStep DEF LeaseInv
<1>1. CASE Next
  <2>1. CronInTime'
    BY <1>1, CronStep
  <2>2. ASSUME NEW u \in Tms \ stray', life'[u] \in {"checking", "up"}
        PROVE  owner'[snowflakeVo'[u]] = u /\ Fresh(u)' /\ read'[u] \in {u, Nobody}
    BY <1>1, <2>2, FreshStep, NotAstray DEF Next
  <2>3. OwnRecordIsFresh'
    BY <2>2 DEF OwnRecordIsFresh, Fresh
  <2> QED  BY <2>1, <2>3
<1>2. CASE UNCHANGED vars
  BY <1>2 DEF LeaseInv, CronInTime, OwnRecordIsFresh, vars, procVars, redisVars, cronVars
<1> QED  BY <1>1, <1>2

(* A TM that has neither given up nor lost its record holds one that was set  *)
(* since the last cron instant, or since the one before while the job runs.   *)
THEOREM OwnRecordsAreFresh == Spec => []LeaseInv
BY LeaseInit, LeaseStep, PTL DEF Spec

-----------------------------------------------------------------------------
Cause(t) ==
  \/ Expires(snowflakeVo[t]) /\ lease[snowflakeVo[t]] < Period + Late
  \/ GivesUp(t) /\ stopTrying'[t]
  \/ \E s \in Tms \ {t} : /\ snowflakeVo[s] = snowflakeVo[t]
                          /\ s \in stray \/ life[s] = "stopping"

(* A record that expires under its TM was set for less than Period + Late.   *)
LEMMA TickCause ==
  ASSUME LeaseInv, Tick, NEW u \in Tms, u \notin stray, life[u] = "up",
         owner'[snowflakeVo[u]] # u
  PROVE  Expires(snowflakeVo[u]) /\ lease[snowflakeVo[u]] < Period + Late
<1>1. TypeOK /\ owner[snowflakeVo[u]] = u /\ Fresh(u)
  BY DEF LeaseInv, OwnRecordIsFresh, Fresh
<1>2. snowflakeVo[u] \in Pairs
  BY <1>1, CronFacts
<1>3. Expires(snowflakeVo[u])
  BY <1>1, <1>2 DEF Tick
<1>4. lease[snowflakeVo[u]] <= age[snowflakeVo[u]]
  BY <1>1, <1>2, <1>3 DEF Expires, TypeOK
<1>5. /\ age[snowflakeVo[u]] \in Nat /\ lease[snowflakeVo[u]] \in Nat
      /\ phase \in 0 .. Period - 1
  BY <1>1, <1>2 DEF TypeOK
<1>6. age[snowflakeVo[u]] < Period + Late
  <2>1. CASE due[u]
    <3>1. phase < Late /\ age[snowflakeVo[u]] <= phase + Period
      BY <1>1, <2>1 DEF Tick, Fresh
    <3> QED  BY <1>5, <3>1, TimesAssumption
  <2>2. CASE ~due[u]
    <3>1. age[snowflakeVo[u]] <= phase + 0
      BY <1>1, <2>2 DEF Fresh
    <3> QED  BY <1>5, <3>1, TimesAssumption
  <2> QED  BY <2>1, <2>2
<1> QED  BY <1>3, <1>4, <1>5, <1>6, TimesAssumption

LEMMA CauseStep ==
  ASSUME LeaseInv, Next, NEW u \in Tms, u \in stray', u \notin stray
  PROVE  Cause(u)
<1>1. TypeOK /\ CronInTime /\ OwnRecordIsFresh
  BY DEF LeaseInv
<1>2. life'[u] \in {"checking", "up"} /\ (GivesUp(u) \/ owner'[snowflakeVo'[u]] # u)
  BY DEF Next, Remember
<1>3. life[u] \in {"checking", "up"} => owner[snowflakeVo[u]] = u /\ read[u] \in {u, Nobody}
  BY <1>1 DEF OwnRecordIsFresh
<1>4. ASSUME life[u] \in {"checking", "up"}, snowflakeVo'[u] = snowflakeVo[u],
             owner'[snowflakeVo[u]] = owner[snowflakeVo[u]]
      PROVE  FALSE
  BY <1>2, <1>3, <1>4 DEF GivesUp
<1> USE DEF procVars, redisVars, cronVars
<1>5. ASSUME NEW t \in Tms, Start(t) PROVE Cause(u)
  <2>1. u # t /\ life'[u] = life[u]  BY <1>1, <1>2, <1>5 DEF Start, TypeOK
  <2> QED  BY <1>2, <1>4, <1>5, <2>1 DEF Start
<1>6. ASSUME NEW t \in Tms, TryInit(t) PROVE Cause(u)
  <2>1. NextKey(t) /\ life[t] = "trying"  BY <1>6 DEF TryInit
  <2>2. snowflakeVo'[t] \in Pairs /\ \A v \in Tms : v # t => snowflakeVo'[v] = snowflakeVo[v]
    BY <1>1, <2>1, NextKeyIsPair
  <2>3. CASE u = t
    <3>1. CASE Set(snowflakeVo'[t], t) /\ life'[t] = "checking"
      BY <1>1, <1>2, <2>1, <2>2, <2>3, <3>1 DEF Set, TypeOK, GivesUp
    <3>2. CASE life' = [life EXCEPT ![t] = IF stopTrying'[t] THEN "up" ELSE "trying"]
      BY <1>1, <1>2, <2>1, <2>3, <3>2 DEF TypeOK, Cause, GivesUp
    <3>3. life' = [life EXCEPT ![t] = "checking"] => life'[t] = "checking"
      BY <1>1 DEF TypeOK
    <3> QED  BY <1>6, <3>1, <3>2, <3>3 DEF TryInit
  <2>4. CASE u # t
    <3>1. life'[u] = life[u]
      BY <1>1, <1>6, <2>4 DEF TryInit, TypeOK
    <3>2. CASE owner[snowflakeVo'[t]] = Nobody /\ Set(snowflakeVo'[t], t)
      <4>1. snowflakeVo'[t] # snowflakeVo[u]
        BY <1>2, <1>3, <3>1, <3>2, TimesAssumption
      <4>2. owner'[snowflakeVo[u]] = owner[snowflakeVo[u]]
        BY <1>1, <3>2, <4>1 DEF Set, TypeOK
      <4> QED  BY <1>2, <1>4, <2>2, <2>4, <3>1, <4>2
    <3>3. CASE UNCHANGED redisVars
      BY <1>2, <1>4, <2>2, <2>4, <3>1, <3>3
    <3> QED  BY <1>6, <3>2, <3>3 DEF TryInit
  <2> QED  BY <2>3, <2>4
<1>7. ASSUME NEW t \in Tms, HasKey(t) PROVE Cause(u)
  <2>1. life[u] \in {"checking", "up"}
    BY <1>1, <1>2, <1>7 DEF HasKey, TypeOK
  <2> QED  BY <1>4, <1>7, <2>1 DEF HasKey
<1>8. ASSUME NEW t \in Tms, GetNothing(t) \/ GetInfo(t) PROVE Cause(u)
  BY <1>2, <1>4, <1>8 DEF GetNothing, GetInfo
<1>9. ASSUME NEW t \in Tms, SetInfo(t) PROVE Cause(u)
  <2>1. /\ read[t] # Nobody /\ Set(snowflakeVo[t], read[t])
        /\ life' = life /\ snowflakeVo' = snowflakeVo
    BY <1>9 DEF SetInfo
  <2>2. snowflakeVo[t] \in Pairs /\ life[t] \in {"up", "stopping"}
    BY <1>1, <2>1, CronFacts
  <2>3. snowflakeVo[u] = snowflakeVo[t]
    <3>1. SUFFICES ASSUME snowflakeVo[u] # snowflakeVo[t]
                   PROVE  owner'[snowflakeVo[u]] = owner[snowflakeVo[u]]
      BY <1>2, <1>4, <2>1
    <3> QED  BY <1>1, <2>1, <3>1 DEF Set, TypeOK
  <2>4. u # t
    <3>1. SUFFICES ASSUME u = t PROVE owner'[snowflakeVo[u]] = u
      BY <1>2, <2>1 DEF GivesUp
    <3>2. read[t] = u  BY <1>2, <1>3, <2>1, <3>1
    <3> QED  BY <1>1, <2>1, <2>2, <3>1, <3>2 DEF Set, TypeOK
  <2>5. t \in stray \/ life[t] = "stopping"
    BY <1>1, <1>2, <2>1, <2>2, <2>3, <2>4, OwnPair
  <2> QED  BY <2>3, <2>4, <2>5 DEF Cause
<1>10. ASSUME NEW t \in Tms, Destroy(t) PROVE Cause(u)
  <2>1. /\ life[t] = "up" /\ Delete(snowflakeVo[t]) /\ snowflakeVo' = snowflakeVo
        /\ u # t /\ life'[u] = life[u]
    BY <1>1, <1>2, <1>10 DEF Destroy, TypeOK
  <2>2. snowflakeVo[u] = snowflakeVo[t]
    <3>1. SUFFICES ASSUME snowflakeVo[u] # snowflakeVo[t]
                   PROVE  owner'[snowflakeVo[u]] = owner[snowflakeVo[u]]
      BY <1>2, <1>4, <2>1
    <3> QED  BY <1>1, <2>1, <3>1 DEF Delete, TypeOK
  <2>3. t \in stray
    BY <1>1, <1>2, <2>1, <2>2, OwnPair
  <2> QED  BY <2>1, <2>2, <2>3 DEF Cause
<1>11. ASSUME NEW t \in Tms, Exit(t) PROVE Cause(u)
  <2>1. u # t /\ life'[u] = life[u] /\ snowflakeVo'[u] = snowflakeVo[u]
    BY <1>1, <1>2, <1>11 DEF Exit, TypeOK
  <2> QED  BY <1>2, <1>4, <1>11, <2>1 DEF Exit
<1>12. CASE Tick
  <2>1. life' = life /\ snowflakeVo' = snowflakeVo /\ life[u] # "checking"
    BY <1>12 DEF Tick
  <2>2. life[u] = "up" /\ owner'[snowflakeVo[u]] # u
    BY <1>2, <2>1 DEF GivesUp
  <2> QED  BY <1>12, <2>2, TickCause DEF Cause
<1> QED
  BY <1>5, <1>6, <1>7, <1>8, <1>9, <1>10, <1>11, <1>12
     DEF Next, Step, Initiator, ResetExpire

(* However the calls of the TMs interleave, a TM loses its pair only to a     *)
(* record that was set for less than Period + Late, to having found no free   *)
(* pair, or to a TM on the same pair that is stopping or lost it before.      *)
THEOREM LossesHaveCauses == Spec => LossHasCause
<1>1. LeaseInv /\ [Next]_vars => [\A t \in stray' \ stray : Cause(t)]_vars
  <2> SUFFICES ASSUME LeaseInv, Next, NEW t \in stray' \ stray PROVE Cause(t)
    OBVIOUS
  <2>1. t \in Tms  BY DEF Next, Remember
  <2> QED  BY <2>1, CauseStep
<1>2. Spec => []LeaseInv
  BY OwnRecordsAreFresh
<1>3. Spec => [][\A t \in stray' \ stray : Cause(t)]_vars
  BY <1>1, <1>2, PTL DEF Spec
<1> QED  BY <1>3 DEF LossHasCause, Cause
-----------------------------------------------------------------------------
LEMMA RevivalStep ==
  ASSUME LeaseInv, Next, NEW r \in Tms, NEW k \in Pairs, Revived(r, k)
  PROVE  Reviver(r, k)
<1>1. TypeOK /\ OwnRecordIsFresh
  BY DEF LeaseInv
<1>2. owner'[k] = r /\ r # Nobody /\ ~Using(r, k)' /\ (owner'[k] # owner[k] \/ age'[k] < age[k])
  BY TimesAssumption DEF Revived
<1> USE DEF procVars, redisVars, cronVars
<1>3. ASSUME UNCHANGED redisVars PROVE FALSE
  <2>1. age[k] \in Nat  BY <1>1 DEF TypeOK
  <2> QED  BY <1>2, <1>3, <2>1
<1>4. ASSUME NEW t \in Tms, TryInit(t) PROVE Reviver(r, k)
  <2>1. CASE Set(snowflakeVo'[t], t) /\ life' = [life EXCEPT ![t] = "checking"]
    <3>1. snowflakeVo'[t] \in Pairs
      BY <1>1, <1>4, NextKeyIsPair DEF TryInit
    <3>2. k = snowflakeVo'[t]
      <4>1. k # snowflakeVo'[t] => owner'[k] = owner[k] /\ age'[k] = age[k] /\ age[k] \in Nat
        BY <1>1, <2>1, <3>1 DEF Set, TypeOK
      <4> QED  BY <1>2, <4>1
    <3>3. owner'[k] = t /\ Using(t, k)'
      BY <1>1, <2>1, <3>1, <3>2 DEF Set, TypeOK, Using
    <3> QED  BY <1>2, <3>3
  <2> QED  BY <1>3, <1>4, <2>1 DEF TryInit
<1>5. ASSUME NEW t \in Tms, SetInfo(t) PROVE Reviver(r, k)
  <2>1. /\ read[t] # Nobody /\ Set(snowflakeVo[t], read[t])
        /\ life' = life /\ snowflakeVo' = snowflakeVo
    BY <1>5 DEF SetInfo
  <2>2. snowflakeVo[t] \in Pairs /\ life[t] \in {"up", "stopping"}
    BY <1>1, <2>1, CronFacts
  <2>3. k = snowflakeVo[t]
    <3>1. k # snowflakeVo[t] => owner'[k] = owner[k] /\ age'[k] = age[k] /\ age[k] \in Nat
      BY <1>1, <2>1, <2>2 DEF Set, TypeOK
    <3> QED  BY <1>2, <3>1
  <2>4. owner'[k] = read[t]
    BY <1>1, <2>1, <2>2, <2>3 DEF Set, TypeOK
  <2>5. t \in stray \/ life[t] = "stopping"
    <3>1. SUFFICES ASSUME t \notin stray, life[t] = "up" PROVE FALSE
      BY <2>2
    <3>2. read[t] = t
      BY <1>1, <2>1, <3>1 DEF OwnRecordIsFresh
    <3>3. Using(r, k)'
      BY <1>2, <2>1, <2>3, <2>4, <3>1, <3>2 DEF Using
    <3> QED  BY <1>2, <3>3
  <2> QED  BY <1>2, <2>3, <2>4, <2>5 DEF Reviver
<1>6. ASSUME NEW t \in Tms, Destroy(t) PROVE FALSE
  <2>1. Delete(snowflakeVo[t]) /\ snowflakeVo[t] \in Pairs
    BY <1>1, <1>6, CronFacts DEF Destroy
  <2>2. age[k] \in Nat /\ (owner'[k] = Nobody \/ (owner'[k] = owner[k] /\ age'[k] = age[k]))
    BY <1>1, <2>1 DEF Delete, TypeOK
  <2> QED  BY <1>2, <2>2
<1>7. CASE Tick
  <2>1. age[k] \in Nat /\ (owner'[k] = Nobody \/ (owner'[k] = owner[k] /\ age'[k] = age[k] + 1))
    BY <1>1, <1>7 DEF Tick, TypeOK
  <2> QED  BY <1>2, <2>1
<1>8. ASSUME NEW t \in Tms, Start(t) \/ HasKey(t) \/ GetNothing(t) \/ GetInfo(t) \/ Exit(t)
      PROVE  FALSE
  BY <1>3, <1>8 DEF Start, HasKey, GetNothing, GetInfo, Exit
<1> QED
  BY <1>4, <1>5, <1>6, <1>7, <1>8 DEF Next, Step, Initiator, ResetExpire

(* For any TMs, pairs and times, nobody sets or renews the record of a TM that *)
(* does not use its pair, except a TM on that pair that has gone astray or is  *)
(* being stopped: a record left behind by a crash only grows older.            *)
THEOREM RevivalsHaveCauses == Spec => RevivalHasCause
<1>1. LeaseInv /\ [Next]_vars => [\A t \in Tms, k \in Pairs : Revived(t, k) => Reviver(t, k)]_vars
  BY RevivalStep
<1>2. Spec => []LeaseInv
  BY OwnRecordsAreFresh
<1> QED  BY <1>1, <1>2, PTL DEF Spec, RevivalHasCause

-----------------------------------------------------------------------------
(* What this means for ids: a pair has one TM, unless one has gone astray.   *)

OnePerPair ==
  \A s, t \in Tms \ stray, k \in Pairs : Using(s, k) /\ Using(t, k) => s = t

(* Of the TMs that have not gone astray no two use one pair, however many TMs *)
(* start, crash, stop and renew: SETNX and the check of HasKey tell them apart. *)
THEOREM PairsAreUnique == Spec => []OnePerPair
<1>1. LeaseInv => OnePerPair
  BY TimesAssumption DEF LeaseInv, OwnRecordIsFresh, OnePerPair, Using
<1> QED  BY <1>1, OwnRecordsAreFresh, PTL

(* A TM that goes astray without having found every pair taken had a pair. *)
LEMMA StraysHadPair ==
  ASSUME LeaseInv, Next, NEW u \in Tms, u \in stray', u \notin stray, ~stopTrying'[u]
  PROVE  life[u] \in {"checking", "up"} /\ snowflakeVo[u] \in Pairs
<1>1. TypeOK
  BY DEF LeaseInv
<1>2. life'[u] \in {"checking", "up"} /\ (GivesUp(u) \/ owner'[snowflakeVo'[u]] # u)
  BY DEF Next, Remember
<1>3. life[u] \in {"checking", "up"} => snowflakeVo[u] \in Pairs
  <2>1. snowflakeVo[u] \in 0 .. Keys /\ (life[u] \notin {"down", "trying"} => snowflakeVo[u] # 0)
    BY <1>1 DEF TypeOK
  <2> QED  BY <2>1, TimesAssumption DEF Pairs
<1> SUFFICES ASSUME life[u] \notin {"checking", "up"} PROVE FALSE
  BY <1>3
<1> USE DEF procVars, redisVars, cronVars
<1>4. ASSUME TryInit(u) PROVE FALSE
  <2>1. NextKey(u) /\ life[u] = "trying"
    BY <1>4 DEF TryInit
  <2>2. snowflakeVo'[u] \in Pairs
    BY <1>1, <2>1, NextKeyIsPair
  <2>3. CASE Set(snowflakeVo'[u], u) /\ life' = [life EXCEPT ![u] = "checking"]
    BY <1>1, <1>2, <2>2, <2>3 DEF Set, TypeOK, GivesUp
  <2>4. CASE life' = [life EXCEPT ![u] = IF stopTrying'[u] THEN "up" ELSE "trying"]
    BY <1>1, <1>2, <2>4 DEF TypeOK
  <2> QED  BY <1>4, <2>3, <2>4 DEF TryInit
<1>5. ASSUME NEW t \in Tms, t # u, TryInit(t) PROVE FALSE
  BY <1>1, <1>2, <1>5 DEF TryInit, TypeOK
<1>6. ASSUME NEW t \in Tms, Start(t) \/ HasKey(t) \/ GetNothing(t) \/ GetInfo(t) \/ SetInfo(t)
                             \/ Destroy(t) \/ Exit(t)
      PROVE  FALSE
  BY <1>1, <1>2, <1>6 DEF Start, HasKey, GetNothing, GetInfo, SetInfo, Destroy, Exit, TypeOK
<1>7. CASE Tick
  BY <1>2, <1>7 DEF Tick
<1> QED
  BY <1>4, <1>5, <1>6, <1>7 DEF Next, Step, Initiator, ResetExpire

(* Every record was set to live as long as two renewals can be apart.  In the *)
(* code these are the draws of randomDigits that cover how late the cron jobs *)
(* are: all of them when none is late, nine in ten when one is a second late. *)
LeasesAreLong == \A k \in Pairs : owner[k] # Nobody => lease[k] >= Period + Late

(* No TM is being stopped or has found every pair taken. *)
Calm == \A t \in Tms : ~stopTrying[t] /\ life[t] # "stopping"

(* As long as the times to live that were drawn are long enough, no TM is     *)
(* stopped in order and none finds every pair taken, no TM ever loses its     *)
(* pair: crashes, restarts and slow cron jobs do no harm, and a short draw is *)
(* the only thing left that does.                                             *)
THEOREM LongLeasesKeepPairs == Spec /\ [](Calm /\ LeasesAreLong) => [](stray = {})
<1> DEFINE Kept == stray = {}
<1>1. Init => Kept
  BY DEF Init
<1>2. LeaseInv /\ Kept /\ LeasesAreLong /\ Calm /\ Calm' /\ [Next]_vars => Kept'
  <2> SUFFICES ASSUME LeaseInv, Kept, LeasesAreLong, Calm, Calm', [Next]_vars
               PROVE  stray' = {}
    OBVIOUS
  <2>1. CASE Next
    <3> SUFFICES ASSUME NEW t \in stray' \ stray PROVE FALSE
      BY DEF Next, Remember
    <3>1. t \in Tms
      BY <2>1 DEF Next, Remember
    <3>2. Cause(t)
      BY <2>1, <3>1, CauseStep
    <3>3. CASE Expires(snowflakeVo[t]) /\ lease[snowflakeVo[t]] < Period + Late
      <4>1. snowflakeVo[t] \in Pairs
        BY <2>1, <3>1, StraysHadPair DEF Calm
      <4> QED  BY <3>3, <4>1, TimesAssumption DEF Expires, LeasesAreLong, LeaseInv, TypeOK
    <3> QED  BY <3>1, <3>2, <3>3 DEF Cause, Calm
  <2> QED  BY <2>1 DEF vars
<1> QED  BY <1>1, <1>2, OwnRecordsAreFresh, PTL DEF Spec
=============================================================================
