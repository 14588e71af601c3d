----------------------------- MODULE WorkerIds -----------------------------
(***************************************************************************)
(* How each TM takes the (dataCenterId, workerId) pair that goes into its  *)
(* ids: TmNodeInitiator tries the pairs in order, each with a SETNX in     *)
(* Redis that expires, and a cron job of TmNodeSchedule renews the record. *)
(* Pairs are numbered in the order in which nextKey goes through them.     *)
(* Time is discrete: Tick ages every record, and lets a cron job that is   *)
(* due run at most Late ticks after its instant.                           *)
(***************************************************************************)
EXTENDS Integers

CONSTANTS Tms,         \* the TM processes, each with its own host and port
          Nobody,      \* no TM
          Keys,        \* how many pairs there are; 31 * 31 in the code
          Period,      \* ticks between two cron instants; 30 s in the code
          LockExpire,  \* shortest life of a record; 30 s in the code
          Digits,      \* most that randomDigits adds to it; 9 s in the code
          Late         \* bound: how late a cron job may end

ASSUME TimesAssumption ==
  /\ Nobody \notin Tms
  /\ Keys \in Nat \ {0} /\ Period \in Nat \ {0} /\ LockExpire \in Nat \ {0}
  /\ Digits \in Nat /\ Late \in Nat /\ Late < Period

VARIABLES
  life,         \* what each process is doing
  snowflakeVo,  \* TmNodeInitiator.snowflakeVo and tmId: the pair, 0 when null
  stopTrying,   \* TmNodeInitiator.stopTrying
  owner,        \* Redis: hostAndPort of the record of each pair
  age,          \* Redis: ticks since the record was last set
  lease,        \* Redis: the time to live it was set with
  phase,        \* ticks since the last cron instant
  due,          \* whether the cron job of a TM has yet to end
  read,         \* the record resetExpire has got and not yet set
  stray         \* history: TMs that have been without a record of their own

procVars  == <<life, snowflakeVo, stopTrying>>
redisVars == <<owner, age, lease>>
cronVars  == <<phase, due, read>>
vars == <<procVars, redisVars, cronVars, stray>>

Pairs  == 1 .. Keys
Leases == LockExpire .. LockExpire + Digits

Using(t, k) == life[t] \in {"checking", "up"} /\ snowflakeVo[t] = k

Init ==
  /\ life = [t \in Tms |-> "down"]
  /\ snowflakeVo = [t \in Tms |-> 0]
  /\ stopTrying = [t \in Tms |-> FALSE]
  /\ owner = [k \in Pairs |-> Nobody]
  /\ age = [k \in Pairs |-> 0]
  /\ lease = [k \in Pairs |-> 0]
  /\ phase = 0
  /\ due = [t \in Tms |-> FALSE]
  /\ read = [t \in Tms |-> Nobody]
  /\ stray = {}

-----------------------------------------------------------------------------
(* Redis. *)

Set(k, t) ==
  /\ owner' = [owner EXCEPT ![k] = t]
  /\ age' = [age EXCEPT ![k] = 0]
  /\ \E ttl \in Leases : lease' = [lease EXCEPT ![k] = ttl]

Delete(k) ==
  /\ owner' = [owner EXCEPT ![k] = Nobody]
  /\ age' = [age EXCEPT ![k] = 0]
  /\ lease' = [lease EXCEPT ![k] = 0]

(* Redis drops a record once its time to live is exceeded. *)
Expires(k) == owner[k] # Nobody /\ age[k] >= lease[k]

-----------------------------------------------------------------------------
(* TmNodeInitiator.init, run while the TM starts. *)

Start(t) ==
  /\ life[t] = "down"
  /\ life' = [life EXCEPT ![t] = "trying"]
  /\ UNCHANGED <<snowflakeVo, stopTrying, redisVars, cronVars>>

(* Mutant: the search starts again without a flag to end it. *)
NextKeyForEver(t) ==
  /\ snowflakeVo' = [snowflakeVo EXCEPT ![t] = IF @ = Keys THEN 1 ELSE @ + 1]
  /\ UNCHANGED stopTrying

NextKey(t) ==
  /\ snowflakeVo' = [snowflakeVo EXCEPT ![t] = IF @ = Keys THEN 1 ELSE @ + 1]
  /\ stopTrying' = [stopTrying EXCEPT ![t] = @ \/ snowflakeVo[t] = Keys]

(* Mutant: SET where the code has SETNX. *)
TryInitOverwrites(t) ==
  /\ life[t] = "trying"
  /\ NextKey(t)
  /\ Set(snowflakeVo'[t], t)
  /\ life' = [life EXCEPT ![t] = "checking"]
  /\ UNCHANGED cronVars

(* setIfAbsent sets the record, or finds one: then init tries the next pair, *)
(* or gives up and leaves the TM with the pair it could not take.           *)
TryInit(t) ==
  /\ life[t] = "trying"
  /\ NextKey(t)
  /\ \/ /\ owner[snowflakeVo'[t]] = Nobody
        /\ Set(snowflakeVo'[t], t)
        /\ life' = [life EXCEPT ![t] = "checking"]
     \/ /\ owner[snowflakeVo'[t]] # Nobody
        /\ life' = [life EXCEPT ![t] = IF stopTrying'[t] THEN "up" ELSE "trying"]
        /\ UNCHANGED redisVars
  /\ UNCHANGED cronVars

(* hasKey, after a successful setIfAbsent. *)
HasKey(t) ==
  /\ life[t] = "checking"
  /\ life' = [life EXCEPT ![t] = IF owner[snowflakeVo[t]] # Nobody \/ stopTrying[t]
                                 THEN "up" ELSE "trying"]
  /\ UNCHANGED <<snowflakeVo, stopTrying, redisVars, cronVars>>

-----------------------------------------------------------------------------
(* TmNodeInitiator.resetExpire, called by the cron job. *)

(* The record is gone: resetExpire throws, the scheduler logs it. *)
GetNothing(t) ==
  /\ life[t] = "up" /\ due[t] /\ read[t] = Nobody
  /\ owner[snowflakeVo[t]] = Nobody
  /\ due' = [due EXCEPT ![t] = FALSE]
  /\ UNCHANGED <<procVars, redisVars, phase, read>>

GetInfo(t) ==
  /\ life[t] = "up" /\ due[t] /\ read[t] = Nobody
  /\ owner[snowflakeVo[t]] # Nobody
  /\ read' = [read EXCEPT ![t] = owner[snowflakeVo[t]]]
  /\ UNCHANGED <<procVars, redisVars, phase, due>>

(* Mutant: the record is written, its time to live is not. *)
SetInfoOnly(t) ==
  /\ read[t] # Nobody
  /\ owner' = [owner EXCEPT ![snowflakeVo[t]] = read[t]]
  /\ read' = [read EXCEPT ![t] = Nobody]
  /\ due' = [due EXCEPT ![t] = FALSE]
  /\ UNCHANGED <<procVars, age, lease, phase>>

(* The record is set whoever holds the pair by now. *)
SetInfo(t) ==
  /\ read[t] # Nobody
  /\ Set(snowflakeVo[t], read[t])
  /\ read' = [read EXCEPT ![t] = Nobody]
  /\ due' = [due EXCEPT ![t] = FALSE]
  /\ UNCHANGED <<procVars, phase>>

-----------------------------------------------------------------------------
(* A TM ends. *)

(* Mutant: the cron job goes on after the TM. *)
DestroyNotCron(t) ==
  /\ life[t] = "up"
  /\ life' = [life EXCEPT ![t] = "down"]
  /\ Delete(snowflakeVo[t])
  /\ UNCHANGED <<snowflakeVo, stopTrying, cronVars>>

(* destroy deletes the record of the TM's pair, whosever it is.  A cron job *)
(* that has not begun is cancelled; one that is running is not waited for.  *)
Destroy(t) ==
  /\ life[t] = "up"
  /\ life' = [life EXCEPT ![t] = "stopping"]
  /\ Delete(snowflakeVo[t])
  /\ due' = [due EXCEPT ![t] = read[t] # Nobody]
  /\ UNCHANGED <<snowflakeVo, stopTrying, phase, read>>

(* The process exits, after destroy or by force at any time, and its state   *)
(* with it.  Only the record in Redis stays.                                 *)
Exit(t) ==
  /\ life[t] # "down"
  /\ life' = [life EXCEPT ![t] = "down"]
  /\ snowflakeVo' = [snowflakeVo EXCEPT ![t] = 0]
  /\ stopTrying' = [stopTrying EXCEPT ![t] = FALSE]
  /\ due' = [due EXCEPT ![t] = FALSE]
  /\ read' = [read EXCEPT ![t] = Nobody]
  /\ UNCHANGED <<redisVars, phase>>

-----------------------------------------------------------------------------
(* Mutant: the records are set without a time to live. *)
TickForEver ==
  /\ \A t \in Tms : life[t] # "checking" /\ (due[t] => phase < Late)
  /\ phase' = (phase + 1) % Period
  /\ due' = [t \in Tms |-> due[t] \/ (phase' = 0 /\ life[t] = "up")]
  /\ age' = [k \in Pairs |-> IF age[k] < lease[k] THEN age[k] + 1 ELSE age[k]]
  /\ UNCHANGED <<procVars, owner, lease, read>>

(* Time passes, when no cron job would be later than Late and no TM is       *)
(* between the two Redis calls of tryInit.  At a cron instant the job of     *)
(* every TM that is up falls due.                                            *)
Tick ==
  /\ \A t \in Tms : life[t] # "checking" /\ (due[t] => phase < Late)
  /\ phase' = (phase + 1) % Period
  /\ due' = [t \in Tms |-> due[t] \/ (phase' = 0 /\ life[t] = "up")]
  /\ owner' = [k \in Pairs |-> IF Expires(k) THEN Nobody ELSE owner[k]]
  /\ age' = [k \in Pairs |-> IF owner'[k] = Nobody THEN 0 ELSE age[k] + 1]
  /\ lease' = [k \in Pairs |-> IF owner'[k] = Nobody THEN 0 ELSE lease[k]]
  /\ UNCHANGED <<procVars, read>>

Initiator(t) == Start(t) \/ TryInit(t) \/ HasKey(t)

ResetExpire(t) == GetNothing(t) \/ GetInfo(t) \/ SetInfo(t)

Step == \/ \E t \in Tms : Initiator(t) \/ ResetExpire(t) \/ Destroy(t) \/ Exit(t)
        \/ Tick

(* The history: a TM goes astray when init gives up, and when the record of  *)
(* the pair it uses is not its own; it stays so until it ends.               *)
GivesUp(t) == life[t] = "trying" /\ life'[t] = "up"

Remember ==
  stray' = {t \in Tms : /\ life'[t] \in {"checking", "up"}
                        /\ \/ t \in stray
                           \/ GivesUp(t)
                           \/ owner'[snowflakeVo'[t]] # t}

Next == Step /\ Remember

Spec == Init /\ [][Next]_vars

(* Time goes on, whatever happens, and neither init nor a cron job waits for  *)
(* anything but Redis.                                                       *)
Fairness ==
  /\ SF_vars(Tick /\ Remember)
  /\ \A t \in Tms : WF_vars((TryInit(t) \/ HasKey(t) \/ ResetExpire(t)) /\ Remember)

FairSpec == Spec /\ Fairness

-----------------------------------------------------------------------------
(* Every variable holds a value the code can give it: a record ages no longer *)
(* than it may, a TM that has started has a pair, and only a cron job that is *)
(* under way, and whose TM has started, has read a record.                    *)
TypeOK ==
  /\ life \in [Tms -> {"down", "trying", "checking", "up", "stopping"}]
  /\ snowflakeVo \in [Tms -> 0 .. Keys]
  /\ stopTrying \in [Tms -> BOOLEAN]
  /\ owner \in [Pairs -> Tms \cup {Nobody}]
  /\ age \in [Pairs -> Nat]
  /\ lease \in [Pairs -> Nat]
  /\ phase \in 0 .. Period - 1
  /\ due \in [Tms -> BOOLEAN]
  /\ read \in [Tms -> Tms \cup {Nobody}]
  /\ stray \subseteq Tms
  /\ \A k \in Pairs : age[k] <= lease[k] /\ lease[k] <= LockExpire + Digits
  /\ \A t \in Tms : life[t] \notin {"down", "trying"} => snowflakeVo[t] # 0
  /\ \A t \in Tms : due[t] => life[t] \in {"up", "stopping"}
  /\ \A t \in Tms : read[t] # Nobody => due[t]

(* A cron job ends at most Late ticks after its instant. *)
CronInTime == \A t \in Tms : due[t] => phase <= Late

(* Unless it has gone astray, a TM holds the record of its pair, and the     *)
(* record was set since the last cron instant, or since the one before while *)
(* the TM's cron job is not through.                                         *)
OwnRecordIsFresh ==
  \A t \in Tms \ stray : life[t] \in {"checking", "up"} =>
    /\ owner[snowflakeVo[t]] = t
    /\ age[snowflakeVo[t]] <= phase + (IF due[t] THEN Period ELSE 0)
    /\ read[t] \in {t, Nobody}

LeaseInv == TypeOK /\ CronInTime /\ OwnRecordIsFresh

(* What a TM loses its pair to, however the Redis calls of init, resetExpire *)
(* and destroy of several TMs interleave: a record whose time to live is      *)
(* shorter than the time between two renewals, having found every pair taken, *)
(* or a TM on the same pair that went astray before or is stopping.  Only     *)
(* then may two TMs make ids with one pair.                                   *)
LossHasCause ==
  [][\A t \in stray' \ stray :
       \/ Expires(snowflakeVo[t]) /\ lease[snowflakeVo[t]] < Period + Late
       \/ GivesUp(t) /\ stopTrying'[t]
       \/ \E s \in Tms \ {t} : /\ snowflakeVo[s] = snowflakeVo[t]
                               /\ s \in stray \/ life[s] = "stopping"]_vars

(* The record of pair k is set or renewed in the name of t, which does not use *)
(* the pair: it crashed, stopped or never took it.                            *)
Revived(t, k) ==
  /\ owner'[k] = t /\ ~Using(t, k)'
  /\ owner[k] # t \/ age'[k] < age[k]

(* A cron job that found t's record on its own pair k, of a TM that has gone   *)
(* astray or is being stopped while the job is between GET and SET.            *)
Reviver(t, k) ==
  \E s \in Tms : /\ snowflakeVo[s] = k /\ read[s] = t
                 /\ s \in stray \/ life[s] = "stopping"

(* The safety half of DeadIsForgotten: a record that names a TM which does    *)
(* not use the pair is neither set nor renewed, but by such a cron job.        *)
RevivalHasCause ==
  [][\A t \in Tms, k \in Pairs : Revived(t, k) => Reviver(t, k)]_vars

(* The record of a TM that has crashed or moved to another pair goes away, as *)
(* long as no TM goes astray: resetExpire renews a record whosever it is.     *)
DeadIsForgotten ==
  [](stray = {}) =>
    \A t \in Tms, k \in Pairs :
      (owner[k] = t /\ ~Using(t, k)) ~> (owner[k] # t \/ Using(t, k))

(* The recursion of init ends, however many pairs are taken and whoever frees *)
(* or takes them meanwhile.                                                   *)
StartEnds ==
  \A t \in Tms : life[t] \in {"trying", "checking"} ~> life[t] \in {"up", "down"}

(* The renewal every 30 seconds is there to tell the other TMs that this one *)
(* is alive.  In the code the record lives no longer than the time between   *)
(* two renewals when randomDigits is 0.                                       *)
HeartbeatTellsAlive ==
  \A t \in Tms : life[t] = "up" /\ ~stopTrying[t] => owner[snowflakeVo[t]] # Nobody
=============================================================================
