---------------------------- MODULE Connections ----------------------------
(***************************************************************************)
(* How a TC, or a TM, keeps its connection to one TM: a schedule dials     *)
(* whenever the TM is not in the registry (ConnectionService), a dial ends *)
(* asynchronously, and each channel tells the registry when it becomes     *)
(* active and inactive.  The dialler's registry holds one connection under *)
(* the TM's address and port.  The schedule looks there for the host as it *)
(* is configured: a TM given by a host name is never found (byName).  At   *)
(* the TM each channel has a port of its own, thus a key of its own; what  *)
(* it registers there is mirrored in accepted.                             *)
(*                                                                         *)
(* A channel that both ends have dropped may be used again for a new one.  *)
(* The events of one channel come one after the other, those of different  *)
(* channels at the same time (ProtocolChannelInitializer's executor group).*)
(***************************************************************************)
EXTENDS Naturals, FiniteSets

CONSTANTS Channels,
          MaxBreaks,    \* bound on the channels that break and dials that fail
          MaxDuplicates,\* bound on the dials while another is not finished or
                        \* while the TM is registered
          Null

ASSUME ConnectionsAssumption ==
  Null \notin Channels /\ MaxBreaks \in Nat /\ MaxDuplicates \in Nat

VARIABLES
  byName,    \* whether the TM is configured by a host name; never changes
  net,       \* each channel: "none", "dialling", "open" or "closed"
  side,      \* what the dialler's handler did: "none", "checked" (it found no
             \* previous connection), "added", "refused" or "gone"
  registered,\* the connection in the dialler's registry
  accepted,  \* the connections in the TM's registry
  left,      \* channels whose end the TM has noticed
  schedule,  \* whether the schedule still runs
  breaks,
  overlaps,  \* dials made while another was not finished
  doubles    \* other dials made while the TM was registered

vars == <<byName, net, side, registered, accepted, left, schedule, breaks, overlaps, doubles>>

Init ==
  /\ byName \in BOOLEAN
  /\ net  = [c \in Channels |-> "none"]
  /\ side = [c \in Channels |-> "none"]
  /\ registered = Null
  /\ accepted = {} /\ left = {}
  /\ schedule = "runs" /\ breaks = 0 /\ overlaps = 0 /\ doubles = 0

-----------------------------------------------------------------------------
(* The schedule.  connectTo looks into the registry and dials; it does not *)
(* look whether an earlier dial has got there.                             *)

Pending == {c \in Channels : net[c] = "dialling" \/ (net[c] # "none" /\ side[c] \in {"none", "checked"})}

(* Mutant: the connection is registered under a key nobody looks for.      *)
ExistNoConnect == FALSE

(* The key of a connection has the resolved address, whatever was dialled.  *)
ExistConnect == ~byName /\ registered # Null

ConnectTo(c) ==
  /\ schedule = "runs" /\ ~ExistConnect /\ net[c] = "none"
  /\ net' = [net EXCEPT ![c] = "dialling"]
  /\ \/ /\ Pending = {} /\ registered = Null
        /\ UNCHANGED <<overlaps, doubles>>
     \/ /\ Pending # {} /\ overlaps + doubles < MaxDuplicates
        /\ overlaps' = overlaps + 1 /\ UNCHANGED doubles
     \/ /\ Pending = {} /\ registered # Null /\ overlaps + doubles < MaxDuplicates
        /\ doubles' = doubles + 1 /\ UNCHANGED overlaps
  /\ UNCHANGED <<byName, side, registered, accepted, left, schedule, breaks>>

(* An exception ends a task at a fixed rate for ever: a TM's record that   *)
(* expires while TmNode reads it, a TM added to the list the TC iterates.  *)
ScheduleEnds ==
  /\ schedule = "runs"
  /\ schedule' = "ended"
  /\ UNCHANGED <<byName, net, side, registered, accepted, left, breaks, overlaps, doubles>>

DialSucceeds(c) ==
  /\ net[c] = "dialling"
  /\ net' = [net EXCEPT ![c] = "open"]
  /\ UNCHANGED <<byName, side, registered, accepted, left, schedule, breaks, overlaps, doubles>>

DialFails(c) ==
  /\ net[c] = "dialling" /\ breaks < MaxBreaks
  /\ net' = [net EXCEPT ![c] = "none"]
  /\ breaks' = breaks + 1
  /\ UNCHANGED <<byName, side, registered, accepted, left, schedule, overlaps, doubles>>

-----------------------------------------------------------------------------
(* The dialler's end: channelActive, addConnection, channelInactive, which  *)
(* go by the key of the connection itself.                                 *)

Previous == registered # Null

Active(c) == net[c] \in {"open", "closed"} /\ side[c] = "none"

GetPrevious(c) ==
  /\ Active(c) /\ ~Previous
  /\ side' = [side EXCEPT ![c] = "checked"]
  /\ UNCHANGED <<byName, net, registered, accepted, left, schedule, breaks, overlaps, doubles>>

(* Mutant: the connection that is closed takes the place of the previous.  *)
RefuseAndPut(c) ==
  /\ Active(c) /\ Previous
  /\ side' = [side EXCEPT ![c] = "refused"]
  /\ net'  = [net EXCEPT ![c] = "closed"]
  /\ registered' = c
  /\ UNCHANGED <<byName, accepted, left, schedule, breaks, overlaps, doubles>>

Refuse(c) ==
  /\ Active(c) /\ Previous
  /\ side' = [side EXCEPT ![c] = "refused"]
  /\ net'  = [net EXCEPT ![c] = "closed"]
  /\ UNCHANGED <<byName, registered, accepted, left, schedule, breaks, overlaps, doubles>>

Put(c) ==
  /\ side[c] = "checked"
  /\ side' = [side EXCEPT ![c] = "added"]
  /\ registered' = c
  /\ UNCHANGED <<byName, net, accepted, left, schedule, breaks, overlaps, doubles>>

(* Mutant: an inactive connection stays in the registry.                   *)
KeepConnection(c) == UNCHANGED registered

(* removeConnection goes by the key, whichever connection is there.        *)
RemoveConnection(c) == registered' = Null

Inactive(c) ==
  /\ net[c] = "closed" /\ side[c] \in {"added", "refused"}
  /\ side' = [side EXCEPT ![c] = "gone"]
  /\ RemoveConnection(c)
  /\ UNCHANGED <<byName, net, accepted, left, schedule, breaks, overlaps, doubles>>

-----------------------------------------------------------------------------
(* The TM's end, where every key is unique, and the network.               *)

Accept(c) ==
  /\ net[c] \in {"open", "closed"} /\ c \notin accepted \cup left
  /\ accepted' = accepted \cup {c}
  /\ UNCHANGED <<byName, net, side, registered, left, schedule, breaks, overlaps, doubles>>

Leave(c) ==
  /\ net[c] = "closed" /\ c \in accepted
  /\ accepted' = accepted \ {c}
  /\ left' = left \cup {c}
  /\ UNCHANGED <<byName, net, side, registered, schedule, breaks, overlaps, doubles>>

(* The network fails, or an idle handler closes.                           *)
Break(c) ==
  /\ net[c] = "open" /\ breaks < MaxBreaks
  /\ net' = [net EXCEPT ![c] = "closed"]
  /\ breaks' = breaks + 1
  /\ UNCHANGED <<byName, side, registered, accepted, left, schedule, overlaps, doubles>>

Forget(c) ==
  /\ net[c] = "closed" /\ side[c] = "gone" /\ c \in left
  /\ net'  = [net EXCEPT ![c] = "none"]
  /\ side' = [side EXCEPT ![c] = "none"]
  /\ left' = left \ {c}
  /\ UNCHANGED <<byName, registered, accepted, schedule, breaks, overlaps, doubles>>

AddConnection(c) == GetPrevious(c) \/ Refuse(c) \/ Put(c)

Handler(c) ==
  DialSucceeds(c) \/ AddConnection(c) \/ Inactive(c) \/ Accept(c) \/ Leave(c) \/ Forget(c)

Next ==
  \/ ScheduleEnds
  \/ \E c \in Channels : ConnectTo(c) \/ Handler(c) \/ DialFails(c) \/ Break(c)

(* The schedule comes round while it runs; dials end and events arrive.    *)
Fairness ==
  /\ WF_vars(\E c \in Channels : ConnectTo(c))
  /\ \A c \in Channels :
       /\ WF_vars(DialSucceeds(c)) /\ WF_vars(AddConnection(c)) /\ WF_vars(Inactive(c))
       /\ WF_vars(Accept(c)) /\ WF_vars(Leave(c)) /\ WF_vars(Forget(c))

Spec == Init /\ [][Next]_vars /\ Fairness

-----------------------------------------------------------------------------
(* Types, and that the registered connection is one whose end has not been *)
(* reported: addConnection and removeConnection at once, of channels with  *)
(* the same key, never bring back a dead one.                              *)
TypeOK ==
  /\ byName \in BOOLEAN
  /\ net \in [Channels -> {"none", "dialling", "open", "closed"}]
  /\ side \in [Channels -> {"none", "checked", "added", "refused", "gone"}]
  /\ registered \in Channels \cup {Null}
  /\ accepted \subseteq Channels /\ left \subseteq Channels
  /\ schedule \in {"runs", "ended"}
  /\ registered # Null => side[registered] = "added"
  /\ breaks \in 0..MaxBreaks /\ overlaps \in 0..MaxDuplicates
  /\ doubles \in 0..MaxDuplicates

(* Connections that work but that the dialler's registry does not hold, so  *)
(* that nobody will use or close them: a duplicate took the place of one,   *)
(* or its close removed it.                                                 *)
Orphans == {c \in Channels : net[c] = "open" /\ side[c] = "added" /\ registered # c}

(* Each of them is paid for by a dial of its own that was made while an     *)
(* earlier one was not finished or, of a TM given by its name only, while   *)
(* the TM was registered: the check-then-put of addConnection and the       *)
(* removal by key never lose two connections for one such dial, and a TM    *)
(* given by its address loses none for a dial that came alone.              *)
OrphansPaidFor == Cardinality(Orphans) <= overlaps + (IF byName THEN doubles ELSE 0)

(* Once nothing breaks a TM given by its address is registered for good,   *)
(* over a channel that is open and that the TM has registered too, unless  *)
(* the schedule ended.  One given by a name is dialled anew all the time.  *)
StaysConnected ==
  ~byName /\ <>[](schedule = "runs") =>
    <>[](registered # Null /\ net[registered] = "open" /\ registered \in accepted)
-----------------------------------------------------------------------------
(* The inductive invariant behind OrphansPaidFor.                            *)

(* Channels the dialler has registered or refused, and has not dropped,     *)
(* besides the registered one.                                              *)
Superfluous == {c \in Channels : side[c] \in {"added", "refused"} /\ registered # c}

(* A channel still on its way is superfluous too when one is registered, or *)
(* when another is on its way.                                              *)
OrphanInv ==
  /\ TypeOK
  /\ IsFiniteSet({c \in Channels : net[c] # "none"})
  /\ \A c \in Channels : net[c] \in {"none", "dialling"} => side[c] = "none"
  /\ ~byName => doubles = 0
  /\ Cardinality(Superfluous) <= overlaps + doubles
  /\ Cardinality(Superfluous) + Cardinality(Pending)
       + (IF registered = Null THEN 0 ELSE 1) <= overlaps + doubles + 1
=============================================================================
