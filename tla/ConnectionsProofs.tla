------------------------- MODULE ConnectionsProofs --------------------------
(***************************************************************************)
(* Proofs about Connections for any number of channels, breaks and          *)
(* overlapping or repeated dials.                                           *)
(***************************************************************************)
EXTENDS Connections, FiniteSetTheorems, TLAPS

LEMMA TypeInit == Init => TypeOK
BY ConnectionsAssumption DEF Init, TypeOK

LEMMA TypeStep == TypeOK /\ [Next]_vars => TypeOK'
<1> SUFFICES ASSUME TypeOK, [Next]_vars PROVE TypeOK'
  OBVIOUS
<1> USE ConnectionsAssumption DEF TypeOK
<1>1. CASE ScheduleEnds
  BY <1>1 DEF ScheduleEnds
<1>2. ASSUME NEW c \in Channels, ConnectTo(c) PROVE TypeOK'
  BY <1>2 DEF ConnectTo
<1>3. ASSUME NEW c \in Channels, Handler(c) PROVE TypeOK'
  <2>1. CASE DialSucceeds(c)  BY <2>1 DEF DialSucceeds
  <2>2. CASE GetPrevious(c)  BY <2>2 DEF GetPrevious, Active
  <2>3. CASE Refuse(c)  BY <2>3 DEF Refuse, Active
  <2>4. CASE Put(c)  BY <2>4 DEF Put
  <2>5. CASE Inactive(c)  BY <2>5 DEF Inactive, RemoveConnection
  <2>6. CASE Accept(c)  BY <2>6 DEF Accept
  <2>7. CASE Leave(c)  BY <2>7 DEF Leave
  <2>8. CASE Forget(c)  BY <2>8 DEF Forget
  <2> QED  BY <1>3, <2>1, <2>2, <2>3, <2>4, <2>5, <2>6, <2>7, <2>8 DEF Handler, AddConnection
<1>4. ASSUME NEW c \in Channels, DialFails(c) PROVE TypeOK'
  BY <1>4 DEF DialFails
<1>5. ASSUME NEW c \in Channels, Break(c) PROVE TypeOK'
  BY <1>5 DEF Break
<1>6. CASE UNCHANGED vars
  BY <1>6 DEF vars
<1> QED  BY <1>1, <1>2, <1>3, <1>4, <1>5, <1>6 DEF Next

(* Whatever order the events of the channels come in, the registered         *)
(* connection is one that was added and whose end has not been reported.     *)
THEOREM ConnectionsTypeCorrect == Spec => []TypeOK
BY TypeInit, TypeStep, PTL DEF Spec

-----------------------------------------------------------------------------
(* Counting the channels that are superfluous or on their way *)

(* The conjuncts of OrphanInv besides types.                                *)
Used == {c \in Channels : net[c] # "none"}
Quiet == \A c \in Channels : net[c] \in {"none", "dialling"} => side[c] = "none"
Taken == IF registered = Null THEN 0 ELSE 1
Paid ==
  /\ ~byName => doubles = 0
  /\ Cardinality(Superfluous) <= overlaps + doubles
  /\ Cardinality(Superfluous) + Cardinality(Pending) + Taken <= overlaps + doubles + 1

LEMMA OrphanParts ==
  /\ OrphanInv <=> TypeOK /\ IsFiniteSet(Used) /\ Quiet /\ Paid
  /\ OrphanInv' <=> TypeOK' /\ IsFiniteSet(Used)' /\ Quiet' /\ Paid'
BY DEF OrphanInv, Used, Quiet, Paid, Taken

LEMMA OrphanInit == Init => OrphanInv
<1> SUFFICES ASSUME Init PROVE OrphanInv
  OBVIOUS
<1>1. TypeOK
  BY TypeInit
<1>2. Used = {} /\ Pending = {} /\ Superfluous = {} /\ Quiet /\ Taken = 0 /\ overlaps = 0 /\ doubles = 0
  BY DEF Init, Used, Pending, Superfluous, Quiet, Taken
<1>3. IsFiniteSet(Used) /\ Paid
  BY <1>2, FS_EmptySet DEF Paid
<1> QED  BY <1>1, <1>2, <1>3, OrphanParts

LEMMA CountsExist ==
  ASSUME OrphanInv
  PROVE  /\ IsFiniteSet(Pending) /\ Cardinality(Pending) \in Nat
         /\ IsFiniteSet(Superfluous) /\ Cardinality(Superfluous) \in Nat
         /\ Taken \in Nat /\ overlaps \in Nat /\ doubles \in Nat
<1>1. IsFiniteSet(Used) /\ Quiet /\ TypeOK
  BY OrphanParts
<1>2. Pending \in SUBSET Used /\ Superfluous \in SUBSET Used
  BY <1>1 DEF Pending, Superfluous, Used, Quiet
<1>3. IsFiniteSet(Pending) /\ IsFiniteSet(Superfluous)
  BY <1>1, <1>2, FS_Subset
<1>4. Cardinality(Pending) \in Nat /\ Cardinality(Superfluous) \in Nat
  BY <1>3, FS_CardinalityType
<1>5. Taken \in Nat
  BY DEF Taken
<1>6. overlaps \in Nat /\ doubles \in Nat
  BY <1>1, ConnectionsAssumption DEF TypeOK
<1> QED  BY <1>3, <1>4, <1>5, <1>6

LEMMA UsedStep == OrphanInv /\ [Next]_vars => IsFiniteSet(Used)'
<1> SUFFICES ASSUME OrphanInv, [Next]_vars PROVE IsFiniteSet(Used')
  BY DEF Used
<1>0. IsFiniteSet(Used) /\ TypeOK
  BY OrphanParts
<1>1. ASSUME NEW c \in Channels, net' = [net EXCEPT ![c] = net'[c]] PROVE IsFiniteSet(Used')
  <2>1. Used' \in SUBSET (Used \cup {c})
    BY <1>0, <1>1 DEF Used, TypeOK
  <2>2. IsFiniteSet(Used \cup {c})
    BY <1>0, FS_AddElement
  <2> QED  BY <2>1, <2>2, FS_Subset
<1>2. CASE net' = net
  BY <1>0, <1>2 DEF Used
<1>3. ASSUME NEW c \in Channels,
             ConnectTo(c) \/ DialFails(c) \/ DialSucceeds(c) \/ Break(c) \/ Forget(c) \/ Refuse(c)
      PROVE  net' = [net EXCEPT ![c] = net'[c]]
  BY <1>0, <1>3 DEF ConnectTo, DialFails, DialSucceeds, Break, Forget, Refuse, TypeOK
<1>4. ASSUME NEW c \in Channels,
             GetPrevious(c) \/ Put(c) \/ Inactive(c) \/ Accept(c) \/ Leave(c)
      PROVE  net' = net
  BY <1>4 DEF GetPrevious, Put, Inactive, Accept, Leave
<1> QED  BY <1>1, <1>2, <1>3, <1>4 DEF Next, Handler, AddConnection, ScheduleEnds, vars

LEMMA QuietStep == OrphanInv /\ [Next]_vars => Quiet'
<1> SUFFICES ASSUME OrphanInv, [Next]_vars PROVE Quiet'
  OBVIOUS
<1>0. Quiet /\ TypeOK
  BY OrphanParts
<1> USE <1>0 DEF Quiet, TypeOK
<1>1. ASSUME NEW c \in Channels, ConnectTo(c) \/ DialFails(c) \/ DialSucceeds(c) \/ Break(c)
      PROVE  Quiet'
  BY <1>1 DEF ConnectTo, DialFails, DialSucceeds, Break
<1>2. ASSUME NEW c \in Channels, Forget(c) PROVE Quiet'
  BY <1>2 DEF Forget
<1>3. ASSUME NEW c \in Channels, GetPrevious(c) \/ Refuse(c) PROVE Quiet'
  BY <1>3 DEF GetPrevious, Refuse, Active
<1>4. ASSUME NEW c \in Channels, Put(c) \/ Inactive(c) PROVE Quiet'
  BY <1>4 DEF Put, Inactive
<1>5. CASE UNCHANGED <<net, side>>
  BY <1>5
<1> QED
  BY <1>1, <1>2, <1>3, <1>4, <1>5 DEF Next, Handler, AddConnection, Accept, Leave, ScheduleEnds, vars

(* A dial costs an overlap or a double unless nothing is on its way and the  *)
(* TM is not registered.                                                     *)
LEMMA ConnectPaid == ASSUME OrphanInv, NEW c \in Channels, ConnectTo(c) PROVE Paid'
<1>0. TypeOK /\ Quiet /\ Paid
  BY OrphanParts
<1> DEFINE s == Cardinality(Superfluous)  p == Cardinality(Pending)
<1>1. Pending' = Pending \cup {c} /\ c \notin Pending /\ Superfluous' = Superfluous
  BY <1>0 DEF ConnectTo, Pending, Superfluous, TypeOK
<1>2. Cardinality(Pending)' = p + 1 /\ Cardinality(Superfluous)' = s
  BY <1>1, CountsExist, FS_AddElement
<1>3. Taken' = Taken /\ byName' = byName /\ (~byName => registered = Null)
  BY DEF ConnectTo, ExistConnect, Taken
<1>4. s \in Nat /\ p \in Nat /\ overlaps \in Nat /\ doubles \in Nat /\ Taken \in Nat
  BY CountsExist
<1>5. ASSUME Pending = {}, registered = Null, overlaps' = overlaps, doubles' = doubles
      PROVE  Paid'
  <2>1. p = 0 /\ Taken = 0
    BY <1>5, FS_EmptySet DEF Taken
  <2> QED  BY <1>0, <1>2, <1>3, <1>4, <1>5, <2>1 DEF Paid
<1>6. ASSUME overlaps' = overlaps + 1, doubles' = doubles PROVE Paid'
  BY <1>0, <1>2, <1>3, <1>4, <1>6 DEF Paid
<1>7. ASSUME registered # Null, doubles' = doubles + 1, overlaps' = overlaps PROVE Paid'
  BY <1>0, <1>2, <1>3, <1>4, <1>7 DEF Paid
<1> QED  BY <1>5, <1>6, <1>7 DEF ConnectTo

LEMMA DialFailsPaid == ASSUME OrphanInv, NEW c \in Channels, DialFails(c) PROVE Paid'
<1>0. TypeOK /\ Quiet /\ Paid
  BY OrphanParts
<1>1. /\ Pending' = Pending \ {c} /\ c \in Pending
      /\ Superfluous' = Superfluous /\ Taken' = Taken /\ UNCHANGED <<byName, overlaps, doubles>>
  BY <1>0 DEF DialFails, Pending, Superfluous, Taken, TypeOK, Quiet
<1>2. Cardinality(Pending)' = Cardinality(Pending) - 1
  BY <1>1, CountsExist, FS_RemoveElement
<1> QED  BY <1>0, <1>1, <1>2, CountsExist DEF Paid

(* A channel that is refused was on its way and is superfluous. *)
LEMMA RefusePaid == ASSUME OrphanInv, NEW c \in Channels, Refuse(c) PROVE Paid'
<1>0. TypeOK /\ Quiet /\ Paid
  BY OrphanParts
<1>1. /\ Pending' = Pending \ {c} /\ c \in Pending
      /\ Superfluous' = Superfluous \cup {c} /\ c \notin Superfluous
      /\ Taken = 1 /\ Taken' = 1 /\ UNCHANGED <<byName, overlaps, doubles>>
  BY <1>0 DEF Refuse, Active, Previous, Pending, Superfluous, Taken, TypeOK, Quiet
<1>2. Cardinality(Pending)' = Cardinality(Pending) - 1
  BY <1>1, CountsExist, FS_RemoveElement
<1>3. Cardinality(Superfluous)' = Cardinality(Superfluous) + 1
  BY <1>1, CountsExist, FS_AddElement
<1>4. Cardinality(Pending)' \in Nat
  <2>1. IsFiniteSet(Pending')
    BY <1>1, CountsExist, FS_RemoveElement
  <2> QED  BY <2>1, FS_CardinalityType
<1> QED  BY <1>0, <1>1, <1>2, <1>3, <1>4, CountsExist DEF Paid

(* A channel that is put in makes the previous one superfluous, if any. *)
LEMMA PutPaid == ASSUME OrphanInv, NEW c \in Channels, Put(c) PROVE Paid'
<1>0. TypeOK /\ Quiet /\ Paid
  BY OrphanParts
<1>1. /\ Pending' = Pending \ {c} /\ c \in Pending
      /\ Taken' = 1 /\ UNCHANGED <<byName, overlaps, doubles>>
  BY <1>0, ConnectionsAssumption DEF Put, Pending, Taken, TypeOK, Quiet
<1>2. Cardinality(Pending)' = Cardinality(Pending) - 1
  BY <1>1, CountsExist, FS_RemoveElement
<1>3. Cardinality(Pending)' \in Nat
  <2>1. IsFiniteSet(Pending')
    BY <1>1, CountsExist, FS_RemoveElement
  <2> QED  BY <2>1, FS_CardinalityType
<1>4. CASE registered = Null
  <2>1. Superfluous' = Superfluous /\ Taken = 0
    BY <1>0, <1>4, ConnectionsAssumption DEF Put, Superfluous, Taken, TypeOK
  <2> QED  BY <1>0, <1>1, <1>2, <1>3, <2>1, CountsExist DEF Paid
<1>5. CASE registered # Null
  <2>1. /\ Superfluous' = Superfluous \cup {registered} /\ registered \notin Superfluous
        /\ Taken = 1
    BY <1>0, <1>5 DEF Put, Superfluous, Taken, TypeOK
  <2>2. Cardinality(Superfluous)' = Cardinality(Superfluous) + 1
    BY <2>1, CountsExist, FS_AddElement
  <2> QED  BY <1>0, <1>1, <1>2, <1>3, <2>1, <2>2, CountsExist DEF Paid
<1> QED  BY <1>4, <1>5

(* The close of a superfluous channel makes the registered one superfluous. *)
LEMMA InactivePaid == ASSUME OrphanInv, NEW c \in Channels, Inactive(c) PROVE Paid'
<1>0. TypeOK /\ Quiet /\ Paid
  BY OrphanParts
<1>1. Pending' = Pending /\ Taken' = 0 /\ UNCHANGED <<byName, overlaps, doubles>>
  BY <1>0 DEF Inactive, RemoveConnection, Pending, Taken, TypeOK
<1>2. CASE registered = c
  <2>1. Superfluous' = Superfluous
    BY <1>0, <1>2, ConnectionsAssumption DEF Inactive, RemoveConnection, Superfluous, TypeOK
  <2> QED  BY <1>0, <1>1, <2>1, CountsExist DEF Paid, Taken
<1>3. ASSUME registered # c
      PROVE  /\ c \in Superfluous /\ IsFiniteSet(Superfluous \ {c})
             /\ Cardinality(Superfluous \ {c}) = Cardinality(Superfluous) - 1
  <2>1. c \in Superfluous
    BY <1>3 DEF Inactive, Superfluous
  <2> QED  BY <2>1, CountsExist, FS_RemoveElement
<1>4. CASE registered = Null
  <2>1. Superfluous' = Superfluous \ {c} /\ registered # c
    BY <1>0, <1>4, ConnectionsAssumption DEF Inactive, RemoveConnection, Superfluous, TypeOK
  <2> QED  BY <1>0, <1>1, <1>3, <2>1, CountsExist DEF Paid, Taken
<1>5. CASE registered # Null /\ registered # c
  <2>1. /\ Superfluous' = (Superfluous \ {c}) \cup {registered}
        /\ registered \notin Superfluous \ {c}
    BY <1>0, <1>5, ConnectionsAssumption DEF Inactive, RemoveConnection, Superfluous, TypeOK
  <2>2. Cardinality(Superfluous)' = Cardinality(Superfluous \ {c}) + 1
    BY <1>3, <1>5, <2>1, FS_AddElement
  <2> QED  BY <1>0, <1>1, <1>3, <1>5, <2>2, CountsExist DEF Paid, Taken
<1> QED  BY <1>2, <1>4, <1>5

LEMMA OthersPaid ==
  ASSUME OrphanInv, NEW c \in Channels,
         DialSucceeds(c) \/ GetPrevious(c) \/ Break(c) \/ Forget(c)
  PROVE  Paid'
<1>0. TypeOK /\ Quiet /\ Paid
  BY OrphanParts
<1>1. CASE DialSucceeds(c) \/ Break(c)
  <2>1. Pending' = Pending
    BY <1>0, <1>1 DEF DialSucceeds, Break, Pending, TypeOK, Quiet
  <2> QED  BY <1>0, <1>1, <2>1 DEF DialSucceeds, Break, Superfluous, Taken, Paid
<1>2. CASE GetPrevious(c)
  <2>1. Pending' = Pending /\ Superfluous' = Superfluous
    BY <1>0, <1>2 DEF GetPrevious, Active, Pending, Superfluous, TypeOK
  <2> QED  BY <1>0, <1>2, <2>1 DEF GetPrevious, Taken, Paid
<1>3. CASE Forget(c)
  <2>1. Pending' = Pending /\ Superfluous' = Superfluous
    BY <1>0, <1>3 DEF Forget, Pending, Superfluous, TypeOK
  <2> QED  BY <1>0, <1>3, <2>1 DEF Forget, Taken, Paid
<1> QED  BY <1>1, <1>2, <1>3

LEMMA OrphanStep == OrphanInv /\ [Next]_vars => OrphanInv'
<1> SUFFICES ASSUME OrphanInv, [Next]_vars PROVE OrphanInv'
  OBVIOUS
<1>1. TypeOK' /\ IsFiniteSet(Used)' /\ Quiet'
  BY OrphanParts, TypeStep, UsedStep, QuietStep
<1>2. ASSUME NEW c \in Channels, ConnectTo(c) \/ DialFails(c) PROVE Paid'
  BY <1>2, ConnectPaid, DialFailsPaid
<1>3. ASSUME NEW c \in Channels, AddConnection(c) \/ Inactive(c) PROVE Paid'
  BY <1>3, OthersPaid, RefusePaid, PutPaid, InactivePaid DEF AddConnection
<1>4. ASSUME NEW c \in Channels, DialSucceeds(c) \/ Break(c) \/ Forget(c) PROVE Paid'
  BY <1>4, OthersPaid
<1>5. ASSUME UNCHANGED <<byName, net, side, registered, overlaps, doubles>> PROVE Paid'
  <2>1. Superfluous' = Superfluous /\ Pending' = Pending /\ Taken' = Taken
    BY <1>5 DEF Superfluous, Pending, Taken
  <2> QED  BY <1>5, <2>1, OrphanParts DEF Paid
<1>6. Paid'
  <2>1. ASSUME NEW c \in Channels, Accept(c) \/ Leave(c) PROVE Paid'
    BY <1>5, <2>1 DEF Accept, Leave
  <2>2. CASE ScheduleEnds \/ UNCHANGED vars
    BY <1>5, <2>2 DEF ScheduleEnds, vars
  <2> QED  BY <1>2, <1>3, <1>4, <2>1, <2>2 DEF Next, Handler
<1> QED  BY <1>1, <1>6, OrphanParts

(* However many channels there are and however their events come between      *)
(* each other, no more working connections are lost for the dialler than it   *)
(* has made dials while an earlier one was not finished or, of a TM that is   *)
(* configured by a host name, while the TM was registered.                    *)
THEOREM DuplicateDialsPayForOrphans == Spec => []OrphansPaidFor
<1>1. OrphanInv => OrphansPaidFor
  <2> SUFFICES ASSUME OrphanInv
               PROVE  Cardinality(Orphans) <= overlaps + (IF byName THEN doubles ELSE 0)
    BY DEF OrphansPaidFor
  <2>1. Orphans \in SUBSET Superfluous
    BY DEF Orphans, Superfluous
  <2>2. IsFiniteSet(Orphans) /\ Cardinality(Orphans) <= Cardinality(Superfluous)
    BY <2>1, CountsExist, FS_Subset
  <2>3. Cardinality(Orphans) \in Nat
    BY <2>2, FS_CardinalityType
  <2>4. Cardinality(Superfluous) <= overlaps + (IF byName THEN doubles ELSE 0)
    BY CountsExist, OrphanParts DEF Paid
  <2> QED  BY <2>2, <2>3, <2>4, CountsExist
<1> QED  BY <1>1, OrphanInit, OrphanStep, PTL DEF Spec
=============================================================================
