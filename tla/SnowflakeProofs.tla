-------------------------- MODULE SnowflakeProofs --------------------------
(***************************************************************************)
(* Proofs about Snowflake for any TMs, field sizes and clock readings.      *)
(***************************************************************************)
EXTENDS Snowflake, TLAPS

(* Places of a number in base S: the lower digit never makes up for the     *)
(* upper one.                                                               *)
LEMMA UpperDigitDecides ==
  ASSUME NEW S \in Nat \ {0}, NEW a \in Int, NEW b \in Int, a < b,
         NEW x \in 0 .. S - 1, NEW y \in 0 .. S - 1
  PROVE  a * S + x < b * S + y
<1>1. b - a - 1 \in Nat
  OBVIOUS
<1>2. (b - a - 1) * S >= 0
  BY <1>1
<1>3. (b - a - 1) * S = b * S - a * S - S
  OBVIOUS
<1>4. a * S \in Int /\ b * S \in Int
  OBVIOUS
<1> QED  BY <1>2, <1>3, <1>4

LEMMA DigitsAreUnique ==
  ASSUME NEW S \in Nat \ {0}, NEW a \in Int, NEW b \in Int,
         NEW x \in 0 .. S - 1, NEW y \in 0 .. S - 1, a * S + x = b * S + y
  PROVE  a = b
<1>1. ASSUME a < b PROVE FALSE
  <2>1. a * S + x < b * S + y
    BY <1>1, UpperDigitDecides
  <2> QED  BY <2>1
<1>2. ASSUME b < a PROVE FALSE
  <2>1. b * S + y < a * S + x
    BY <1>2, UpperDigitDecides
  <2> QED  BY <2>1
<1> QED  BY <1>1, <1>2

LEMMA IdInNat ==
  ASSUME NEW t \in Tms, NEW m \in Nat, NEW q \in 0 .. SequenceSize - 1
  PROVE  Id(t, m, q) \in Nat
<1>1. Node[t] \in Nat /\ m * Nodes \in Nat
  BY SizesAssumption
<1>2. m * Nodes + Node[t] \in Nat
  BY <1>1
<1>3. (m * Nodes + Node[t]) * SequenceSize \in Nat
  BY <1>2, SizesAssumption
<1> QED  BY <1>3, SizesAssumption DEF Id

(* Of two ids of one TM the later millisecond's is the greater. *)
LEMMA LaterIsGreater ==
  ASSUME NEW t \in Tms, NEW m \in Int, NEW n \in Int, m < n,
         NEW p \in 0 .. SequenceSize - 1, NEW q \in 0 .. SequenceSize - 1
  PROVE  Id(t, m, p) < Id(t, n, q)
<1>1. m * Nodes + Node[t] < n * Nodes + Node[t]
  BY SizesAssumption, UpperDigitDecides
<1>2. m * Nodes + Node[t] \in Int /\ n * Nodes + Node[t] \in Int
  BY SizesAssumption
<1> QED  BY <1>1, <1>2, SizesAssumption, UpperDigitDecides DEF Id

-----------------------------------------------------------------------------
(* Type correctness *)

LEMMA TypeInit == Init => TypeOK
BY SizesAssumption DEF Init, TypeOK, history

LEMMA IssueTypes ==
  ASSUME TypeOK, NEW t \in Tms, NEW m \in Times, NEW q \in 0 .. SequenceSize - 1, Issue(t, m, q)
  PROVE  /\ lastTimestamp' \in [Tms -> Times \cup {-1}]
         /\ sequence' \in [Tms -> 0 .. SequenceSize - 1]
         /\ issued' \in [Tms -> Seq(Nat)]
<1>1. Id(t, m, q) \in Nat
  BY IdInNat, SizesAssumption
<1> QED  BY <1>1 DEF TypeOK, Issue

LEMMA Numbers ==
  ASSUME TypeOK, NEW t \in Tms
  PROVE  /\ clock[t] \in Times /\ clock[t] \in Nat
         /\ lastTimestamp[t] \in Int
         /\ lastTimestamp[t] >= 0 => lastTimestamp[t] \in Times
         /\ former[t] \in Times \cup {-1} /\ former[t] \in Int
         /\ sequence[t] \in 0 .. SequenceSize - 1 /\ sequence[t] \in Int
         /\ 0 \in 0 .. SequenceSize - 1 /\ SequenceSize - 1 \in 0 .. SequenceSize - 1
         /\ Node[t] \in Nat /\ Nodes \in Nat /\ SequenceSize \in Nat
<1>1. clock[t] \in Times /\ \A m \in Times : m \in Nat
  BY SizesAssumption DEF TypeOK
<1>2. lastTimestamp[t] \in Times \/ lastTimestamp[t] = -1
  BY DEF TypeOK
<1>3. lastTimestamp[t] \in Int /\ (lastTimestamp[t] >= 0 => lastTimestamp[t] \in Times)
  <2>1. CASE lastTimestamp[t] \in Times
    <3>1. lastTimestamp[t] \in Nat
      BY <1>1, <2>1
    <3> QED  BY <2>1, <3>1
  <2>2. CASE lastTimestamp[t] = -1
    BY <2>2
  <2> QED  BY <1>2, <2>1, <2>2
<1>4. sequence[t] \in 0 .. SequenceSize - 1 /\ SequenceSize \in Nat \ {0}
  BY SizesAssumption DEF TypeOK
<1>5. Node[t] \in Nat /\ Nodes \in Nat
  BY SizesAssumption
<1>6. clock[t] \in Nat
  BY <1>1
<1>7. former[t] \in Times \cup {-1} /\ former[t] \in Int
  BY <1>1 DEF TypeOK
<1> QED  BY <1>1, <1>3, <1>4, <1>5, <1>6, <1>7

(* Every id is handed out for a reading of the clock. *)
LEMMA TimestampIsReading ==
  ASSUME TypeOK, NEW t \in Tms, AtLastTimestamp(t)
  PROVE  lastTimestamp[t] \in Times
BY Numbers DEF AtLastTimestamp

LEMMA NextSequenceType ==
  ASSUME TypeOK, NEW t \in Tms
  PROVE  /\ NextSequence(t) \in 0 .. SequenceSize - 1
         /\ NextSequence(t) # 0 => NextSequence(t) = sequence[t] + 1
         /\ NextSequence(t) = 0 => sequence[t] = SequenceSize - 1
         /\ 0 \in 0 .. SequenceSize - 1 /\ SequenceSize - 1 \in 0 .. SequenceSize - 1
<1>1. sequence[t] \in Nat /\ sequence[t] < SequenceSize /\ SequenceSize \in Nat \ {0}
  BY SizesAssumption DEF TypeOK
<1>2. CASE sequence[t] + 1 < SequenceSize
  BY <1>1, <1>2 DEF NextSequence
<1>3. CASE sequence[t] + 1 = SequenceSize
  <2>1. NextSequence(t) = 0
    BY <1>1, <1>3 DEF NextSequence
  <2> QED  BY <1>1, <1>3, <2>1
<1> QED  BY <1>1, <1>2, <1>3

LEMMA TypeStep == TypeOK /\ [Next]_vars => TypeOK'
<1> SUFFICES ASSUME TypeOK, [Next]_vars PROVE TypeOK'
  OBVIOUS
<1> USE DEF history
<1>1. ASSUME NEW t \in Tms, ClockMoves(t) PROVE TypeOK'
  BY <1>1 DEF ClockMoves, TypeOK
<1>2. ASSUME NEW t \in Tms, NextMillisecond(t) PROVE TypeOK'
  <2>1. Issue(t, clock[t], 0) /\ clock[t] \in Times
    BY <1>2 DEF NextMillisecond, TypeOK
  <2> QED  BY <1>2, <2>1, IssueTypes, NextSequenceType DEF NextMillisecond, TypeOK
<1>3. ASSUME NEW t \in Tms, SameMillisecond(t) PROVE TypeOK'
  <2>1. Issue(t, lastTimestamp[t], NextSequence(t)) /\ lastTimestamp[t] \in Times
    BY <1>3, TimestampIsReading DEF SameMillisecond
  <2> QED  BY <1>3, <2>1, IssueTypes, NextSequenceType DEF SameMillisecond, TypeOK
<1>4. ASSUME NEW t \in Tms, Overflow(t) PROVE TypeOK'
  BY <1>4, NextSequenceType DEF Overflow, TypeOK
<1>5. ASSUME NEW t \in Tms, TilNextMillis(t) PROVE TypeOK'
  <2>1. Issue(t, clock[t], 0) /\ clock[t] \in Times
    BY <1>5 DEF TilNextMillis, TypeOK
  <2> QED  BY <1>5, <2>1, IssueTypes, NextSequenceType DEF TilNextMillis, TypeOK
<1>6. ASSUME NEW t \in Tms, ClockMovedBackwards(t) PROVE TypeOK'
  BY <1>6 DEF ClockMovedBackwards, TypeOK
<1>7. ASSUME NEW t \in Tms, Restart(t) PROVE TypeOK'
  <2>1. 0 \in 0 .. SequenceSize - 1
    BY Numbers
  <2> QED  BY <1>7, <2>1 DEF Restart, TypeOK
<1>8. CASE UNCHANGED vars
  BY <1>8 DEF vars, TypeOK
<1> QED
  BY <1>1, <1>2, <1>3, <1>4, <1>5, <1>6, <1>7, <1>8 DEF Next, NextId, Refuse

(* The fields stay within their widths whatever the clock does: the masked  *)
(* sequence never spills into the node number.                              *)
THEOREM SnowflakeTypeCorrect == Spec => []TypeOK
<1>1. Init => TypeOK
  BY TypeInit
<1>2. TypeOK /\ [Next]_vars => TypeOK'
  BY TypeStep
<1> QED  BY <1>1, <1>2, PTL DEF Spec

-----------------------------------------------------------------------------
(* The ids of one node number ascend until something goes wrong with time *)

LEMMA AscendInit == Init => AscendInv
<1> SUFFICES ASSUME Init PROVE AscendInv
  OBVIOUS
<1>1. TypeOK
  BY TypeInit
<1>2. \A t \in Tms : issued[t] = <<>> /\ lastTimestamp[t] = -1 /\ ~spinning[t]
  BY DEF Init
<1>3. SpinsAfterIssuing /\ IssuedUpToLast /\ IdsAscend
  BY <1>2 DEF SpinsAfterIssuing, IssuedUpToLast, IdsAscend
<1> QED  BY <1>1, <1>3 DEF AscendInv

LEMMA UsedUpToInt ==
  ASSUME TypeOK, NEW t \in Tms
  PROVE  UsedUpTo(t) \in Int
BY Numbers DEF UsedUpTo, Exhausted, LastId, Id

(* An id above all that are used up goes to the end of the list. *)
LEMMA IssueAscends ==
  ASSUME AscendInv, NEW t \in Tms, NEW m \in Times, NEW q \in 0 .. SequenceSize - 1,
         Issue(t, m, q), spinning' = [spinning EXCEPT ![t] = FALSE],
         threw' = threw, former' = former,
         \A s \in Tms : s # t => behind'[s] = behind[s],
         ~behind'[t] => ~behind[t] /\ UsedUpTo(t) < Id(t, m, q)
  PROVE  IssuedUpToLast' /\ IdsAscend'
<1> USE DEF AscendInv
<1>1. /\ lastTimestamp' = [lastTimestamp EXCEPT ![t] = m]
      /\ sequence' = [sequence EXCEPT ![t] = q]
      /\ issued'[t] = Append(issued[t], Id(t, m, q))
      /\ \A s \in Tms : s # t => issued'[s] = issued[s]
  BY DEF Issue, TypeOK
<1>4. \A s \in Tms : s # t => UsedUpTo(s)' = UsedUpTo(s)
  BY <1>1 DEF UsedUpTo, Exhausted, LastId, TypeOK
<1>2. CASE threw[t] \/ behind'[t]
  BY <1>1, <1>2, <1>4 DEF IssuedUpToLast, IdsAscend
<1>a. SUFFICES ASSUME ~threw[t], ~behind'[t] PROVE IssuedUpToLast' /\ IdsAscend'
  BY <1>2
<1>b. ~behind[t] /\ UsedUpTo(t) < Id(t, m, q)
  BY <1>a
<1>3. UsedUpTo(t)' = Id(t, m, q)
  <2>1. m # -1
    BY SizesAssumption
  <2> QED  BY <1>1, <2>1 DEF UsedUpTo, Exhausted, LastId, TypeOK
<1> DEFINE new == Id(t, m, q)
<1>5. new \in Nat
  BY IdInNat, SizesAssumption
<1>6. UsedUpTo(t) \in Int
  BY UsedUpToInt
<1>7. issued[t] \in Seq(Nat) /\ \A i \in DOMAIN issued[t] : issued[t][i] <= UsedUpTo(t)
  BY <1>a, <1>b DEF IssuedUpToLast, TypeOK
<1> HIDE DEF new
<1>8. /\ issued'[t] \in Seq(Nat)
      /\ DOMAIN issued'[t] = 1 .. Len(issued[t]) + 1
      /\ issued'[t][Len(issued[t]) + 1] = new
      /\ \A i \in DOMAIN issued[t] : issued'[t][i] = issued[t][i]
      /\ DOMAIN issued[t] = 1 .. Len(issued[t]) /\ Len(issued[t]) \in Nat
  BY <1>1, <1>5, <1>7 DEF new
<1>9. \A i \in DOMAIN issued[t] : issued[t][i] < new /\ issued[t][i] \in Nat
  BY <1>b, <1>5, <1>6, <1>7 DEF new
<1>10. \A i \in DOMAIN issued'[t] : issued'[t][i] <= new
  <2> SUFFICES ASSUME NEW i \in DOMAIN issued'[t] PROVE issued'[t][i] <= new
    OBVIOUS
  <2>1. CASE i \in DOMAIN issued[t]
    <3>1. issued'[t][i] = issued[t][i]  BY <1>8, <2>1
    <3>2. issued[t][i] < new /\ issued[t][i] \in Nat  BY <1>9, <2>1
    <3> QED  BY <1>5, <3>1, <3>2
  <2>2. CASE i = Len(issued[t]) + 1
    BY <1>5, <1>8, <2>2
  <2> QED  BY <1>8, <2>1, <2>2
<1>11. IssuedUpToLast'
  BY <1>1, <1>3, <1>4, <1>10 DEF IssuedUpToLast, new
<1>12. \A i, j \in DOMAIN issued[t] : i < j => issued[t][i] < issued[t][j]
  BY <1>a, <1>b DEF IdsAscend
<1>13. \A i, j \in DOMAIN issued'[t] : i < j => issued'[t][i] < issued'[t][j]
  <2> SUFFICES ASSUME NEW i \in DOMAIN issued'[t], NEW j \in DOMAIN issued'[t], i < j
               PROVE  issued'[t][i] < issued'[t][j]
    OBVIOUS
  <2>1. i \in DOMAIN issued[t]
    BY <1>8
  <2>2. CASE j \in DOMAIN issued[t]
    <3>1. issued'[t][i] = issued[t][i] /\ issued'[t][j] = issued[t][j]
      BY <1>8, <2>1, <2>2
    <3>2. issued[t][i] < issued[t][j]
      BY <1>12, <2>1, <2>2
    <3> QED  BY <3>1, <3>2
  <2>3. CASE j = Len(issued[t]) + 1
    <3>1. issued'[t][i] = issued[t][i] /\ issued'[t][j] = new
      BY <1>8, <2>1, <2>3
    <3>2. issued[t][i] < new
      BY <1>9, <2>1
    <3> QED  BY <3>1, <3>2
  <2>4. j \in DOMAIN issued[t] \/ j = Len(issued[t]) + 1
    <3>1. PICK n \in Nat : DOMAIN issued[t] = 1 .. n /\ DOMAIN issued'[t] = 1 .. n + 1 /\ n = Len(issued[t])
      BY <1>8
    <3>2. j \in 1 .. n + 1
      BY <3>1
    <3> QED  BY <3>1, <3>2
  <2> QED  BY <2>2, <2>3, <2>4
<1>14. IdsAscend'
  BY <1>1, <1>13 DEF IdsAscend
<1> QED  BY <1>11, <1>14

LEMMA SpinsStep == AscendInv /\ [Next]_vars => SpinsAfterIssuing'
<1> SUFFICES ASSUME AscendInv, [Next]_vars PROVE SpinsAfterIssuing'
  OBVIOUS
<1> USE DEF AscendInv, SpinsAfterIssuing, history
<1>0. TypeOK
  OBVIOUS
<1>1. ASSUME NEW t \in Tms, NextMillisecond(t) \/ TilNextMillis(t) \/ SameMillisecond(t)
      PROVE  SpinsAfterIssuing'
  BY <1>0, <1>1 DEF NextMillisecond, TilNextMillis, SameMillisecond, MayCall, Issue, TypeOK
<1>2. ASSUME NEW t \in Tms, Overflow(t) PROVE SpinsAfterIssuing'
  <2>1. lastTimestamp[t] # -1
    BY <1>0, <1>2, Numbers DEF Overflow, AtLastTimestamp
  <2> QED  BY <1>0, <1>2, <2>1 DEF Overflow, TypeOK
<1>3. ASSUME NEW t \in Tms, ClockMovedBackwards(t) PROVE SpinsAfterIssuing'
  BY <1>0, <1>3 DEF ClockMovedBackwards, TypeOK
<1>4. ASSUME NEW t \in Tms, Restart(t) PROVE SpinsAfterIssuing'
  BY <1>0, <1>4 DEF Restart, TypeOK
<1>5. CASE UNCHANGED <<lastTimestamp, spinning>>
  BY <1>5
<1> QED
  BY <1>1, <1>2, <1>3, <1>4, <1>5 DEF Next, NextId, ClockMoves, Refuse, vars

LEMMA AscendStep == AscendInv /\ [Next]_vars => AscendInv'
<1> SUFFICES ASSUME AscendInv, [Next]_vars PROVE IssuedUpToLast' /\ IdsAscend'
  BY TypeStep, SpinsStep DEF AscendInv
<1>0. TypeOK
  BY DEF AscendInv
<1> USE DEF history
<1>a. ASSUME NEW t \in Tms
      PROVE  /\ clock[t] \in Times /\ clock[t] \in Nat /\ lastTimestamp[t] \in Int
             /\ sequence[t] \in 0 .. SequenceSize - 1 /\ 0 \in 0 .. SequenceSize - 1
             /\ SequenceSize - 1 \in 0 .. SequenceSize - 1 /\ former[t] \in Int
  BY <1>0, Numbers
<1>b. ASSUME NEW t \in Tms, lastTimestamp[t] # -1, lastTimestamp[t] < clock[t]
      PROVE  UsedUpTo(t) < Id(t, clock[t], 0)
  BY <1>a, <1>b, LaterIsGreater DEF UsedUpTo, Exhausted, LastId
<1>1. ASSUME NEW t \in Tms, NextMillisecond(t) PROVE IssuedUpToLast' /\ IdsAscend'
  <2>1. /\ Issue(t, clock[t], 0) /\ lastTimestamp[t] < clock[t] /\ threw' = threw /\ former' = former
        /\ behind' = [behind EXCEPT ![t] = @ \/ clock[t] <= former[t]]
    BY <1>1, <1>a DEF NextMillisecond
  <2>2. \A s \in Tms : s # t => behind'[s] = behind[s]
    BY <1>0, <2>1 DEF TypeOK
  <2>3. ASSUME ~behind'[t] PROVE ~behind[t] /\ UsedUpTo(t) < Id(t, clock[t], 0)
    <3>1. ~behind[t] /\ ~(clock[t] <= former[t])
      BY <1>0, <2>1, <2>3 DEF TypeOK
    <3>2. CASE lastTimestamp[t] = -1
      <4>1. former[t] < clock[t]
        BY <1>a, <3>1
      <4>2. UsedUpTo(t) = Id(t, former[t], SequenceSize - 1)
        BY <3>2 DEF UsedUpTo
      <4>3. Id(t, former[t], SequenceSize - 1) < Id(t, clock[t], 0)
        BY <1>a, <4>1, LaterIsGreater
      <4> QED  BY <3>1, <4>2, <4>3
    <3>3. CASE lastTimestamp[t] # -1
      BY <1>b, <2>1, <3>1, <3>3
    <3> QED  BY <3>1, <3>2, <3>3
  <2>4. spinning' = [spinning EXCEPT ![t] = FALSE]
    BY <1>0, <1>1 DEF NextMillisecond, MayCall, TypeOK
  <2> QED  BY <1>a, <2>1, <2>2, <2>3, <2>4, IssueAscends
<1>2. ASSUME NEW t \in Tms, TilNextMillis(t) PROVE IssuedUpToLast' /\ IdsAscend'
  <2>1. /\ Issue(t, clock[t], 0) /\ lastTimestamp[t] < clock[t] /\ UNCHANGED history
        /\ lastTimestamp[t] # -1 /\ spinning' = [spinning EXCEPT ![t] = FALSE]
    BY <1>2, <1>a DEF TilNextMillis, AscendInv, SpinsAfterIssuing
  <2>2. UsedUpTo(t) < Id(t, clock[t], 0)
    BY <1>b, <2>1
  <2> QED  BY <1>a, <2>1, <2>2, IssueAscends
<1>3. ASSUME NEW t \in Tms, SameMillisecond(t) PROVE IssuedUpToLast' /\ IdsAscend'
  <2> DEFINE m == lastTimestamp[t]  q == NextSequence(t)
  <2>1. /\ Issue(t, m, q) /\ spinning' = spinning /\ ~spinning[t] /\ UNCHANGED history
        /\ m \in Times /\ q \in 0 .. SequenceSize - 1 /\ q = sequence[t] + 1
    BY <1>0, <1>3, NextSequenceType, TimestampIsReading DEF SameMillisecond, MayCall
  <2>2. UsedUpTo(t) < Id(t, m, q)
    <3>1. (m * Nodes + Node[t]) * SequenceSize \in Int
      BY <1>a, SizesAssumption
    <3>2. m # -1
      BY <2>1, SizesAssumption
    <3>3. UsedUpTo(t) = (m * Nodes + Node[t]) * SequenceSize + sequence[t]
      BY <2>1, <3>2 DEF UsedUpTo, Exhausted, LastId, Id
    <3> QED  BY <1>a, <2>1, <3>1, <3>3 DEF Id
  <2>3. spinning' = [spinning EXCEPT ![t] = FALSE]
    BY <1>0, <2>1 DEF TypeOK
  <2> HIDE DEF q
  <2> QED  BY <2>1, <2>2, <2>3, IssueAscends
<1>4. ASSUME NEW t \in Tms, Overflow(t) PROVE IssuedUpToLast' /\ IdsAscend'
  <2>1. /\ sequence' = [sequence EXCEPT ![t] = 0] /\ spinning' = [spinning EXCEPT ![t] = TRUE]
        /\ UNCHANGED <<clock, lastTimestamp, issued, history>> /\ ~spinning[t]
        /\ sequence[t] = SequenceSize - 1
    BY <1>0, <1>4, NextSequenceType DEF Overflow, MayCall
  <2>2. \A s \in Tms : UsedUpTo(s)' = UsedUpTo(s)
    BY <1>0, <2>1 DEF UsedUpTo, Exhausted, LastId, Id, TypeOK
  <2> QED  BY <2>1, <2>2 DEF AscendInv, IssuedUpToLast, IdsAscend
<1>5. ASSUME NEW t \in Tms, ClockMovedBackwards(t) PROVE IssuedUpToLast' /\ IdsAscend'
  <2>1. /\ threw'[t] /\ issued' = issued /\ behind' = behind
        /\ \A s \in Tms : s # t => threw'[s] = threw[s] /\ UsedUpTo(s)' = UsedUpTo(s)
    BY <1>0, <1>5 DEF ClockMovedBackwards, UsedUpTo, Exhausted, LastId, TypeOK
  <2> QED  BY <2>1 DEF AscendInv, IssuedUpToLast, IdsAscend
<1>6. ASSUME NEW t \in Tms, Restart(t) PROVE IssuedUpToLast' /\ IdsAscend'
  <2>1. /\ UNCHANGED <<issued, threw, behind>> /\ lastTimestamp'[t] = -1
        /\ former'[t] = IF lastTimestamp[t] > former[t] THEN lastTimestamp[t] ELSE former[t]
        /\ \A s \in Tms : s # t => UsedUpTo(s)' = UsedUpTo(s)
    BY <1>0, <1>6 DEF Restart, UsedUpTo, Exhausted, LastId, TypeOK
  <2>2. UsedUpTo(t)' = Id(t, former'[t], SequenceSize - 1)
    BY <2>1 DEF UsedUpTo, Id
  <2>3. former'[t] \in Int /\ former[t] \in Int /\ former'[t] >= former[t]
        /\ former'[t] >= lastTimestamp[t]
    BY <1>a, <2>1
  <2>4. UsedUpTo(t) <= UsedUpTo(t)'
    <3>1. ASSUME NEW m \in Int, NEW n \in Int, m <= n, NEW q \in 0 .. SequenceSize - 1
          PROVE  Id(t, m, q) <= Id(t, n, SequenceSize - 1)
      <4>1. (m * Nodes + Node[t]) * SequenceSize \in Int /\ (n * Nodes + Node[t]) * SequenceSize \in Int
        BY SizesAssumption
      <4>2. Id(t, m, q) \in Int /\ Id(t, n, SequenceSize - 1) \in Int
        BY <4>1, SizesAssumption DEF Id
      <4>3. CASE m = n
        BY <4>1, <4>3, SizesAssumption DEF Id
      <4>4. CASE m < n
        BY <1>a, <4>2, <4>4, LaterIsGreater
      <4> QED  BY <3>1, <4>3, <4>4
    <3>2. CASE lastTimestamp[t] = -1
      BY <1>a, <2>2, <2>3, <3>1, <3>2 DEF UsedUpTo
    <3>3. CASE lastTimestamp[t] # -1
      BY <1>a, <2>2, <2>3, <3>1, <3>3 DEF UsedUpTo, Exhausted, LastId
    <3> QED  BY <3>2, <3>3
  <2>5. /\ UsedUpTo(t) \in Int /\ UsedUpTo(t)' \in Int
        /\ \A i \in DOMAIN issued[t] : issued[t][i] \in Int
    <3>1. UsedUpTo(t)' \in Int
      BY <2>2, <2>3, <1>a, SizesAssumption DEF Id
    <3> QED  BY <1>0, <3>1, UsedUpToInt DEF TypeOK
  <2>6. ~threw[t] /\ ~behind[t] => \A i \in DOMAIN issued[t] : issued[t][i] <= UsedUpTo(t)'
    BY <2>4, <2>5 DEF AscendInv, IssuedUpToLast
  <2> QED  BY <2>1, <2>6 DEF AscendInv, IssuedUpToLast, IdsAscend
<1>7. CASE UNCHANGED <<lastTimestamp, sequence, spinning, issued, history>>
  BY <1>7 DEF AscendInv, IssuedUpToLast, IdsAscend, UsedUpTo, Exhausted, LastId
<1> QED
  BY <1>1, <1>2, <1>3, <1>4, <1>5, <1>6, <1>7 DEF Next, NextId, ClockMoves, Refuse, vars

(* The ids of a node number are handed out in strictly ascending order,      *)
(* through full milliseconds, clocks set back and processes that follow each *)
(* other, until tilNextMillis throws or a process begins with a clock that   *)
(* is no further than its predecessors had come.                             *)
THEOREM IdsAscendUntilThrown == Spec => []IdsAscend
<1>1. Init => AscendInv
  BY AscendInit
<1>2. AscendInv /\ [Next]_vars => AscendInv'
  BY AscendStep
<1>3. AscendInv => IdsAscend
  BY DEF AscendInv
<1> QED  BY <1>1, <1>2, <1>3, PTL DEF Spec

-----------------------------------------------------------------------------
(* TMs with different node numbers never hand out the same id *)

LEMMA IdTellsNode ==
  ASSUME NEW s \in Tms, NEW t \in Tms, NEW m \in Nat, NEW n \in Nat,
         NEW p \in 0 .. SequenceSize - 1, NEW q \in 0 .. SequenceSize - 1,
         Id(s, m, p) = Id(t, n, q)
  PROVE  Node[s] = Node[t]
<1> DEFINE u == m * Nodes + Node[s]  v == n * Nodes + Node[t]
<1>1. /\ Node[s] \in 0 .. Nodes - 1 /\ Node[t] \in 0 .. Nodes - 1
      /\ Nodes \in Nat \ {0} /\ SequenceSize \in Nat \ {0}
      /\ m * Nodes \in Nat /\ n * Nodes \in Nat
  BY SizesAssumption
<1>2. u \in Int /\ v \in Int
  BY <1>1
<1>3. u * SequenceSize + p = v * SequenceSize + q
  BY DEF Id
<1> HIDE DEF u, v
<1>4. u = v
  BY <1>1, <1>2, <1>3, DigitsAreUnique
<1>5. m * Nodes + Node[s] = n * Nodes + Node[t]
  BY <1>4 DEF u, v
<1>6. m = n
  BY <1>1, <1>5, DigitsAreUnique
<1>7. m * Nodes = n * Nodes
  BY <1>6
<1> QED  BY <1>1, <1>5, <1>7

LEMMA IssueByNode ==
  ASSUME TypeOK, IssuedByNode, NEW t \in Tms, NEW m \in Times,
         NEW q \in 0 .. SequenceSize - 1, Issue(t, m, q)
  PROVE  IssuedByNode'
<1> DEFINE new == Id(t, m, q)
<1>1. new \in Nat
  BY IdInNat, SizesAssumption
<1>2. issued'[t] = Append(issued[t], new) /\ issued[t] \in Seq(Nat)
      /\ \A s \in Tms : s # t => issued'[s] = issued[s]
  BY DEF Issue, TypeOK
<1>3. \E k \in Times, p \in 0 .. SequenceSize - 1 : new = Id(t, k, p)
  OBVIOUS
<1> HIDE DEF new
<1>4. \A i \in DOMAIN issued'[t] : issued'[t][i] = new \/ (i \in DOMAIN issued[t] /\ issued'[t][i] = issued[t][i])
  BY <1>1, <1>2
<1>5. \A i \in DOMAIN issued'[t] :
        \E k \in Times, p \in 0 .. SequenceSize - 1 : issued'[t][i] = Id(t, k, p)
  BY <1>3, <1>4 DEF IssuedByNode
<1>6. \A s \in Tms : \A i \in DOMAIN issued'[s] :
        \E k \in Times, p \in 0 .. SequenceSize - 1 : issued'[s][i] = Id(s, k, p)
  <2> SUFFICES ASSUME NEW s \in Tms, s # t
               PROVE  \A i \in DOMAIN issued'[s] :
                        \E k \in Times, p \in 0 .. SequenceSize - 1 : issued'[s][i] = Id(s, k, p)
    BY <1>5
  <2>1. issued'[s] = issued[s]
    BY <1>2
  <2> QED  BY <2>1 DEF IssuedByNode
<1> QED  BY <1>6 DEF IssuedByNode, Id

LEMMA IssuedByNodeStep == TypeOK /\ IssuedByNode /\ [Next]_vars => IssuedByNode'
<1> SUFFICES ASSUME TypeOK, IssuedByNode, [Next]_vars PROVE IssuedByNode'
  OBVIOUS
<1>1. ASSUME NEW t \in Tms, NextMillisecond(t) \/ TilNextMillis(t) PROVE IssuedByNode'
  <2>1. Issue(t, clock[t], 0) /\ clock[t] \in Times /\ 0 \in 0 .. SequenceSize - 1
    BY <1>1, Numbers DEF NextMillisecond, TilNextMillis
  <2> QED  BY <2>1, IssueByNode
<1>2. ASSUME NEW t \in Tms, SameMillisecond(t) PROVE IssuedByNode'
  <2>1. Issue(t, lastTimestamp[t], NextSequence(t)) /\ lastTimestamp[t] \in Times
        /\ NextSequence(t) \in 0 .. SequenceSize - 1
    BY <1>2, TimestampIsReading, NextSequenceType DEF SameMillisecond
  <2> QED  BY <2>1, IssueByNode
<1>3. CASE issued' = issued
  BY <1>3 DEF IssuedByNode, Id
<1> QED
  BY <1>1, <1>2, <1>3 DEF Next, NextId, ClockMoves, Overflow, ClockMovedBackwards, Refuse,
                          Restart, vars

(* Whatever the clocks do, an id handed out by one TM is never handed out   *)
(* by a TM with another node number.                                        *)
THEOREM NodesNeverShareIds == Spec => []IdsDifferAcrossTms
<1>1. Init => TypeOK /\ IssuedByNode
  BY TypeInit DEF Init, IssuedByNode
<1>2. TypeOK /\ IssuedByNode /\ [Next]_vars => (TypeOK /\ IssuedByNode)'
  BY TypeStep, IssuedByNodeStep
<1>3. TypeOK /\ IssuedByNode => IdsDifferAcrossTms
  <2> SUFFICES ASSUME IssuedByNode, NEW s \in Tms, NEW t \in Tms,
                      NEW i \in DOMAIN issued[s], NEW j \in DOMAIN issued[t],
                      issued[s][i] = issued[t][j]
               PROVE  Node[s] = Node[t]
    BY DEF IdsDifferAcrossTms
  <2>1. PICK m \in Times, p \in 0 .. SequenceSize - 1 : issued[s][i] = Id(s, m, p)
    BY DEF IssuedByNode
  <2>2. PICK n \in Times, q \in 0 .. SequenceSize - 1 : issued[t][j] = Id(t, n, q)
    BY DEF IssuedByNode
  <2>3. m \in Nat /\ n \in Nat
    BY SizesAssumption
  <2>4. Id(s, m, p) = Id(t, n, q)
    BY <2>1, <2>2
  <2> QED  BY <2>3, <2>4, IdTellsNode
<1> QED  BY <1>1, <1>2, <1>3, PTL DEF Spec
=============================================================================
