----------------------------- MODULE Snowflake -----------------------------
(***************************************************************************)
(* The id generators of the TMs: one Snowflake object in each TM process,  *)
(* its synchronized nextId, and the system clock it reads.  An id is the   *)
(* millisecond, the TM's node number (dataCenterId and workerId together)  *)
(* and a sequence number within the millisecond, from high bits to low.    *)
(*                                                                         *)
(* A TM stands for the processes that have its node number one after the   *)
(* other: restarts of one, or others that took the number over.            *)
(***************************************************************************)
EXTENDS Integers, Sequences

CONSTANTS Tms,           \* the TMs
          Node,          \* Node[t] is dataCenterId * 32 + workerId of TM t
          Nodes,         \* how many node numbers there are; 1024 in the code
          SequenceSize,  \* ids of one millisecond; 4096 in the code
          Tolerance,     \* how far the clock may be behind; 2000 ms in the code
          Times,         \* readings of the system clock, from twepoch on
          MaxIds         \* bound: ids handed out by each TM

ASSUME SizesAssumption ==
  /\ Nodes \in Nat \ {0} /\ SequenceSize \in Nat \ {0}
  /\ Node \in [Tms -> 0 .. Nodes - 1]
  /\ Tolerance \in Nat
  /\ Times \subseteq Nat
  /\ MaxIds \in Nat

VARIABLES
  clock,          \* System.currentTimeMillis() on each TM, counted from twepoch
  lastTimestamp,  \* Snowflake.lastTimestamp, -1 before the first id
  sequence,       \* Snowflake.sequence
  spinning,       \* whether a thread is in tilNextMillis, holding the monitor
  issued,         \* the ids nextId has returned, in order
  threw,          \* history: whether tilNextMillis has ever thrown
  former,         \* history: the last timestamp of earlier processes, or -1
  behind          \* history: whether one began no later than that

history == <<threw, former, behind>>
vars == <<clock, lastTimestamp, sequence, spinning, issued, history>>

(* Mutant: the node number is not part of the id. *)
IdWithoutNode(t, timestamp, seq) == (timestamp * Nodes) * SequenceSize + seq

(* The shifted fields do not overlap: the bitwise or is a sum. *)
Id(t, timestamp, seq) == (timestamp * Nodes + Node[t]) * SequenceSize + seq

Init ==
  /\ clock \in [Tms -> Times]
  /\ lastTimestamp = [t \in Tms |-> -1]
  /\ sequence = [t \in Tms |-> 0]
  /\ spinning = [t \in Tms |-> FALSE]
  /\ issued = [t \in Tms |-> <<>>]
  /\ threw = [t \in Tms |-> FALSE]
  /\ former = [t \in Tms |-> -1]
  /\ behind = [t \in Tms |-> FALSE]

(* Time passes, or NTP sets the clock forward or back. *)
ClockMoves(t) ==
  /\ \E now \in Times : clock' = [clock EXCEPT ![t] = now]
  /\ UNCHANGED <<lastTimestamp, sequence, spinning, issued, history>>

Issue(t, timestamp, seq) ==
  /\ lastTimestamp' = [lastTimestamp EXCEPT ![t] = timestamp]
  /\ sequence' = [sequence EXCEPT ![t] = seq]
  /\ issued' = [issued EXCEPT ![t] = Append(@, Id(t, timestamp, seq))]

(* nextId is synchronized. *)
MayCall(t) == ~spinning[t] /\ Len(issued[t]) < MaxIds

NextMillisecond(t) ==
  /\ MayCall(t)
  /\ clock[t] > lastTimestamp[t]
  /\ Issue(t, clock[t], 0)
  /\ behind' = [behind EXCEPT ![t] = @ \/ clock[t] <= former[t]]
  /\ UNCHANGED <<clock, spinning, threw, former>>

(* The clock is at the last timestamp, or so little behind that the last   *)
(* timestamp is used.                                                      *)
AtLastTimestamp(t) ==
  clock[t] <= lastTimestamp[t] /\ lastTimestamp[t] - clock[t] < Tolerance

(* Mutant: the sequence number is not masked. *)
SequenceUnmasked(t) == sequence[t] + 1

NextSequence(t) == (sequence[t] + 1) % SequenceSize

(* Mutant: a full millisecond is not noticed. *)
WrapAround(t) ==
  /\ MayCall(t)
  /\ AtLastTimestamp(t)
  /\ Issue(t, lastTimestamp[t], NextSequence(t))
  /\ UNCHANGED <<clock, spinning, history>>

SameMillisecond(t) ==
  /\ MayCall(t)
  /\ AtLastTimestamp(t)
  /\ NextSequence(t) # 0
  /\ Issue(t, lastTimestamp[t], NextSequence(t))
  /\ UNCHANGED <<clock, spinning, history>>

(* The millisecond is full: the sequence is reset and the thread spins. *)
Overflow(t) ==
  /\ MayCall(t)
  /\ AtLastTimestamp(t)
  /\ NextSequence(t) = 0
  /\ sequence' = [sequence EXCEPT ![t] = 0]
  /\ spinning' = [spinning EXCEPT ![t] = TRUE]
  /\ UNCHANGED <<clock, lastTimestamp, issued, history>>

TilNextMillis(t) ==
  /\ spinning[t]
  /\ clock[t] > lastTimestamp[t]
  /\ spinning' = [spinning EXCEPT ![t] = FALSE]
  /\ Issue(t, clock[t], 0)
  /\ UNCHANGED <<clock, history>>

(* tilNextMillis throws as soon as it reads a clock that is behind, however *)
(* little; the sequence stays 0.                                           *)
ClockMovedBackwards(t) ==
  /\ spinning[t]
  /\ clock[t] < lastTimestamp[t]
  /\ spinning' = [spinning EXCEPT ![t] = FALSE]
  /\ threw' = [threw EXCEPT ![t] = TRUE]
  /\ UNCHANGED <<clock, lastTimestamp, sequence, issued, former, behind>>

(* nextId throws: the clock is too far behind. *)
Refuse(t) ==
  /\ MayCall(t)
  /\ clock[t] < lastTimestamp[t]
  /\ ~AtLastTimestamp(t)
  /\ UNCHANGED vars

NextId(t) == NextMillisecond(t) \/ SameMillisecond(t) \/ Overflow(t)
             \/ TilNextMillis(t) \/ ClockMovedBackwards(t) \/ Refuse(t)

(* The process ends, at any moment, and one with the same node number starts *)
(* with a generator of its own: nobody remembers the last timestamp.        *)
Restart(t) ==
  /\ lastTimestamp' = [lastTimestamp EXCEPT ![t] = -1]
  /\ sequence' = [sequence EXCEPT ![t] = 0]
  /\ spinning' = [spinning EXCEPT ![t] = FALSE]
  /\ former' = [former EXCEPT ![t] = IF lastTimestamp[t] > @ THEN lastTimestamp[t] ELSE @]
  /\ UNCHANGED <<clock, issued, threw, behind>>

Next == \E t \in Tms : ClockMoves(t) \/ NextId(t) \/ Restart(t)

Spec == Init /\ [][Next]_vars

-----------------------------------------------------------------------------
(* Every variable holds a value the code can give it. *)
TypeOK ==
  /\ clock \in [Tms -> Times]
  /\ lastTimestamp \in [Tms -> Times \cup {-1}]
  /\ sequence \in [Tms -> 0 .. SequenceSize - 1]
  /\ spinning \in [Tms -> BOOLEAN]
  /\ issued \in [Tms -> Seq(Nat)]
  /\ threw \in [Tms -> BOOLEAN]
  /\ former \in [Tms -> Times \cup {-1}]
  /\ behind \in [Tms -> BOOLEAN]

(* The ids of one node number grow in the order in which nextId returns them, *)
(* however the clock is set, however milliseconds fill up and at whatever     *)
(* moment one process takes over from another, unless tilNextMillis threw or  *)
(* a process began in a millisecond its predecessors had reached.             *)
IdsAscend ==
  \A t \in Tms : ~threw[t] /\ ~behind[t] =>
    \A i, j \in DOMAIN issued[t] : i < j => issued[t][i] < issued[t][j]

(* Two TMs with different node numbers never hand out the same id.          *)
IdsDifferAcrossTms ==
  \A s, t \in Tms : Node[s] # Node[t] =>
    \A i \in DOMAIN issued[s], j \in DOMAIN issued[t] : issued[s][i] # issued[t][j]

-----------------------------------------------------------------------------
(* The inductive invariant behind IdsAscend. *)

LastId(t) == Id(t, lastTimestamp[t], sequence[t])

(* A spinning thread has reset the sequence, but its millisecond is used up. *)
Exhausted(t) ==
  IF spinning[t] THEN Id(t, lastTimestamp[t], SequenceSize - 1) ELSE LastId(t)

(* A process that has issued nothing goes by its predecessors. *)
UsedUpTo(t) ==
  IF lastTimestamp[t] = -1 THEN Id(t, former[t], SequenceSize - 1) ELSE Exhausted(t)

IssuedUpToLast ==
  \A t \in Tms : ~threw[t] /\ ~behind[t] =>
    \A i \in DOMAIN issued[t] : issued[t][i] <= UsedUpTo(t)

(* Behind IdsDifferAcrossTms. *)
IssuedByNode ==
  \A t \in Tms : \A i \in DOMAIN issued[t] :
    \E m \in Times, q \in 0 .. SequenceSize - 1 : issued[t][i] = Id(t, m, q)

SpinsAfterIssuing == \A t \in Tms : spinning[t] => lastTimestamp[t] # -1

AscendInv == TypeOK /\ SpinsAfterIssuing /\ IssuedUpToLast /\ IdsAscend
=============================================================================
