---------------------------- MODULE MCWorkerIds ----------------------------
(* The smallest group of TMs in which two may want one pair. *)
EXTENDS WorkerIds

CONSTANTS t1, t2

TwoTms == {t1, t2}
OneTm  == {t1}
=============================================================================
