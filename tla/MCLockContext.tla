--------------------------- MODULE MCLockContext ---------------------------
(* Keys and message ids for checking LockContext. *)
EXTENDS LockContext

OwnKey  == [r \in Requests |-> r]        \* a random UUID each
SomeIds == [r \in Requests |-> IF r = 4 THEN Null ELSE r]  \* 4 is a transaction message
NoKey   == [r \in Requests |-> Null]     \* the answer carries no messageId
=============================================================================
