------------------------------ MODULE MCStayTx ------------------------------
(* Small instances of StayTx: units u1 and u2 of category r1, one night. *)
EXTENDS StayTx

CONSTANTS b1, b2, b3, k1, u1, u2, r1, t1, t2

OneCategory == [u \in Units |-> r1]
\* b3 has no dates.
StayDates   == [b \in Bids |-> IF b = b3 THEN {} ELSE {1}]
TwoAndOne   == [b \in Bids |-> IF b = b1 THEN 2 ELSE 1]
UnitIds     == [u \in Units |-> IF u = u1 THEN 1 ELSE 2]
OwnKeys     == [u \in Units |-> u]

Insert(b, u) == [kind |-> "insert", row |-> b,
                 new |-> [status |-> "ACCEPTED", unit |-> u, room |-> r1]]
Assign(b, T) == [kind |-> "assign", row |-> b, target |-> T]
Status(b, s) == [kind |-> "status", row |-> b, status |-> s]
Column(b, u) == [kind |-> "column", row |-> b, unit |-> u]
Release(b)   == [kind |-> "release", row |-> b]
Pin(k, u)    == [kind |-> "block", row |-> k, new |-> [room |-> r1, nights |-> {1}, unit |-> u]]
Unpin(k)     == [kind |-> "block", row |-> k, new |-> NoBlock]

\* Three stays and a block, every kind of call; the undated b3 may give up its unit and
\* come back with another.
EveryKind ==
  {Insert(b1, u1), Insert(b2, u2), Insert(b3, u1),
   Assign(b1, {u1, u2}), Assign(b2, {u1}), Release(b1), Status(b2, "CANCELLED"),
   Column(b3, u2), Status(b3, "ACCEPTED"), Status(b3, "COUNTER"),
   Pin(k1, u1), Unpin(k1)}
=============================================================================
