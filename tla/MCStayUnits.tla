---------------------------- MODULE MCStayUnits ----------------------------
(* Small instances of StayUnits: units u1 and u2 of category r1; r2 has none. *)
EXTENDS StayClaims, TLC

CONSTANTS b1, b2, k1, k2, u1, u2, r1, r2

Categories == [u \in Units |-> r1]

\* b1 stays both nights, b2 the second one.
DatedStays    == [b \in Bids |-> IF b = b1 THEN {1, 2} ELSE {2}]
\* Both stays want the same night.
SameNight     == [b \in Bids |-> {1}]

TwoAndOne == [b \in Bids |-> IF b = b1 THEN 2 ELSE 1]

\* One status of each class the code tells apart.
StatusClasses == {"COUNTER", "ACCEPTED", "CHECKED_IN", "CHECKED_OUT", "CANCELLED"}

UnitSymmetry  == Permutations({u1, u2})
BlockSymmetry == Permutations({k1, k2})
=============================================================================
