----------------------------- MODULE MCStayDesk -----------------------------
(* Small instances of StayDesk: one category r1 with units u1 and u2. *)
EXTENDS StayDesk

CONSTANTS b1, u1, u2, r1, q1, q2

OneCategory == [u \in Units |-> r1]
FirstNight  == [b \in Bids |-> {1}]
OneRoom     == [b \in Bids |-> 1]
TwoRooms    == [b \in Bids |-> 2]

\* A bid is countered, accepted and cancelled; the desk writes the other statuses.
DeskStatuses == {"COUNTER", "ACCEPTED", "CANCELLED"}
AcceptedOnly == {"ACCEPTED"}
=============================================================================
