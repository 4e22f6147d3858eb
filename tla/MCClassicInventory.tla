------------------------- MODULE MCClassicInventory -------------------------
(* Small instances of ClassicInventory. *)
EXTENDS ClassicInventory

CONSTANTS b1, b3, x1, g1, g2

\* Everyone stays the first night.
FirstDay  == [s \in Blocks \cup Bids |-> 0]
SecondDay == [s \in Blocks \cup Bids |-> 1]

\* b1 leaves after the first night, b3 and the bid stay both.
OneLeavesEarly == [s \in Blocks \cup Bids |-> IF s = b1 THEN 1 ELSE 2]

OneRoomEach == [x \in Bids |-> 1]
=============================================================================
