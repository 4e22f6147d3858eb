----------------------------- MODULE UnitClaims -----------------------------
(***************************************************************************)
(* What the assignment authority promises, without bids, lines, blocks,    *)
(* triggers or locks: owners (stays and room blocks) claim units for       *)
(* nights, and a claim is granted only where no other owner's claim        *)
(* stands.                                                                 *)
(***************************************************************************)
CONSTANTS Owners, Units, Nights

VARIABLE claims   \* the claims that stand

Claim     == [owner : Owners, unit : Units, nights : (SUBSET Nights) \ {{}}]
ClaimsOf(o) == {c \in claims : c.owner = o}

Init == claims = {}

\* Owner o comes to hold the claims mine: it keeps some of its claims, gives others
\* up, and is granted new ones, none over a claim of another owner.
Hold(o, mine) ==
  /\ claims' = (claims \ ClaimsOf(o)) \cup mine
  /\ \A c, d \in mine : c.unit = d.unit => c = d
  /\ \A c \in mine \ ClaimsOf(o), d \in claims \ ClaimsOf(o) :
       c.unit = d.unit => c.nights \cap d.nights = {}

Next == \E o \in Owners : \E mine \in SUBSET {c \in Claim : c.owner = o} : Hold(o, mine)

Spec == Init /\ [][Next]_claims

\* No unit-night is claimed twice.
Exclusive ==
  \A c, d \in claims : c.unit = d.unit /\ c.nights \cap d.nights # {} => c = d
=============================================================================
