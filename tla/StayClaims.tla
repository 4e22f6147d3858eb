----------------------------- MODULE StayClaims -----------------------------
(***************************************************************************)
(* The assignment authority as an implementation of UnitClaims: the claims *)
(* of a stay are its dated lines, as long as the stay occupied inventory   *)
(* ever since; the claim of a block is its pin.                            *)
(***************************************************************************)
EXTENDS StayUnits

ASSUME StayClaimsAssumption == Bids \cap Blocks = {}

Stands(l) == ~l.lapsed /\ l.nights # {}
Pinned(k) == blocks[k].unit # NULL /\ blocks[k].nights # {}

LineClaim(l)  == [owner |-> l.bid, unit |-> l.unit, nights |-> l.nights]
BlockClaim(k) == [owner |-> k, unit |-> blocks[k].unit, nights |-> blocks[k].nights]

Standing ==
  {LineClaim(l) : l \in {l \in lines : Stands(l)}}
    \cup {BlockClaim(k) : k \in {k \in Blocks : Pinned(k)}}

Claims == INSTANCE UnitClaims WITH Owners <- Bids \cup Blocks, claims <- Standing

\* Whatever writes bids and room_blocks, the authority grants units only where no
\* other stay's or block's claim stands.
ImplementsClaims == Claims!Spec
=============================================================================
