---------------------------- MODULE MCLotAuction ----------------------------
(***************************************************************************)
(* Two rooms and two nights, two bids that cannot both be served in full:  *)
(* a cheap one for the whole lot, and a dear one for the second night that *)
(* leaves it one room or none.                                             *)
(***************************************************************************)
EXTENDS LotAuction

Ask(price, r, nights) == [price |-> price, rooms |-> r, nights |-> nights]

MCOffers == <<{Ask(1, 2, {1, 2})}, {Ask(2, 1, {2}), Ask(2, 2, {2})}>>
=============================================================================
