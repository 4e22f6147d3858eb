--------------------------- MODULE MCBidLifecycle ---------------------------
(***************************************************************************)
(* One bid of a hotel whose acceptance window is twice the default, with   *)
(* the longer periods of the code cut to the shortest that keep their      *)
(* order.                                                                  *)
(***************************************************************************)
EXTENDS BidLifecycle
=============================================================================
