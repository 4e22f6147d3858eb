---------------------------- MODULE MCMediaUpload ----------------------------
(***************************************************************************)
(* Two of everything that can meet its like, and leases of one tick but    *)
(* for the processing stage, whose lease is longer, as in the migrations.  *)
(***************************************************************************)
EXTENDS MediaUpload, TLC

MCStageLease == <<1, 1, 2>>

\* The actors are interchangeable.
Symmetry == Permutations(Requests) \cup Permutations(Janitors)
            \cup Permutations(Workers)
=============================================================================
