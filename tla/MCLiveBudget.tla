---------------------------- MODULE MCLiveBudget ----------------------------
(***************************************************************************)
(* One gateway session with two model turns, two boots, and a global day   *)
(* ceiling that the second envelope meets only after the first released    *)
(* something.                                                              *)
(***************************************************************************)
EXTENDS LiveBudget, TLC

CONSTANTS b1, b2, s1, t1, t2, c1, c2, session, day1, day2, month

MCSessionOf == [x \in {t1, t2, c1, c2} |-> s1]
MCScopes == [t \in {t1, t2} |-> [d \in {1, 2} |->
               {session, month, IF d = 1 THEN day1 ELSE day2}]]
MCCeiling == (session :> 3) @@ (day1 :> 2) @@ (day2 :> 2) @@ (month :> 3)

Sym == Permutations({b1, b2}) \cup Permutations({t1, t2}) \cup Permutations({c1, c2})
=============================================================================
