--------------------------- MODULE MediaPipeline ---------------------------
(***************************************************************************)
(* What the three processing stages of an upload promise, with no clock,   *)
(* leases, workers or rows.  Every item passes the stages in order; at     *)
(* each stage it is claimed, perhaps many times, and decided once, by the  *)
(* newest claim.  An item that fails a stage never reaches the next.       *)
(***************************************************************************)
EXTENDS Naturals

CONSTANTS
    Items,
    Stages          \* an initial segment of the positive integers, in order

VARIABLES
    claims,         \* [Items -> [Stages -> Nat]], claims made so far
    outcome,        \* [Items -> [Stages -> {"none", "passed", "failed"}]]
    by              \* [Items -> [Stages -> Nat]], the claim that decided, or 0

pipe == <<claims, outcome, by>>

Init ==
    /\ claims = [i \in Items |-> [x \in Stages |-> 0]]
    /\ outcome = [i \in Items |-> [x \in Stages |-> "none"]]
    /\ by = [i \in Items |-> [x \in Stages |-> 0]]

Undecided(i, x) ==
    /\ \A y \in Stages : y < x => outcome[i][y] = "passed"
    /\ outcome[i][x] = "none"

Claim(i, x) ==
    /\ Undecided(i, x)
    /\ claims' = [claims EXCEPT ![i][x] = @ + 1]
    /\ UNCHANGED <<outcome, by>>

Decide(i, x, verdict) ==
    /\ Undecided(i, x) /\ claims[i][x] > 0
    /\ outcome' = [outcome EXCEPT ![i][x] = verdict]
    /\ by' = [by EXCEPT ![i][x] = claims[i][x]]
    /\ UNCHANGED claims

Next == \E i \in Items, x \in Stages :
    Claim(i, x) \/ \E v \in {"passed", "failed"} : Decide(i, x, v)

Spec == Init /\ [][Next]_pipe
=============================================================================
