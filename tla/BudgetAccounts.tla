--------------------------- MODULE BudgetAccounts ---------------------------
(***************************************************************************)
(* What the Live-AI budget promises, with no processes, leases or counter  *)
(* rows.  Every acquisition key (one per model turn) has an account:       *)
(*   "none"    nothing was acquired under the key                          *)
(*   "open"    Money is set aside for it                                   *)
(*   "closed"  it was charged some of that money, for good                 *)
(* A provider may be paid from an account only what its cover allows, and  *)
(* an account is opened only when the covers of the accounts that count    *)
(* against each of its ceilings leave room for it.                         *)
(***************************************************************************)
EXTENDS Integers, FiniteSets, Functions

CONSTANTS
    Turn,           \* acquisition keys
    Counter,        \* the scope-period counters that have a ceiling
    Days,           \* accounting days
    Scopes,         \* [Turn -> [Days -> SUBSET Counter]], the counters a key uses
    Ceiling,        \* [Counter -> Nat]
    Money           \* a natural number: what one acquisition sets aside

VARIABLES
    account         \* [Turn -> [state, day, charged, spent]]

Accounts ==
    [state : {"none", "open", "closed"}, day : Days, charged : Nat, spent : Nat]

\* The most that may be paid out of an account.
Cover(a) == CASE a.state = "open" -> Money
              [] a.state = "closed" -> a.charged
              [] OTHER -> 0

\* The keys whose money counts against counter c.
Against(c) == {t \in Turn : /\ account[t].state # "none"
                            /\ c \in Scopes[t][account[t].day]}

Committed(c) == SumFunctionOnSet([t \in Turn |-> Cover(account[t])], Against(c))

Init == \E d \in Days :
    account = [t \in Turn |-> [state |-> "none", day |-> d, charged |-> 0, spent |-> 0]]

Open(t) ==
    /\ account[t].state = "none"
    /\ \E d \in Days :
          /\ \A c \in Scopes[t][d] : Committed(c) + Money =< Ceiling[c]
          /\ account' = [account EXCEPT ![t] =
                           [state |-> "open", day |-> d, charged |-> 0, spent |-> 0]]

\* The provider's claim on the account changes: a call starts, or its true cost
\* becomes known.
Spend(t) == \E n \in 0 .. Cover(account[t]) :
    account' = [account EXCEPT ![t].spent = n]

Close(t) ==
    /\ account[t].state = "open"
    /\ \E n \in account[t].spent .. Money :
          account' = [account EXCEPT ![t].state = "closed", ![t].charged = n]

Next == \E t \in Turn : Open(t) \/ Spend(t) \/ Close(t)

Spec == Init /\ [][Next]_account

-----------------------------------------------------------------------------

TypeOK == account \in [Turn -> Accounts]

\* A provider never has a claim that the account does not cover.
Covered == \A t \in Turn : account[t].spent =< Cover(account[t])
=============================================================================
