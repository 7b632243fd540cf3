--------------------------- MODULE MerchantCredit ---------------------------
(***************************************************************************)
(* What settlement promises a merchant, with no deposits, windows, workers *)
(* or chain in sight: a payment is credited at most once and never taken   *)
(* back, and the credit, its ledger entry and its payment.paid job come    *)
(* into being together (the "PAID" branch of confirmDeposit).              *)
(***************************************************************************)
EXTENDS Naturals

CONSTANTS Payment, Merchant, clientId, amountCop

VARIABLES
    credited,       \* payments settled so far
    balance,        \* what each merchant has been credited
    entries,        \* ledger entries written for each payment
    announced       \* payment.paid jobs enqueued for each payment

vars == <<credited, balance, entries, announced>>

Init ==
    /\ credited = {}
    /\ balance = [m \in Merchant |-> 0]
    /\ entries = [p \in Payment |-> 0]
    /\ announced = [p \in Payment |-> 0]

CreditPayment(p) ==
    /\ p \notin credited
    /\ credited' = credited \cup {p}
    /\ balance' = [balance EXCEPT ![clientId[p]] = @ + amountCop[p]]
    /\ entries' = [entries EXCEPT ![p] = @ + 1]
    /\ announced' = [announced EXCEPT ![p] = @ + 1]

Next == \E p \in Payment : CreditPayment(p)

Spec == Init /\ [][Next]_vars

=============================================================================
