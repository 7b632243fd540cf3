---------------------------- MODULE ConsoleReads ----------------------------
(***************************************************************************)
(* The console's read routes (api/admin.ts) beside the transactions that   *)
(* change what they read.  A route is a sequence of waves of queries; the  *)
(* queries of a wave run in any order, each sees the tables as they are    *)
(* when it runs, and no transaction holds two of them together.            *)
(***************************************************************************)
EXTENDS Naturals, Sequences, FiniteSets, Functions

CONSTANTS
    Payment,   \* one merchant's
    Needed,    \* deposits that settle a payment
    MaxDeposits \* bound, of a payment

VARIABLES
    payments, deposits, ledger, webhooks, balance, \* the tables, and the merchant's balance
    torn,        \* history: payments a confirmed deposit of which was unwound
    route, wave, \* the request under way
    got          \* what its queries have answered

tables == <<payments, deposits, ledger, webhooks, balance, torn>>
vars == <<tables, route, wave, got>>

CNumbers == MaxDeposits \in Nat /\ Needed \in 1..MaxDeposits /\ IsFiniteSet(Payment)

Status == {"pending", "detecting", "partially_paid", "paid", "expired", "underpaid_expired"}
Row == [status : Status, confirmed : 0..MaxDeposits]
Nobody == "no request"

-----------------------------------------------------------------------------
(* The queries, one per db.select, and the routes. *)

total(f) == SumFunctionOnSet(f, Payment)

\* What a query answers, as far as another query of its route could contradict it.
Answer(q) ==
    CASE q = "clientRow" -> balance
      [] q = "byStatus" -> [p \in Payment |-> payments[p].status]
      [] q = "credited" -> total(ledger)
      [] q = "jobs" -> total(webhooks)
      [] q \in {"rows", "row"} -> payments
      [] q \in {"tallies", "deposits"} -> deposits
      [] q = "webhooks" -> webhooks
      [] q = "ledger" -> ledger
      [] OTHER -> "a count"

stats == <<{"byNetwork", "depositTotals", "queue", "clientCount", "sweepCounts", "unswept"}>>
clients == <<{"clients", "paymentsPerClient"}>>
client == <<{"clientRow"}, {"byStatus", "credited", "jobs", "trail"}>>
list == <<{"rows", "pageTotal"}, {"tallies"}>>
detail == <<{"row"}, {"deposits", "webhooks", "ledger"}>>
sweepsList == <<{"sweeps", "pageTotal"}>>
feed == <<{"feed"}>>
auditTrail == <<{"entries", "pageTotal"}>>
users == <<{"users", "activeSessions"}>>
Route == [stats |-> stats, clients |-> clients, client |-> client, list |-> list,
          detail |-> detail, sweeps |-> sweepsList, feed |-> feed,
          audit |-> auditTrail, users |-> users]

TypeOK ==
    /\ payments \in [Payment -> Row]
    /\ deposits \in [Payment -> [waiting : 0..MaxDeposits, confirmed : 0..MaxDeposits]]
    /\ ledger \in [Payment -> 0..1]
    /\ webhooks \in [Payment -> Nat]
    /\ balance \in 0..Cardinality(Payment)
    /\ torn \subseteq Payment
    /\ route \in DOMAIN Route \cup {Nobody}
    /\ wave \in Nat
    /\ route # Nobody => DOMAIN got \subseteq UNION Range(Route[route])

Init ==
    /\ payments = [p \in Payment |-> [status |-> "pending", confirmed |-> 0]]
    /\ deposits = [p \in Payment |-> [waiting |-> 0, confirmed |-> 0]]
    /\ ledger = [p \in Payment |-> 0]
    /\ webhooks = [p \in Payment |-> 0]
    /\ balance = 0
    /\ torn = {}
    /\ route = Nobody /\ wave = 0 /\ got = <<>>

-----------------------------------------------------------------------------
(* The transactions of the workers, each whole (see Settlement). *)

request == <<route, wave, got>>

\* Inside a window the first deposit of a payment changes its status.
Register(p) ==
    /\ deposits[p].waiting + deposits[p].confirmed < MaxDeposits
    /\ deposits[p].waiting + payments[p].confirmed < MaxDeposits
    /\ deposits' = [deposits EXCEPT ![p].waiting = @ + 1]
    /\ \/ payments[p].status = "pending" /\ payments' = [payments EXCEPT ![p].status = "detecting"]
       \/ UNCHANGED payments
    /\ UNCHANGED <<ledger, webhooks, balance, torn, request>>

confirmed(p) == [deposits EXCEPT ![p].waiting = @ - 1, ![p].confirmed = @ + 1]

\* The deposit is confirmed with the payment row, the credit, the entry and the event.
Confirm(p) ==
    LET row == payments[p]
        status == IF row.status = "paid" \/ row.confirmed + 1 >= Needed THEN "paid" ELSE "partially_paid"
        settles == status = "paid" /\ row.status # "paid"
    IN  /\ deposits[p].waiting > 0
        /\ deposits' = confirmed(p)
        /\ payments' = [payments EXCEPT ![p] = [status |-> status, confirmed |-> row.confirmed + 1]]
        /\ webhooks' = [webhooks EXCEPT ![p] = IF status = row.status THEN @ ELSE @ + 1]
        /\ ledger' = [ledger EXCEPT ![p] = IF settles THEN @ + 1 ELSE @]
        /\ balance' = IF settles THEN balance + 1 ELSE balance
        /\ UNCHANGED <<torn, request>>

\* In another asset than the payment's it counts for nothing.
ConfirmOther(p) ==
    /\ deposits[p].waiting > 0
    /\ deposits' = confirmed(p)
    /\ UNCHANGED <<payments, ledger, webhooks, balance, torn, request>>

\* The row is deleted by its id, also when another callback has confirmed it meanwhile.
Unwind(p) ==
    /\ \/ /\ deposits[p].waiting > 0
          /\ deposits' = [deposits EXCEPT ![p].waiting = @ - 1] /\ torn' = torn
       \/ /\ deposits[p].confirmed > 0
          /\ deposits' = [deposits EXCEPT ![p].confirmed = @ - 1] /\ torn' = torn \cup {p}
    /\ UNCHANGED <<payments, ledger, webhooks, balance, request>>

\* The status; its event follows in a transaction of its own, and is not looked for below.
Expire(p) ==
    /\ payments[p].status \in {"pending", "detecting", "partially_paid"}
    /\ payments' = [payments EXCEPT ![p].status = IF @ = "pending" THEN "expired" ELSE "underpaid_expired"]
    /\ UNCHANGED <<deposits, ledger, webhooks, balance, torn, request>>

-----------------------------------------------------------------------------
Ask(r) ==
    /\ route = Nobody
    /\ route' = r /\ wave' = 1 /\ got' = <<>>
    /\ UNCHANGED tables

\* Mutant: what explains a row is read before it.
rowLast == Route[route][Len(Route[route]) + 1 - wave]

due == Route[route][wave]

\* One query of the wave under way; the last of a wave opens the next one.
Query ==
    /\ route # Nobody /\ wave <= Len(Route[route])
    /\ \E q \in due \ DOMAIN got :
          got' = [x \in DOMAIN got \cup {q} |-> IF x = q THEN Answer(q) ELSE got[x]]
    /\ wave' = IF due \subseteq DOMAIN got' THEN wave + 1 ELSE wave
    /\ UNCHANGED <<tables, route>>

answered == route # Nobody /\ wave > Len(Route[route])

Respond ==
    /\ answered
    /\ route' = Nobody /\ wave' = 0 /\ got' = <<>>
    /\ UNCHANGED tables

Next ==
    \/ \E p \in Payment : Register(p) \/ Confirm(p) \/ ConfirmOther(p) \/ Unwind(p) \/ Expire(p)
    \/ \E r \in DOMAIN Route : Ask(r)
    \/ Query \/ Respond

Spec == Init /\ [][Next]_vars

-----------------------------------------------------------------------------
\* An answer put together from several queries still adds up, whatever was committed between
\* them: what explains a row is read after the row, so a payment shown as paid is shown with
\* its entry and its event, a merchant's balance with the entries that make it up, and, while
\* none of its confirmed deposits is unwound, confirmed money with as many deposits.
AnswersAddUp ==
    answered =>
        /\ route = "detail" => \A p \in Payment :
               /\ got.row[p].status = "paid" => got.ledger[p] = 1 /\ got.webhooks[p] > 0
               /\ p \notin torn => got.row[p].confirmed <= got.deposits[p].confirmed
        /\ route = "client" => got.credited >= got.clientRow
        /\ route = "list" => \A p \in Payment \ torn :
               got.rows[p].confirmed <= got.tallies[p].waiting + got.tallies[p].confirmed

=============================================================================
