------------------------------ MODULE Checkout ------------------------------
(***************************************************************************)
(* The payer's page (web/checkout) beside the payment it shows: the order  *)
(* is loaded once, its status is polled until it is terminal, and the payer *)
(* may ask for a check of the chain.  Answers are read at one time, and    *)
(* shown at a later one.                                                   *)
(***************************************************************************)
EXTENDS Naturals

CONSTANTS MaxFaults \* bound: requests that fail, and tabs that are put away

VARIABLES
    status,  \* of the payment, in the database
    slip,    \* the checkout query: what the page is about to show, or shows
    shown,   \* the data of the status query
    poll, check, \* a request under way, and what it has read
    visible, \* the tab is in front
    faults

vars == <<status, slip, shown, poll, check, visible, faults>>

Status == {"pending", "detecting", "partially_paid", "paid", "expired", "underpaid_expired"}
Lapsed == {"expired", "underpaid_expired"}
TERMINAL == {"paid"} \cup Lapsed

NoData == "none"   \* of the status query: the placeholder is shown
Null == "null"     \* fetchStatus of an answer that is not ok: the page says it is loading
Idle == [pc |-> "idle", read |-> NoData]

TypeOK ==
    /\ status \in Status
    /\ slip \in {"loading", "error", "shown"}
    /\ shown \in Status \cup {NoData, Null}
    /\ {poll, check} \subseteq [pc : {"idle", "sent", "read"}, read : Status \cup {NoData, Null}]
    /\ visible \in BOOLEAN
    /\ faults \in Nat

Init ==
    /\ status = "pending"
    /\ slip = "loading"
    /\ shown = NoData
    /\ poll = Idle /\ check = Idle
    /\ visible = TRUE
    /\ faults = 0

Fault == faults < MaxFaults /\ faults' = faults + 1

\* What the gateway does to a payment, a lapsed one that is reopened included.
after == [s \in Status |->
    CASE s = "pending" -> {"detecting", "partially_paid", "paid", "expired"}
      [] s = "detecting" -> {"partially_paid", "paid", "underpaid_expired"}
      [] s = "partially_paid" -> {"paid", "underpaid_expired"}
      [] s \in Lapsed -> {"partially_paid", "paid"}
      [] OTHER -> {}]

Settle ==
    /\ \E s \in after[status] : status' = s
    /\ UNCHANGED <<slip, shown, poll, check, visible, faults>>

-----------------------------------------------------------------------------
\* GET /public/payments/:publicId/checkout, once and without a retry.
fetchCheckout ==
    /\ slip = "loading"
    /\ \/ slip' = "shown" /\ UNCHANGED faults
       \/ slip' = "error" /\ Fault
    /\ UNCHANGED <<status, shown, poll, check, visible>>

\* The payer follows the page's advice to load it again.
Reload ==
    /\ slip = "error"
    /\ slip' = "loading" /\ shown' = NoData /\ poll' = Idle /\ check' = Idle
    /\ UNCHANGED <<status, visible, faults>>

\* Mutant: a payment that has been seen on the chain needs no poll.
untilSeen == shown \notin TERMINAL \cup {"partially_paid"}

refetches == shown \notin TERMINAL

\* The query's first fetch, and one ten seconds after its last while the tab is in front.
Poll ==
    /\ slip = "shown" /\ poll = Idle
    /\ refetches /\ visible
    /\ poll' = [Idle EXCEPT !.pc = "sent"]
    /\ UNCHANGED <<status, slip, shown, check, visible, faults>>

\* GET /public/payments/:publicId
ReadForPoll ==
    /\ poll.pc = "sent"
    /\ \/ poll' = [pc |-> "read", read |-> status] /\ UNCHANGED faults
       \/ poll' = [pc |-> "read", read |-> Null] /\ Fault
       \/ poll' = Idle /\ Fault
    /\ UNCHANGED <<status, slip, shown, check, visible>>

PollLands ==
    /\ poll.pc = "read"
    /\ shown' = poll.read
    /\ poll' = Idle
    /\ UNCHANGED <<status, slip, check, visible, faults>>

\* The tab is put away, or comes back, and the query is fetched again whatever it shows.
Blur ==
    /\ visible /\ Fault
    /\ visible' = FALSE
    /\ UNCHANGED <<status, slip, shown, poll, check>>

Focus ==
    /\ ~visible
    /\ visible' = TRUE
    /\ poll' = IF slip = "shown" /\ poll = Idle THEN [Idle EXCEPT !.pc = "sent"] ELSE poll
    /\ UNCHANGED <<status, slip, shown, check, faults>>

-----------------------------------------------------------------------------
\* The payer's button: POST /public/payments/:publicId/check.
CheckNow ==
    /\ slip = "shown" /\ shown \notin TERMINAL \cup {Null}
    /\ check = Idle
    /\ check' = [Idle EXCEPT !.pc = "sent"]
    /\ UNCHANGED <<status, slip, shown, poll, visible, faults>>

ReadForCheck ==
    /\ check.pc = "sent"
    /\ \/ check' = [pc |-> "read", read |-> status] /\ UNCHANGED faults
       \/ check' = Idle /\ Fault
    /\ UNCHANGED <<status, slip, shown, poll, visible>>

\* setQueryData: over whatever a poll has shown since, and under one still to land.
CheckLands ==
    /\ check.pc = "read"
    /\ shown' = check.read
    /\ check' = Idle
    /\ UNCHANGED <<status, slip, poll, visible, faults>>

-----------------------------------------------------------------------------
PollStep == Poll \/ ReadForPoll \/ PollLands
CheckStep == ReadForCheck \/ CheckLands
Next == Settle \/ fetchCheckout \/ Reload \/ PollStep \/ Blur \/ Focus \/ CheckNow \/ CheckStep

\* Requests are answered or fail, and the interval goes on firing.
Fairness == WF_vars(fetchCheckout) /\ WF_vars(PollStep) /\ WF_vars(CheckStep)

Spec == Init /\ [][Next]_vars /\ Fairness

-----------------------------------------------------------------------------
\* Whatever order its polls and checks are answered in, a page that stays in front ends up
\* showing a settled payment as paid, for good, unless it has shown it as lapsed: a page
\* that has, asks no more.
SettledIsShown ==
    (<>[]visible /\ <>(slip = "shown" /\ status = "paid"))
        => (<>[](shown = "paid") \/ <>(shown \in Lapsed))

=============================================================================
