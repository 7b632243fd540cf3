-------------------------- MODULE SettlementProofs --------------------------
(***************************************************************************)
(* Theorems about Settlement, for every set of payments, transfers, rows   *)
(* and callbacks and every value of the parameters.                        *)
(***************************************************************************)
EXTENDS Settlement, SumLemmas

(***************************************************************************)
(* Type correctness.                                                       *)
(***************************************************************************)

\* The threshold of requiredWithTolerance (payments.ts) is a natural number.
LEMMA ThresholdType ==
    ASSUME NEW p \in Payment
    PROVE  requiredWithTolerance(p) \in Nat
<1>1. amountCryptoRaw[p] \in Nat /\ 10000 - DustBps \in Nat
  BY PaymentAssumption, ParameterAssumption
<1>2. amountCryptoRaw[p] * (10000 - DustBps) \in Nat
  BY <1>1
<1>. QED  BY <1>2 DEF requiredWithTolerance

\* The row confirmDeposit writes is a row of the payments table.
LEMMA CountedType ==
    ASSUME TypeOK, NEW t \in Transfer,
           NEW s \in {"paid", "partially_paid"}
    PROVE  Counted(sentTo[t], sentRaw[t], s) \in PaymentRow
<1>1. sentTo[t] \in Payment /\ sentRaw[t] \in Nat
  BY TransferAssumption
<1>2. payment[sentTo[t]] \in PaymentRow
  BY <1>1 DEF TypeOK
<1>3. amountCryptoRaw[sentTo[t]] \in Nat
  BY <1>1, PaymentAssumption
<1>4. s \in Status
  BY DEF Status, Active, Terminal
<1>. DEFINE p == sentTo[t]
            confirmed == ConfirmedWith(p, sentRaw[t])
            rest == payment[p].pendingRaw - sentRaw[t]
            over == IF s = "paid" THEN Overpaid(p, confirmed) ELSE payment[p].overpaidRaw
<1>5. confirmed \in Int /\ rest \in Int
  BY <1>1, <1>2 DEF ConfirmedWith, PaymentRow
<1>6. over \in Int
  BY <1>2, <1>3, <1>5 DEF Overpaid, PaymentRow
<1>7. Counted(p, sentRaw[t], s) =
        [payment[p] EXCEPT !.status = s, !.confirmedRaw = confirmed,
                           !.pendingRaw = rest, !.overpaidRaw = over]
  BY DEF Counted
<1>. HIDE DEF confirmed, rest, over
<1>. QED  BY <1>1, <1>2, <1>4, <1>5, <1>6, <1>7 DEF PaymentRow

\* A callback's rest of the tick is well-typed.
LEMMA ContinueType ==
    ASSUME NEW S \in SUBSET DepositId
    PROVE  /\ Continue(S) \in TickerState
           /\ Continue(S).todo \cup Continue(S).row \subseteq S
BY DEF Continue, IdleTicker, TickerState

LEMMA NextRowType ==
    ASSUME TypeOK, NEW k \in Ticker, NextRow(k)
    PROVE  /\ ticker' \in [Ticker -> TickerState]
           /\ \A c \in Ticker : ticker'[c].todo \cup ticker'[c].row \subseteq DOMAIN deposit
<1>1. ticker[k] \in TickerState /\ ticker[k].todo \subseteq DOMAIN deposit
  BY DEF TypeOK
<1>2. ticker[k].todo \in SUBSET DepositId
  BY <1>1 DEF TickerState
<1>3. /\ Continue(ticker[k].todo) \in TickerState
      /\ Continue(ticker[k].todo).todo \cup Continue(ticker[k].todo).row
            \subseteq ticker[k].todo
  BY <1>2, ContinueType
<1>. QED  BY <1>1, <1>3 DEF NextRow, TypeOK

LEMMA SetStateType ==
    ASSUME TypeOK, NEW d \in DOMAIN deposit,
           NEW s \in {"unconfirmed", "confirmed", "deleted"}, SetState(d, s)
    PROVE  /\ DOMAIN deposit' = DOMAIN deposit
           /\ deposit' \in [DOMAIN deposit -> DepositRow]
BY DEF SetState, TypeOK, DepositRow

LEMMA HookType ==
    ASSUME TypeOK, NEW p \in Payment, NEW e \in Event, enqueueWebhook(p, e)
    PROVE  hooks' \in [Payment -> [Event -> Nat]]
BY DEF enqueueWebhook, TypeOK

LEMMA TypeInit == Init => TypeOK
BY DEF Init, TypeOK, IdleTicker, IdleExpirer, TickerState, ExpirerState, PaymentRow,
       DepositRow, Status, NoGrace

\* Each transaction, statement and RPC answer keeps the types of every table and of
\* every callback's local state.
LEMMA TypeStep == TypeOK /\ [Next]_vars => TypeOK'
<1>. SUFFICES ASSUME TypeOK, [Next]_vars PROVE TypeOK'
  OBVIOUS
<1>. USE DEF dbVars, watcherVars
<1>1. CASE UNCHANGED vars
  BY <1>1 DEF vars, TypeOK
<1>2. CASE Tick
  BY <1>2 DEF Tick, TypeOK
<1>3. ASSUME NEW t \in Transfer, NEW i \in LogIndex, Mine(t, i) PROVE TypeOK'
  <2>1. /\ DOMAIN mined' \subseteq Transfer
        /\ mined' \in [DOMAIN mined' -> [block : Nat, logIndex : LogIndex]]
    BY <1>3 DEF Mine, TypeOK
  <2>. QED  BY <1>3, <2>1 DEF Mine, TypeOK
<1>4. ASSUME NEW t \in Transfer, Reorg(t) PROVE TypeOK'
  <2>1. /\ DOMAIN mined' \subseteq Transfer
        /\ mined' \in [DOMAIN mined' -> [block : Nat, logIndex : LogIndex]]
    BY <1>4 DEF Reorg, TypeOK
  <2>. QED  BY <1>4, <2>1 DEF Reorg, Fault, TypeOK
<1>5. ASSUME NEW p \in Payment, CreatePayment(p) PROVE TypeOK'
  <2>. DEFINE until == now + QuoteTtl
              row == [payment[p] EXCEPT !.status = "pending", !.quoteExpiresAt = until]
  <2>1. until \in Nat
    BY ParameterAssumption DEF TypeOK
  <2>2. payment' = [payment EXCEPT ![p] = row]
    BY <1>5 DEF CreatePayment, TypeOK
  <2>. HIDE DEF until
  <2>3. row \in PaymentRow
    BY <2>1 DEF TypeOK, PaymentRow, Status, Active
  <2>. HIDE DEF row
  <2>4. payment' \in [Payment -> PaymentRow]
    BY <2>2, <2>3 DEF TypeOK
  <2>. QED  BY <1>5, <2>4 DEF CreatePayment, TypeOK
<1>6. CASE Resubscribe
  BY <1>6 DEF Resubscribe, activeAddresses, TypeOK
<1>7. ASSUME NEW t \in Transfer, DeliverLog(t) PROVE TypeOK'
  <2>1. mined[t] \in [block : Nat, logIndex : LogIndex]
    BY <1>7 DEF DeliverLog, TypeOK
  <2>2. inFlight' \subseteq Log
    BY <1>7, <2>1 DEF DeliverLog, TypeOK, Log
  <2>. QED  BY <1>7, <2>2 DEF DeliverLog, TypeOK
<1>8. ASSUME NEW l \in inFlight, RegisterDuplicate(l) PROVE TypeOK'
  BY <1>8 DEF RegisterDuplicate, TypeOK
<1>9. ASSUME NEW l \in inFlight, RegisterDeposit(l) PROVE TypeOK'
  <2>1. l \in Log
    BY DEF TypeOK
  <2>2. /\ DOMAIN deposit \subseteq DOMAIN deposit'
        /\ DOMAIN deposit' \subseteq DepositId
        /\ deposit' \in [DOMAIN deposit' -> DepositRow]
    <3>1. PICK d \in DepositId \ DOMAIN deposit :
            deposit' = [c \in DOMAIN deposit \cup {d} |->
                          IF c = d THEN [state |-> "unconfirmed", transfer |-> l.transfer,
                                         logIndex |-> l.logIndex, block |-> l.block]
                          ELSE deposit[c]]
      BY <1>9 DEF RegisterDeposit, InsertDeposit
    <3>2. [state |-> "unconfirmed", transfer |-> l.transfer,
           logIndex |-> l.logIndex, block |-> l.block] \in DepositRow
      BY <2>1 DEF Log, DepositRow
    <3>. QED  BY <3>1, <3>2 DEF TypeOK
  <2>3. payment' \in [Payment -> PaymentRow]
    <3>1. /\ l.transfer \in Transfer
          /\ sentTo[l.transfer] \in Payment
          /\ sentRaw[l.transfer] \in Nat
      BY <2>1, TransferAssumption DEF Log
    <3>2. payment[sentTo[l.transfer]] \in PaymentRow /\ now + GraceTtl \in Nat
      BY <3>1, ParameterAssumption DEF TypeOK
    <3>3. AppliedTo(payment[sentTo[l.transfer]], sentRaw[l.transfer]) \in PaymentRow
      <4>. DEFINE row == payment[sentTo[l.transfer]]
                  pending == row.pendingRaw + sentRaw[l.transfer]
      <4>1. pending \in Int
        BY <3>1, <3>2 DEF PaymentRow
      <4>2. AppliedTo(row, sentRaw[l.transfer]) =
              IF row.status = "pending"
              THEN [row EXCEPT !.pendingRaw = pending, !.status = "detecting",
                               !.graceExpiresAt = now + GraceTtl]
              ELSE [row EXCEPT !.pendingRaw = pending]
        BY DEF AppliedTo
      <4>. HIDE DEF pending
      <4>. QED  BY <3>2, <4>1, <4>2 DEF PaymentRow, Status, Active
    <3>. QED  BY <1>9, <3>1, <3>3 DEF RegisterDeposit, TypeOK
  <2>. QED  BY <1>9, <2>2, <2>3 DEF RegisterDeposit, TypeOK
<1>10. ASSUME NEW k \in Ticker, TickStart(k) PROVE TypeOK'
  <2>. DEFINE mature == {d \in Unconfirmed : Mature(d)}
  <2>1. mature \in SUBSET DepositId /\ mature \subseteq DOMAIN deposit
    BY DEF Unconfirmed, TypeOK
  <2>2. ticker' = [ticker EXCEPT ![k] = Continue(mature)]
    BY <1>10 DEF TickStart
  <2>. HIDE DEF mature
  <2>3. /\ ticker' \in [Ticker -> TickerState]
        /\ \A c \in Ticker : ticker'[c].todo \cup ticker'[c].row \subseteq DOMAIN deposit
    BY <2>1, <2>2, ContinueType DEF TypeOK
  <2>. QED  BY <1>10, <2>3 DEF TickStart, TypeOK
<1>11. ASSUME NEW k \in Ticker, NEW d \in DepositId, NEW pc \in {"confirm", "unwind"},
              d \in ticker[k].todo, Handle(k, d, pc)
       PROVE  /\ ticker' \in [Ticker -> TickerState]
              /\ \A c \in Ticker : ticker'[c].todo \cup ticker'[c].row \subseteq DOMAIN deposit
  BY <1>11 DEF Handle, TypeOK, TickerState
<1>12. ASSUME NEW k \in Ticker, NEW d \in DepositId,
              ReceiptFound(k, d) \/ ReceiptMissing(k, d) \/ ReceiptLookupFails(k, d)
       PROVE  TypeOK'
  BY <1>11, <1>12 DEF ReceiptFound, ReceiptMissing, ReceiptLookupFails, Fault, TypeOK
<1>13. ASSUME NEW k \in Ticker, NEW d \in DepositId, NEW s \in {"confirmed", "deleted"},
              d \in ticker[k].row, SetState(d, s), NextRow(k)
       PROVE  /\ DOMAIN deposit' \subseteq DepositId
              /\ deposit' \in [DOMAIN deposit' -> DepositRow]
              /\ ticker' \in [Ticker -> TickerState]
              /\ \A c \in Ticker : ticker'[c].todo \cup ticker'[c].row \subseteq DOMAIN deposit'
              /\ deposit[d].transfer \in Transfer
  <2>1. d \in DOMAIN deposit
    BY <1>13 DEF TypeOK
  <2>2. deposit[d].transfer \in Transfer
    BY <2>1 DEF TypeOK, DepositRow
  <2>3. DOMAIN deposit' = DOMAIN deposit /\ deposit' \in [DOMAIN deposit -> DepositRow]
    BY <1>13, <2>1, SetStateType
  <2>. QED  BY <1>13, <2>2, <2>3, NextRowType DEF TypeOK
<1>14. ASSUME NEW k \in Ticker, NEW d \in DepositId, UnwindDeposit(k, d) PROVE TypeOK'
  <2>1. deposit[d].transfer \in Transfer
    BY <1>13, <1>14 DEF UnwindDeposit
  <2>. DEFINE p == sentTo[deposit[d].transfer]
              rest == payment[p].pendingRaw - sentRaw[deposit[d].transfer]
  <2>2. p \in Payment /\ rest \in Int
    BY <2>1, TransferAssumption DEF TypeOK, PaymentRow
  <2>3. payment' = [payment EXCEPT ![p].pendingRaw = rest]
    BY <1>14 DEF UnwindDeposit
  <2>. HIDE DEF p, rest
  <2>4. payment' \in [Payment -> PaymentRow]
    BY <2>2, <2>3 DEF TypeOK, PaymentRow
  <2>. QED  BY <1>13, <1>14, <2>4 DEF UnwindDeposit, TypeOK
<1>15. ASSUME NEW k \in Ticker, NEW d \in DepositId, ConfirmSkipped(k, d) PROVE TypeOK'
  BY <1>15, NextRowType DEF ConfirmSkipped, TypeOK
<1>16. ASSUME NEW k \in Ticker, NEW d \in DepositId, ConfirmWrongAsset(k, d) PROVE TypeOK'
  BY <1>13, <1>16 DEF ConfirmWrongAsset, Confirming, TypeOK
<1>17. ASSUME NEW t \in Transfer, NEW s \in {"paid", "partially_paid"},
              payment' = [payment EXCEPT ![sentTo[t]] = Counted(sentTo[t], sentRaw[t], s)]
       PROVE  payment' \in [Payment -> PaymentRow]
  BY <1>17, CountedType DEF TypeOK
<1>18. ASSUME NEW k \in Ticker, NEW d \in DepositId, ConfirmAfterPaid(k, d) PROVE TypeOK'
  BY <1>13, <1>17, <1>18 DEF ConfirmAfterPaid, Counts, Confirming, TypeOK
<1>19. ASSUME NEW k \in Ticker, NEW d \in DepositId, ConfirmSettles(k, d) PROVE TypeOK'
  <2>. DEFINE p == sentTo[deposit[d].transfer]
  <2>1. p \in Payment
    BY <1>13, <1>19, TransferAssumption DEF ConfirmSettles, Counts, Confirming
  <2>2. clientId[p] \in Merchant /\ amountCop[p] \in Nat
    BY <2>1, PaymentAssumption
  <2>3. balance' \in [Merchant -> Nat] /\ ledger' \in [Payment -> Nat]
    BY <1>19, <2>1, <2>2 DEF ConfirmSettles, Credit, TypeOK
  <2>5. hooks' \in [Payment -> [Event -> Nat]]
    BY <1>19, <2>1, HookType DEF ConfirmSettles, Event
  <2>. QED  BY <1>13, <1>17, <1>19, <2>3, <2>5
              DEF ConfirmSettles, Counts, Confirming, TypeOK
<1>20. ASSUME NEW k \in Ticker, NEW d \in DepositId, ConfirmPartial(k, d) PROVE TypeOK'
  <2>. DEFINE p == sentTo[deposit[d].transfer]
  <2>1. p \in Payment
    BY <1>13, <1>20, TransferAssumption DEF ConfirmPartial, Counts, Confirming
  <2>3. hooks' \in [Payment -> [Event -> Nat]]
    BY <1>20, <2>1, HookType DEF ConfirmPartial, Event, TypeOK
  <2>. QED  BY <1>13, <1>17, <1>20, <2>3 DEF ConfirmPartial, Counts, Confirming, TypeOK
<1>21. ASSUME NEW k \in Ticker, TickFail(k) PROVE TypeOK'
  BY <1>21 DEF TickFail, Fault, IdleTicker, TickerState, TypeOK
<1>22. ASSUME NEW x \in Expirer, ExpireStart(x) PROVE TypeOK'
  BY <1>22 DEF ExpireStart, ExpirerState, TypeOK
<1>23. ASSUME NEW S \in SUBSET Payment, NEW s \in Status, SetStatus(S, s)
       PROVE  payment' \in [Payment -> PaymentRow]
  BY <1>23 DEF SetStatus, TypeOK, PaymentRow
<1>24. ASSUME NEW x \in Expirer, NEW todo \in SUBSET (Payment \X Event)
       PROVE  ExpirerWith(x, todo) \in ExpirerState
  BY DEF ExpirerWith, IdleExpirer, ExpirerState, TypeOK
<1>25. ASSUME NEW x \in Expirer, ExpireQuotes(x) PROVE TypeOK'
  <2>1. payment' \in [Payment -> PaymentRow]
    BY <1>23, <1>25 DEF ExpireQuotes, Status, Terminal
  <2>2. expirer' \in [Expirer -> ExpirerState]
    BY <1>25 DEF ExpireQuotes, ExpirerState, Event, TypeOK
  <2>. QED  BY <1>25, <2>1, <2>2 DEF ExpireQuotes, TypeOK
<1>26. ASSUME NEW x \in Expirer, ExpireGrace(x) PROVE TypeOK'
  <2>1. payment' \in [Payment -> PaymentRow]
    BY <1>23, <1>26 DEF ExpireGrace, Status, Terminal
  <2>. DEFINE lapsed == {p \in Payment : GraceLapsed(p, expirer[x].at)}
              todo == expirer[x].todo \cup (lapsed \X {"payment.underpaid_expired"})
  <2>2. todo \in SUBSET (Payment \X Event)
    BY DEF ExpirerState, Event, TypeOK
  <2>3. expirer' = [expirer EXCEPT ![x] = ExpirerWith(x, todo)]
    BY <1>26 DEF ExpireGrace
  <2>. HIDE DEF todo
  <2>4. expirer' \in [Expirer -> ExpirerState]
    BY <1>24, <2>2, <2>3 DEF TypeOK
  <2>. QED  BY <1>26, <2>1, <2>4 DEF ExpireGrace, TypeOK
<1>27. ASSUME NEW x \in Expirer, NEW p \in Payment, NEW e \in Event, Announce(x, p, e)
       PROVE  TypeOK'
  <2>1. hooks' \in [Payment -> [Event -> Nat]]
    BY <1>27, HookType DEF Announce, Status, Terminal
  <2>2. expirer[x].todo \ {<<p, e>>} \in SUBSET (Payment \X Event)
    BY DEF ExpirerState, TypeOK
  <2>3. expirer' \in [Expirer -> ExpirerState]
    BY <1>24, <1>27, <2>2 DEF Announce, TypeOK
  <2>. QED  BY <1>27, <2>1, <2>3 DEF Announce, TypeOK
<1>28. ASSUME NEW x \in Expirer, ExpirerFail(x) PROVE TypeOK'
  BY <1>28 DEF ExpirerFail, Fault, IdleExpirer, ExpirerState, TypeOK
<1>29. CASE Restart
  BY <1>29 DEF Restart, Fault, IdleTicker, TickerState, IdleExpirer, ExpirerState, TypeOK
<1>. QED
  BY <1>1, <1>2, <1>3, <1>4, <1>5, <1>6, <1>7, <1>8, <1>9, <1>10, <1>12, <1>14, <1>15,
     <1>16, <1>18, <1>19, <1>20, <1>21, <1>22, <1>25, <1>26, <1>27, <1>28, <1>29
  DEF Next, Watch, Confirm, Expire

\* Every reachable state of the payment path is well-typed.
THEOREM TypeCorrect == Spec => []TypeOK
BY TypeInit, TypeStep, PTL DEF Spec

-----------------------------------------------------------------------------
(***************************************************************************)
(* Settlement.  TypeOK and CreditedOnce are not inductive: the expirer     *)
(* enqueues whatever job its local list names, so the list must be known   *)
(* to hold lapse events only, and a first deposit opens a grace window     *)
(* only because none can be open before it.                                *)
(***************************************************************************)

LapseEvent == {"payment.expired", "payment.underpaid_expired"}

ExpirerJobs ==
    \A x \in Expirer : \A job \in expirer[x].todo : job[2] \in LapseEvent

GraceUnopened ==
    \A p \in Payment :
        payment[p].status \in {"none", "pending"} => payment[p].graceExpiresAt = NoGrace

IInv ==
    /\ TypeOK
    /\ CreditedOnce
    /\ PaidInFull
    /\ BalanceIsLedger
    /\ ExpirerJobs
    /\ GraceUnopened

(***************************************************************************)
(* Every step does one of four things to what merchants are owed: nothing, *)
(* or one of the three ways confirmDeposit counts a deposit.               *)
(***************************************************************************)

PaidJobs(p) == hooks[p]["payment.paid"]

Quiet ==
    /\ \A p \in Payment :
        /\ payment'[p].status = "paid" <=> payment[p].status = "paid"
        /\ payment'[p].confirmedRaw = payment[p].confirmedRaw
        /\ payment'[p].overpaidRaw = payment[p].overpaidRaw
        /\ PaidJobs(p)' = PaidJobs(p)
    /\ UNCHANGED <<balance, ledger>>

CountsLate(t) ==
    LET p == sentTo[t] IN
    /\ AlreadyPaid(p)
    /\ payment' = [payment EXCEPT ![p] = Counted(p, sentRaw[t], "paid")]
    /\ UNCHANGED <<balance, ledger, hooks>>

Settles(t) ==
    LET p == sentTo[t] IN
    /\ ~AlreadyPaid(p)
    /\ ReachesThreshold(p, ConfirmedWith(p, sentRaw[t]))
    /\ payment' = [payment EXCEPT ![p] = Counted(p, sentRaw[t], "paid")]
    /\ Credit(p)
    /\ enqueueWebhook(p, "payment.paid")

CountsPartially(t) ==
    LET p == sentTo[t] IN
    /\ ~AlreadyPaid(p)
    /\ ~ReachesThreshold(p, ConfirmedWith(p, sentRaw[t]))
    /\ payment' = [payment EXCEPT ![p] = Counted(p, sentRaw[t], "partially_paid")]
    /\ \A q \in Payment : PaidJobs(q)' = PaidJobs(q)
    /\ UNCHANGED <<balance, ledger>>

\* A job for another event leaves the payment.paid jobs as they are.
LEMMA OtherHook ==
    ASSUME TypeOK, NEW p \in Payment, NEW e \in Event \ {"payment.paid"},
           enqueueWebhook(p, e)
    PROVE  \A q \in Payment : PaidJobs(q)' = PaidJobs(q)
BY DEF enqueueWebhook, PaidJobs, TypeOK, Event

\* The row a callback handles is a stored row, so its transfer is a transfer.
LEMMA RowTransfer ==
    ASSUME TypeOK, NEW k \in Ticker, NEW d \in ticker[k].row
    PROVE  /\ deposit[d].transfer \in Transfer
           /\ sentTo[deposit[d].transfer] \in Payment
<1>1. d \in DOMAIN deposit
  BY DEF TypeOK
<1>. QED  BY <1>1, TransferAssumption DEF TypeOK, DepositRow

LEMMA StepEffect ==
    ASSUME TypeOK, ExpirerJobs, [Next]_vars
    PROVE  Quiet \/ \E t \in Transfer : CountsLate(t) \/ Settles(t) \/ CountsPartially(t)
<1>. USE DEF dbVars, watcherVars, PaidJobs
<1>1. CASE UNCHANGED vars
  BY <1>1 DEF vars, Quiet
<1>2. CASE Tick \/ Resubscribe \/ Restart
  BY <1>2 DEF Tick, Resubscribe, Restart, Quiet
<1>3. ASSUME NEW t \in Transfer,
             (\E i \in LogIndex : Mine(t, i)) \/ Reorg(t) \/ DeliverLog(t)
      PROVE  Quiet
  BY <1>3 DEF Mine, Reorg, DeliverLog, Quiet
<1>4. ASSUME NEW p \in Payment, CreatePayment(p) PROVE Quiet
  BY <1>4 DEF CreatePayment, Quiet, TypeOK, PaymentRow
<1>5. ASSUME NEW l \in inFlight, RegisterDuplicate(l) PROVE Quiet
  BY <1>5 DEF RegisterDuplicate, Quiet
<1>6. ASSUME NEW l \in inFlight, RegisterDeposit(l) PROVE Quiet
  <2>. DEFINE p == sentTo[l.transfer]
              row == AppliedTo(payment[p], sentRaw[l.transfer])
  <2>1. p \in Payment
    BY TransferAssumption DEF TypeOK, Log
  <2>2. payment[p] \in PaymentRow
    BY <2>1 DEF TypeOK
  <2>3. Applies(l.transfer) =>
          /\ row.status = "paid" <=> payment[p].status = "paid"
          /\ row.confirmedRaw = payment[p].confirmedRaw
          /\ row.overpaidRaw = payment[p].overpaidRaw
    BY <2>2 DEF AppliedTo, PaymentRow
  <2>4. payment' = IF Applies(l.transfer) THEN [payment EXCEPT ![p] = row] ELSE payment
    BY <1>6 DEF RegisterDeposit, TypeOK
  <2>. HIDE DEF row
  <2>. QED  BY <1>6, <2>1, <2>3, <2>4 DEF RegisterDeposit, Quiet, TypeOK
<1>7. ASSUME NEW k \in Ticker, TickStart(k) \/ TickFail(k) PROVE Quiet
  BY <1>7 DEF TickStart, TickFail, Quiet
<1>8. ASSUME NEW k \in Ticker, NEW d \in DepositId,
             \/ ReceiptFound(k, d) \/ ReceiptMissing(k, d) \/ ReceiptLookupFails(k, d)
             \/ ConfirmSkipped(k, d) \/ ConfirmWrongAsset(k, d)
      PROVE  Quiet
  BY <1>8 DEF ReceiptFound, ReceiptMissing, ReceiptLookupFails, ConfirmSkipped,
              ConfirmWrongAsset, Quiet
<1>9. ASSUME NEW k \in Ticker, NEW d \in DepositId, UnwindDeposit(k, d) PROVE Quiet
  BY <1>9 DEF UnwindDeposit, Quiet, TypeOK, PaymentRow
<1>10. ASSUME NEW k \in Ticker, NEW d \in DepositId, ConfirmAfterPaid(k, d)
       PROVE  \E t \in Transfer : CountsLate(t)
  <2>1. deposit[d].transfer \in Transfer
    BY <1>10, RowTransfer DEF ConfirmAfterPaid, Counts, Confirming
  <2>2. CountsLate(deposit[d].transfer)
    BY <1>10 DEF ConfirmAfterPaid, CountsLate
  <2>. QED  BY <2>1, <2>2
<1>11. ASSUME NEW k \in Ticker, NEW d \in DepositId, ConfirmSettles(k, d)
       PROVE  \E t \in Transfer : Settles(t)
  <2>1. deposit[d].transfer \in Transfer
    BY <1>11, RowTransfer DEF ConfirmSettles, Counts, Confirming
  <2>2. Settles(deposit[d].transfer)
    BY <1>11 DEF ConfirmSettles, Settles
  <2>. QED  BY <2>1, <2>2
<1>12. ASSUME NEW k \in Ticker, NEW d \in DepositId, ConfirmPartial(k, d)
       PROVE  \E t \in Transfer : CountsPartially(t)
  <2>. DEFINE t == deposit[d].transfer
              p == sentTo[t]
  <2>1. t \in Transfer /\ p \in Payment
    BY <1>12, RowTransfer DEF ConfirmPartial, Counts, Confirming
  <2>3. \A q \in Payment : PaidJobs(q)' = PaidJobs(q)
    <3>1. CASE UNCHANGED hooks
      BY <3>1
    <3>2. CASE enqueueWebhook(p, "payment.partially_paid")
      BY <2>1, <3>2, OtherHook DEF Event
    <3>. QED  BY <1>12, <3>1, <3>2 DEF ConfirmPartial
  <2>4. CountsPartially(t)
    BY <1>12, <2>3 DEF ConfirmPartial, CountsPartially
  <2>. HIDE DEF t
  <2>. QED  BY <2>1, <2>4 DEF CountsPartially
<1>13. ASSUME NEW x \in Expirer, ExpireStart(x) \/ ExpirerFail(x) PROVE Quiet
  BY <1>13 DEF ExpireStart, ExpirerFail, Quiet
<1>14. ASSUME NEW x \in Expirer, ExpireQuotes(x) PROVE Quiet
  BY <1>14 DEF ExpireQuotes, SetStatus, QuoteLapsed, Quiet, TypeOK, PaymentRow
<1>15. ASSUME NEW x \in Expirer, ExpireGrace(x) PROVE Quiet
  BY <1>15 DEF ExpireGrace, SetStatus, GraceLapsed, Quiet, TypeOK, PaymentRow
<1>16. ASSUME NEW x \in Expirer, NEW p \in Payment, NEW e \in Event, Announce(x, p, e)
       PROVE  Quiet
  <2>1. e \in Event \ {"payment.paid"}
    BY <1>16 DEF Announce, ExpirerJobs, LapseEvent
  <2>2. \A q \in Payment : PaidJobs(q)' = PaidJobs(q)
    BY <1>16, <2>1, OtherHook DEF Announce, Status, Terminal
  <2>. QED  BY <1>16, <2>2 DEF Announce, Quiet
<1>. QED
  BY <1>1, <1>2, <1>3, <1>4, <1>5, <1>6, <1>7, <1>8, <1>9, <1>10, <1>11, <1>12, <1>13,
     <1>14, <1>15, <1>16
  DEF Next, Watch, Confirm, Expire

\* What confirmDeposit writes to a payment's row, and what it leaves alone.
LEMMA CountedRow ==
    ASSUME TypeOK, NEW t \in Transfer, NEW s \in {"paid", "partially_paid"},
           payment' = [payment EXCEPT ![sentTo[t]] = Counted(sentTo[t], sentRaw[t], s)]
    PROVE  LET p == sentTo[t] IN
           /\ p \in Payment
           /\ \A q \in Payment \ {p} : payment'[q] = payment[q]
           /\ payment'[p].status = s
           /\ payment'[p].confirmedRaw = payment[p].confirmedRaw + sentRaw[t]
           /\ payment'[p].overpaidRaw =
                IF s = "paid" THEN Overpaid(p, payment'[p].confirmedRaw)
                ELSE payment[p].overpaidRaw
           /\ payment'[p].quoteExpiresAt = payment[p].quoteExpiresAt
           /\ payment'[p].graceExpiresAt = payment[p].graceExpiresAt
<1>. DEFINE p == sentTo[t]
            confirmed == ConfirmedWith(p, sentRaw[t])
            rest == payment[p].pendingRaw - sentRaw[t]
            over == IF s = "paid" THEN Overpaid(p, confirmed) ELSE payment[p].overpaidRaw
            row == [payment[p] EXCEPT !.status = s, !.confirmedRaw = confirmed,
                                      !.pendingRaw = rest, !.overpaidRaw = over]
<1>1. p \in Payment
  BY TransferAssumption
<1>2. payment[p] \in PaymentRow
  BY <1>1 DEF TypeOK
<1>3. Counted(p, sentRaw[t], s) = row
  BY DEF Counted
<1>4. payment' = [payment EXCEPT ![p] = row]
  BY <1>3
<1>5. /\ row.status = s
      /\ row.confirmedRaw = confirmed
      /\ row.overpaidRaw = over
      /\ row.quoteExpiresAt = payment[p].quoteExpiresAt
      /\ row.graceExpiresAt = payment[p].graceExpiresAt
  <2>. HIDE DEF p, confirmed, rest, over
  <2>. QED  BY <1>2 DEF PaymentRow
<1>. HIDE DEF row
<1>6. payment'[p] = row /\ \A q \in Payment \ {p} : payment'[q] = payment[q]
  BY <1>1, <1>4 DEF TypeOK
<1>. QED  BY <1>1, <1>5, <1>6 DEF ConfirmedWith

\* A payment is credited, entered in the ledger and announced together, and only
\* while it is not yet paid.
LEMMA CreditedOnceStep ==
    ASSUME TypeOK, CreditedOnce, ExpirerJobs, [Next]_vars
    PROVE  CreditedOnce'
<1>1. CASE Quiet
  BY <1>1 DEF Quiet, PaidJobs, CreditedOnce
<1>2. ASSUME NEW t \in Transfer, CountsLate(t) PROVE CreditedOnce'
  <2>. DEFINE p == sentTo[t]
  <2>1. /\ p \in Payment
        /\ payment[p].status = "paid"
        /\ payment'[p].status = "paid"
        /\ \A q \in Payment \ {p} : payment'[q] = payment[q]
    BY <1>2, CountedRow DEF CountsLate, AlreadyPaid
  <2>2. ledger' = ledger /\ hooks' = hooks
    BY <1>2 DEF CountsLate
  <2>. QED  BY <2>1, <2>2 DEF CreditedOnce
<1>3. ASSUME NEW t \in Transfer, Settles(t) PROVE CreditedOnce'
  <2>. DEFINE p == sentTo[t]
  <2>1. /\ p \in Payment
        /\ payment'[p].status = "paid"
        /\ \A q \in Payment \ {p} : payment'[q] = payment[q]
    BY <1>3, CountedRow DEF Settles
  <2>2. ledger[p] = 0 /\ hooks[p]["payment.paid"] = 0
    BY <1>3, <2>1 DEF Settles, AlreadyPaid, CreditedOnce
  <2>3. ledger' = [ledger EXCEPT ![p] = 1]
    BY <1>3, <2>1, <2>2 DEF Settles, Credit, TypeOK
  <2>4. /\ hooks'[p]["payment.paid"] = 1
        /\ \A q \in Payment \ {p} : hooks'[q] = hooks[q]
    BY <1>3, <2>1, <2>2 DEF Settles, enqueueWebhook, TypeOK, Event
  <2>. QED  BY <2>1, <2>3, <2>4 DEF CreditedOnce, TypeOK
<1>4. ASSUME NEW t \in Transfer, CountsPartially(t) PROVE CreditedOnce'
  <2>. DEFINE p == sentTo[t]
  <2>1. /\ p \in Payment
        /\ payment[p].status # "paid"
        /\ payment'[p].status # "paid"
        /\ \A q \in Payment \ {p} : payment'[q] = payment[q]
    BY <1>4, CountedRow DEF CountsPartially, AlreadyPaid
  <2>2. ledger' = ledger /\ \A q \in Payment : PaidJobs(q)' = PaidJobs(q)
    BY <1>4 DEF CountsPartially
  <2>. QED  BY <2>1, <2>2 DEF PaidJobs, CreditedOnce
<1>. QED  BY <1>1, <1>2, <1>3, <1>4, StepEffect

\* What a payment has confirmed crosses the threshold only in the transaction that
\* marks it paid, and a deposit counted later only adds to it.
LEMMA PaidInFullStep ==
    ASSUME TypeOK, PaidInFull, ExpirerJobs, [Next]_vars
    PROVE  PaidInFull'
<1>1. CASE Quiet
  BY <1>1 DEF Quiet, PaidInFull
<1>2. ASSUME NEW t \in Transfer
      PROVE  /\ sentRaw[t] \in Nat
             /\ sentTo[t] \in Payment
             /\ payment[sentTo[t]].confirmedRaw \in Int
             /\ requiredWithTolerance(sentTo[t]) \in Nat
  BY TransferAssumption, ThresholdType DEF TypeOK, PaymentRow
<1>3. ASSUME NEW t \in Transfer, CountsLate(t) PROVE PaidInFull'
  <2>. DEFINE p == sentTo[t]
  <2>1. /\ payment[p].status = "paid"
        /\ payment'[p].status = "paid"
        /\ payment'[p].confirmedRaw = payment[p].confirmedRaw + sentRaw[t]
        /\ payment'[p].overpaidRaw = Overpaid(p, payment'[p].confirmedRaw)
        /\ \A q \in Payment \ {p} : payment'[q] = payment[q]
    BY <1>3, CountedRow DEF CountsLate, AlreadyPaid
  <2>. QED  BY <1>2, <2>1 DEF PaidInFull
<1>4. ASSUME NEW t \in Transfer, Settles(t) PROVE PaidInFull'
  <2>. DEFINE p == sentTo[t]
  <2>1. /\ payment[p].status # "paid"
        /\ payment'[p].status = "paid"
        /\ payment'[p].confirmedRaw = payment[p].confirmedRaw + sentRaw[t]
        /\ payment'[p].overpaidRaw = Overpaid(p, payment'[p].confirmedRaw)
        /\ \A q \in Payment \ {p} : payment'[q] = payment[q]
    BY <1>4, CountedRow DEF Settles, AlreadyPaid
  <2>2. payment[p].confirmedRaw + sentRaw[t] >= requiredWithTolerance(p)
    BY <1>4 DEF Settles, ReachesThreshold, ConfirmedWith
  <2>. QED  BY <1>2, <2>1, <2>2 DEF PaidInFull
<1>5. ASSUME NEW t \in Transfer, CountsPartially(t) PROVE PaidInFull'
  <2>. DEFINE p == sentTo[t]
  <2>1. /\ payment[p].status # "paid"
        /\ payment'[p].status # "paid"
        /\ payment'[p].confirmedRaw = payment[p].confirmedRaw + sentRaw[t]
        /\ payment'[p].overpaidRaw = payment[p].overpaidRaw
        /\ \A q \in Payment \ {p} : payment'[q] = payment[q]
    BY <1>5, CountedRow DEF CountsPartially, AlreadyPaid
  <2>2. ~(payment[p].confirmedRaw + sentRaw[t] >= requiredWithTolerance(p))
    BY <1>5 DEF CountsPartially, ReachesThreshold, ConfirmedWith
  <2>. QED  BY <1>2, <2>1, <2>2 DEF PaidInFull
<1>. QED  BY <1>1, <1>3, <1>4, <1>5, StepEffect

LEMMA OneMore ==
    ASSUME NEW n \in Nat, NEW a \in Nat
    PROVE  (n + 1) * a = n * a + a
OBVIOUS

\* The transaction that writes a payment's ledger row adds its amount to its merchant's
\* balance, and no other step touches either table.
LEMMA BalanceStep ==
    ASSUME TypeOK, BalanceIsLedger, ExpirerJobs, [Next]_vars
    PROVE  BalanceIsLedger'
<1>1. CASE UNCHANGED <<balance, ledger>>
  BY <1>1 DEF BalanceIsLedger
<1>2. ASSUME NEW t \in Transfer, Settles(t), NEW m \in Merchant
      PROVE  balance'[m] = SumFunctionOnSet([p \in Payment |-> ledger'[p] * amountCop[p]],
                                            {p \in Payment : clientId[p] = m})
  <2>. DEFINE p == sentTo[t]
              S == {q \in Payment : clientId[q] = m}
              was == [q \in Payment |-> ledger[q] * amountCop[q]]
              is == [q \in Payment |-> ledger'[q] * amountCop[q]]
  <2>1. p \in Payment /\ clientId[p] \in Merchant /\ amountCop[p] \in Nat /\ ledger[p] \in Nat
    BY TransferAssumption, PaymentAssumption DEF TypeOK
  <2>2. /\ balance' = [balance EXCEPT ![clientId[p]] = @ + amountCop[p]]
        /\ ledger' = [ledger EXCEPT ![p] = @ + 1]
    BY <1>2 DEF Settles, Credit
  <2>3. balance[m] = SumFunctionOnSet(was, S) /\ balance[m] \in Nat
    BY DEF BalanceIsLedger, TypeOK
  <2>4. /\ IsFiniteSet(S)
        /\ \A q \in Payment : was[q] \in Int
    BY PaymentAssumption, FS_Subset DEF TypeOK
  <2>5. \A q \in Payment \ {p} : is[q] = was[q]
    BY <2>2 DEF TypeOK
  <2>6. is[p] = was[p] + amountCop[p]
    <3>1. ledger'[p] = ledger[p] + 1
      BY <2>1, <2>2 DEF TypeOK
    <3>2. (ledger[p] + 1) * amountCop[p] = ledger[p] * amountCop[p] + amountCop[p]
      BY <2>1, OneMore
    <3>. QED  BY <2>1, <3>1, <3>2
  <2>7. CASE clientId[p] = m
    <3>1. p \in S /\ \A q \in S : was[q] \in Int
      BY <2>1, <2>4, <2>7
    <3>2. is[p] \in Int /\ is[p] - was[p] = amountCop[p] /\ \A q \in S \ {p} : is[q] = was[q]
      BY <2>1, <2>4, <2>5, <2>6
    <3>3. balance'[m] = balance[m] + amountCop[p]
      BY <2>1, <2>2, <2>7 DEF TypeOK
    <3>. HIDE DEF S, was, is, p
    <3>4. SumFunctionOnSet(is, S) = SumFunctionOnSet(was, S) + (is[p] - was[p])
      BY <2>4, <3>1, <3>2, SumUpdate
    <3>5. balance'[m] = SumFunctionOnSet(is, S)
      BY <2>3, <3>2, <3>3, <3>4
    <3>. QED  BY <3>5 DEF is, S
  <2>8. CASE clientId[p] # m
    <3>1. \A q \in S : was[q] = is[q]
      BY <2>5, <2>8
    <3>2. balance'[m] = balance[m]
      BY <2>1, <2>2, <2>8 DEF TypeOK
    <3>. HIDE DEF S, was, is, p
    <3>3. SumFunctionOnSet(was, S) = SumFunctionOnSet(is, S)
      BY <2>4, <3>1, SumEqual
    <3>4. balance'[m] = SumFunctionOnSet(is, S)
      BY <2>3, <3>2, <3>3
    <3>. QED  BY <3>4 DEF is, S
  <2>. QED  BY <2>7, <2>8
<1>3. ASSUME NEW t \in Transfer, Settles(t) PROVE BalanceIsLedger'
  BY <1>2, <1>3 DEF BalanceIsLedger
<1>. QED  BY <1>1, <1>3, StepEffect DEF Quiet, CountsLate, CountsPartially

\* The expirer's list never names another event than the two lapses.
LEMMA ExpirerJobsStep ==
    ASSUME TypeOK, ExpirerJobs, [Next]_vars
    PROVE  ExpirerJobs'
<1>. USE DEF dbVars, watcherVars, ExpirerJobs, LapseEvent
<1>1. CASE UNCHANGED expirer
  BY <1>1
<1>2. ASSUME NEW x \in Expirer, ExpireStart(x) \/ ExpirerFail(x) PROVE ExpirerJobs'
  BY <1>2 DEF ExpireStart, ExpirerFail, IdleExpirer, TypeOK
<1>3. ASSUME NEW x \in Expirer, ExpireQuotes(x) PROVE ExpirerJobs'
  BY <1>3 DEF ExpireQuotes, TypeOK, ExpirerState
<1>4. ASSUME NEW x \in Expirer, NEW todo,
             \A job \in todo : job[2] \in LapseEvent,
             expirer' = [expirer EXCEPT ![x] = ExpirerWith(x, todo)]
      PROVE  ExpirerJobs'
  BY <1>4 DEF ExpirerWith, IdleExpirer, TypeOK
<1>5. ASSUME NEW x \in Expirer, ExpireGrace(x) PROVE ExpirerJobs'
  <2>. DEFINE lapsed == {p \in Payment : GraceLapsed(p, expirer[x].at)}
              todo == expirer[x].todo \cup (lapsed \X {"payment.underpaid_expired"})
  <2>1. expirer' = [expirer EXCEPT ![x] = ExpirerWith(x, todo)]
    BY <1>5 DEF ExpireGrace
  <2>2. \A job \in expirer[x].todo : job[2] \in LapseEvent
    OBVIOUS
  <2>3. \A job \in lapsed \X {"payment.underpaid_expired"} : job[2] \in LapseEvent
    <3>. HIDE DEF lapsed
    <3>. QED  OBVIOUS
  <2>4. \A job \in todo : job[2] \in LapseEvent
    BY <2>2, <2>3
  <2>. HIDE DEF todo
  <2>. QED  BY <1>4, <2>1, <2>4
<1>6. ASSUME NEW x \in Expirer, NEW p \in Payment, NEW e \in Event, Announce(x, p, e)
      PROVE  ExpirerJobs'
  <2>. DEFINE todo == expirer[x].todo \ {<<p, e>>}
  <2>1. expirer' = [expirer EXCEPT ![x] = ExpirerWith(x, todo)]
    BY <1>6 DEF Announce
  <2>2. \A job \in todo : job[2] \in LapseEvent
    OBVIOUS
  <2>. HIDE DEF todo
  <2>. QED  BY <1>4, <2>1, <2>2
<1>7. CASE Restart
  BY <1>7 DEF Restart, IdleExpirer
<1>. QED
  BY <1>1, <1>2, <1>3, <1>5, <1>6, <1>7
  DEF Next, vars, Tick, Mine, Reorg, CreatePayment, Watch, Resubscribe, DeliverLog,
      RegisterDuplicate, RegisterDeposit, Confirm, TickStart, ReceiptFound, ReceiptMissing,
      UnwindDeposit, ConfirmSkipped, ConfirmWrongAsset, ConfirmAfterPaid, ConfirmSettles,
      ConfirmPartial, TickFail, ReceiptLookupFails, Expire

(***************************************************************************)
(* The windows.  A step leaves a payment's deadlines alone unless it       *)
(* creates the payment or opens its grace window.                          *)
(***************************************************************************)

KeepsWindows(p) ==
    /\ payment'[p].quoteExpiresAt = payment[p].quoteExpiresAt
    /\ payment'[p].graceExpiresAt = payment[p].graceExpiresAt
    /\ payment'[p].status \in {"none", "pending"} => payment'[p].status = payment[p].status

Creates(p) ==
    /\ payment[p].status = "none"
    /\ payment'[p].graceExpiresAt = payment[p].graceExpiresAt

OpensGrace(p) ==
    /\ payment[p].status = "pending"
    /\ payment'[p].status = "detecting"
    /\ payment'[p].quoteExpiresAt = payment[p].quoteExpiresAt

WindowEffect(p) == KeepsWindows(p) \/ Creates(p) \/ OpensGrace(p)

LEMMA StepWindows ==
    ASSUME TypeOK, [Next]_vars
    PROVE  \A p \in Payment : WindowEffect(p)
<1>. USE DEF dbVars, watcherVars
<1>. DEFINE Effect == \A p \in Payment : WindowEffect(p)
<1>1. CASE UNCHANGED payment
  BY <1>1 DEF WindowEffect, KeepsWindows
<1>2. ASSUME NEW p \in Payment, CreatePayment(p) PROVE Effect
  <2>1. payment[p].status = "none" /\ payment'[p].graceExpiresAt = payment[p].graceExpiresAt
    BY <1>2 DEF CreatePayment, TypeOK, PaymentRow
  <2>2. \A q \in Payment \ {p} : payment'[q] = payment[q]
    BY <1>2 DEF CreatePayment, TypeOK
  <2>. QED  BY <2>1, <2>2 DEF WindowEffect, KeepsWindows, Creates
<1>3. ASSUME NEW l \in inFlight, RegisterDeposit(l) PROVE Effect
  <2>. DEFINE p == sentTo[l.transfer]
              row == AppliedTo(payment[p], sentRaw[l.transfer])
  <2>1. p \in Payment /\ payment[p] \in PaymentRow
    BY TransferAssumption DEF TypeOK, Log
  <2>2. /\ row.quoteExpiresAt = payment[p].quoteExpiresAt
        /\ IF payment[p].status = "pending"
           THEN row.status = "detecting"
           ELSE /\ row.status = payment[p].status
                /\ row.graceExpiresAt = payment[p].graceExpiresAt
    <3>. DEFINE pending == payment[p].pendingRaw + sentRaw[l.transfer]
                until == now + GraceTtl
    <3>1. row = IF payment[p].status = "pending"
                THEN [payment[p] EXCEPT !.pendingRaw = pending, !.status = "detecting",
                                        !.graceExpiresAt = until]
                ELSE [payment[p] EXCEPT !.pendingRaw = pending]
      BY DEF AppliedTo
    <3>. HIDE DEF p, row, pending, until
    <3>. QED  BY <2>1, <3>1 DEF PaymentRow
  <2>3. payment' = IF Applies(l.transfer) THEN [payment EXCEPT ![p] = row] ELSE payment
    BY <1>3 DEF RegisterDeposit, TypeOK
  <2>. HIDE DEF p, row
  <2>4. \A q \in Payment : payment'[q] = payment[q] \/ (q = p /\ payment'[q] = row)
    BY <2>1, <2>3 DEF TypeOK
  <2>. QED  BY <2>2, <2>4 DEF WindowEffect, KeepsWindows, OpensGrace
<1>4. ASSUME NEW k \in Ticker, NEW d \in DepositId, UnwindDeposit(k, d) PROVE Effect
  BY <1>4 DEF UnwindDeposit, WindowEffect, KeepsWindows, TypeOK, PaymentRow
<1>5. ASSUME NEW k \in Ticker, NEW d \in DepositId,
             ConfirmAfterPaid(k, d) \/ ConfirmSettles(k, d) \/ ConfirmPartial(k, d)
      PROVE  Effect
  <2>. DEFINE t == deposit[d].transfer
  <2>1. t \in Transfer
    BY <1>5, RowTransfer
    DEF ConfirmAfterPaid, ConfirmSettles, ConfirmPartial, Counts, Confirming
  <2>2. PICK s \in {"paid", "partially_paid"} :
          payment' = [payment EXCEPT ![sentTo[t]] = Counted(sentTo[t], sentRaw[t], s)]
    BY <1>5 DEF ConfirmAfterPaid, ConfirmSettles, ConfirmPartial
  <2>. HIDE DEF t
  <2>. QED  BY <2>1, <2>2, CountedRow DEF WindowEffect, KeepsWindows
<1>6. ASSUME NEW S \in SUBSET Payment, NEW s \in {"expired", "underpaid_expired"},
             SetStatus(S, s)
      PROVE  Effect
  BY <1>6 DEF SetStatus, WindowEffect, KeepsWindows, TypeOK, PaymentRow
<1>7. ASSUME NEW x \in Expirer, ExpireQuotes(x) \/ ExpireGrace(x) PROVE Effect
  BY <1>6, <1>7 DEF ExpireQuotes, ExpireGrace
<1>. QED
  BY <1>1, <1>2, <1>3, <1>4, <1>5, <1>7
  DEF Next, vars, Tick, Mine, Reorg, Watch, Resubscribe, DeliverLog, RegisterDuplicate,
      Confirm, TickStart, ReceiptFound, ReceiptMissing, ConfirmSkipped, ConfirmWrongAsset,
      TickFail, ReceiptLookupFails, Expire, ExpireStart, Announce, ExpirerFail, Restart

LEMMA GraceUnopenedStep ==
    ASSUME TypeOK, GraceUnopened, [Next]_vars
    PROVE  GraceUnopened'
BY StepWindows DEF GraceUnopened, WindowEffect, KeepsWindows, Creates, OpensGrace

-----------------------------------------------------------------------------
(***************************************************************************)
(* The invariant, and what follows from it.                                *)
(***************************************************************************)

LEMMA InvInit == Init => IInv
<1>. SUFFICES ASSUME Init PROVE IInv
  OBVIOUS
<1>1. TypeOK
  BY TypeInit
<1>2. CreditedOnce
  BY DEF Init, CreditedOnce, Event
<1>3. PaidInFull
  BY DEF Init, PaidInFull
<1>4. ExpirerJobs /\ GraceUnopened
  BY DEF Init, IdleExpirer, ExpirerJobs, GraceUnopened
<1>5. BalanceIsLedger
  <2>. DEFINE owed == [p \in Payment |-> ledger[p] * amountCop[p]]
  <2>1. ASSUME NEW m \in Merchant, NEW S \in SUBSET Payment PROVE SumFunctionOnSet(owed, S) = 0
    <3>1. IsFiniteSet(S) /\ \A p \in S : owed[p] = 0
      BY PaymentAssumption, FS_Subset DEF Init
    <3>. HIDE DEF owed
    <3>. QED  BY <3>1, SumZero
  <2>. HIDE DEF owed
  <2>. QED  BY <2>1 DEF Init, BalanceIsLedger, owed
<1>. QED  BY <1>1, <1>2, <1>3, <1>4, <1>5 DEF IInv

LEMMA InvStep == IInv /\ [Next]_vars => IInv'
BY TypeStep, CreditedOnceStep, PaidInFullStep, BalanceStep, ExpirerJobsStep,
   GraceUnopenedStep
DEF IInv

\* The strengthening every theorem below rests on.
THEOREM Invariant == Spec => []IInv
BY InvInit, InvStep, PTL DEF Spec

\* No interleaving of overlapping confirmers and expirers, restart or reorganisation
\* credits a payment twice, or without its ledger row and its payment.paid job.
THEOREM NoDoubleCredit == Spec => []CreditedOnce
<1>1. IInv => CreditedOnce
  BY DEF IInv
<1>. QED  BY <1>1, Invariant, PTL

\* A payment is paid exactly when it has confirmed its threshold, and its surplus is
\* recorded, for every quote, tolerance and sequence of deposits.
THEOREM PaidMeansThreshold == Spec => []PaidInFull
<1>1. IInv => PaidInFull
  BY DEF IInv
<1>. QED  BY <1>1, Invariant, PTL

\* A merchant's balance is what its ledger rows add up to, whatever overlaps, crashes or
\* is reorganised away, for any payments and amounts.
THEOREM BalancesAddUp == Spec => []BalanceIsLedger
<1>1. IInv => BalanceIsLedger
  BY DEF IInv
<1>. QED  BY <1>1, Invariant, PTL

\* Nothing a callback does moves a payment out of paid, shrinks what it has confirmed or
\* credits it again.
THEOREM SettlementIsFinal == Spec => PaidIsFinal
<1>. DEFINE Final1 == \A p \in Payment : payment[p].status = "paid" =>
                        /\ payment'[p].status = "paid"
                        /\ payment'[p].confirmedRaw >= payment[p].confirmedRaw
                        /\ ledger'[p] = ledger[p]
<1>1. ASSUME IInv, [Next]_vars PROVE Final1
  <2>1. TypeOK /\ ExpirerJobs
    BY <1>1 DEF IInv
  <2>2. ASSUME NEW p \in Payment PROVE payment[p].confirmedRaw \in Int
    BY <2>1 DEF TypeOK, PaymentRow
  <2>3. CASE Quiet
    BY <2>2, <2>3 DEF Quiet
  <2>4. ASSUME NEW t \in Transfer, CountsLate(t) PROVE Final1
    <3>. DEFINE p == sentTo[t]
    <3>1. /\ p \in Payment /\ sentRaw[t] \in Nat
          /\ payment'[p].status = "paid"
          /\ payment'[p].confirmedRaw = payment[p].confirmedRaw + sentRaw[t]
          /\ \A q \in Payment \ {p} : payment'[q] = payment[q]
      BY <2>1, <2>4, CountedRow, TransferAssumption DEF CountsLate
    <3>2. ledger' = ledger
      BY <2>4 DEF CountsLate
    <3>. HIDE DEF p
    <3>. QED  BY <2>2, <3>1, <3>2
  <2>5. ASSUME NEW t \in Transfer, Settles(t) \/ CountsPartially(t) PROVE Final1
    <3>. DEFINE p == sentTo[t]
    <3>1. /\ p \in Payment
          /\ payment[p].status # "paid"
      BY <2>5, TransferAssumption DEF Settles, CountsPartially, AlreadyPaid
    <3>2. \A q \in Payment \ {p} : payment'[q] = payment[q]
      BY <2>1, <2>5, CountedRow DEF Settles, CountsPartially
    <3>3. \A q \in Payment \ {p} : ledger'[q] = ledger[q]
      BY <2>1, <2>5, <3>1 DEF Settles, CountsPartially, Credit, TypeOK
    <3>. HIDE DEF p
    <3>. QED  BY <2>2, <3>1, <3>2, <3>3
  <2>. QED  BY <1>1, <2>1, <2>3, <2>4, <2>5, StepEffect
<1>2. [Next]_vars /\ IInv => [Final1]_vars
  BY <1>1
<1>. QED  BY <1>2, Invariant, PTL DEF Spec, PaidIsFinal

\* A later deposit, a restart or an expiry never moves a deadline the payer was shown.
THEOREM DeadlinesAreFrozen == Spec => WindowsFrozen
<1>. DEFINE Frozen == \A p \in Payment :
        /\ payment[p].status # "none" =>
            payment'[p].quoteExpiresAt = payment[p].quoteExpiresAt
        /\ payment[p].graceExpiresAt # NoGrace =>
            payment'[p].graceExpiresAt = payment[p].graceExpiresAt
<1>1. ASSUME IInv, [Next]_vars PROVE Frozen
  BY <1>1, StepWindows
  DEF IInv, GraceUnopened, WindowEffect, KeepsWindows, Creates, OpensGrace
<1>2. [Next]_vars /\ IInv => [Frozen]_vars
  BY <1>1
<1>. QED  BY <1>2, Invariant, PTL DEF Spec, WindowsFrozen

-----------------------------------------------------------------------------
(***************************************************************************)
(* What backs a payment.  A step does one of five things to the deposits   *)
(* table and to what payments have confirmed.                              *)
(***************************************************************************)

SameConfirmed == \A p \in Payment : payment'[p].confirmedRaw = payment[p].confirmedRaw

Rests == UNCHANGED deposit /\ SameConfirmed

Inserts(l, d) ==
    /\ ~Duplicate(l)
    /\ d \notin DOMAIN deposit
    /\ deposit' = [c \in DOMAIN deposit \cup {d} |->
                     IF c = d THEN [state |-> "unconfirmed", transfer |-> l.transfer,
                                    logIndex |-> l.logIndex, block |-> l.block]
                     ELSE deposit[c]]
    /\ UNCHANGED ticker
    /\ SameConfirmed

Drops(k, d) ==
    /\ d \in ticker[k].row
    /\ SetState(d, "deleted")
    /\ NextRow(k)
    /\ SameConfirmed

Marks(k, d) ==
    /\ d \in ticker[k].row
    /\ deposit[d].state = "unconfirmed"
    /\ ~RightAsset(deposit[d].transfer)
    /\ SetState(d, "confirmed")
    /\ NextRow(k)
    /\ SameConfirmed

Backs(k, d) ==
    LET p == sentTo[deposit[d].transfer] IN
    /\ d \in ticker[k].row
    /\ deposit[d].state = "unconfirmed"
    /\ RightAsset(deposit[d].transfer)
    /\ SetState(d, "confirmed")
    /\ NextRow(k)
    /\ \A q \in Payment :
         payment'[q].confirmedRaw = payment[q].confirmedRaw
                                      + (IF q = p THEN sentRaw[deposit[d].transfer] ELSE 0)

LEMMA DepositEffect ==
    ASSUME TypeOK, [Next]_vars
    PROVE  \/ Rests
           \/ \E l \in inFlight, d \in DepositId : Inserts(l, d)
           \/ \E k \in Ticker, d \in DepositId : Drops(k, d) \/ Marks(k, d) \/ Backs(k, d)
<1>. USE DEF dbVars, watcherVars
<1>1. CASE UNCHANGED <<deposit, payment>>
  BY <1>1 DEF Rests, SameConfirmed
<1>2. ASSUME NEW p \in Payment, CreatePayment(p) PROVE Rests
  BY <1>2 DEF CreatePayment, Rests, SameConfirmed, TypeOK, PaymentRow
<1>3. ASSUME NEW l \in inFlight, RegisterDeposit(l)
      PROVE  \E d \in DepositId : Inserts(l, d)
  <2>. DEFINE p == sentTo[l.transfer]
              row == AppliedTo(payment[p], sentRaw[l.transfer])
  <2>1. p \in Payment /\ payment[p] \in PaymentRow
    BY TransferAssumption DEF TypeOK, Log
  <2>2. row.confirmedRaw = payment[p].confirmedRaw
    BY <2>1 DEF AppliedTo, PaymentRow
  <2>3. payment' = IF Applies(l.transfer) THEN [payment EXCEPT ![p] = row] ELSE payment
    BY <1>3 DEF RegisterDeposit, TypeOK
  <2>. HIDE DEF row
  <2>4. SameConfirmed
    BY <2>1, <2>2, <2>3 DEF SameConfirmed, TypeOK
  <2>. QED  BY <1>3, <2>4 DEF RegisterDeposit, InsertDeposit, Inserts
<1>4. ASSUME NEW k \in Ticker, NEW d \in DepositId, UnwindDeposit(k, d) PROVE Drops(k, d)
  BY <1>4 DEF UnwindDeposit, Drops, SameConfirmed, TypeOK, PaymentRow
<1>5. ASSUME NEW k \in Ticker, NEW d \in DepositId, ConfirmWrongAsset(k, d) PROVE Marks(k, d)
  BY <1>5 DEF ConfirmWrongAsset, Confirming, Marks, SameConfirmed
<1>6. ASSUME NEW k \in Ticker, NEW d \in DepositId,
             ConfirmAfterPaid(k, d) \/ ConfirmSettles(k, d) \/ ConfirmPartial(k, d)
      PROVE  Backs(k, d)
  <2>. DEFINE t == deposit[d].transfer
  <2>1. Counts(k, d) /\ SetState(d, "confirmed") /\ NextRow(k)
    BY <1>6 DEF ConfirmAfterPaid, ConfirmSettles, ConfirmPartial
  <2>2. t \in Transfer
    BY <2>1, RowTransfer DEF Counts, Confirming
  <2>3. PICK s \in {"paid", "partially_paid"} :
          payment' = [payment EXCEPT ![sentTo[t]] = Counted(sentTo[t], sentRaw[t], s)]
    BY <1>6 DEF ConfirmAfterPaid, ConfirmSettles, ConfirmPartial
  <2>4. \A q \in Payment :
          payment'[q].confirmedRaw = payment[q].confirmedRaw
                                       + (IF q = sentTo[t] THEN sentRaw[t] ELSE 0)
    <3>1. \A q \in Payment : payment[q].confirmedRaw \in Int
      BY DEF TypeOK, PaymentRow
    <3>. HIDE DEF t
    <3>2. /\ sentTo[t] \in Payment /\ sentRaw[t] \in Nat
          /\ payment'[sentTo[t]].confirmedRaw = payment[sentTo[t]].confirmedRaw + sentRaw[t]
          /\ \A q \in Payment \ {sentTo[t]} : payment'[q] = payment[q]
      BY <2>2, <2>3, CountedRow, TransferAssumption
    <3>. QED  BY <3>1, <3>2
  <2>. QED  BY <2>1, <2>4 DEF Backs, Counts, Confirming
<1>7. ASSUME NEW x \in Expirer, ExpireQuotes(x) \/ ExpireGrace(x) PROVE Rests
  BY <1>7 DEF ExpireQuotes, ExpireGrace, SetStatus, Rests, SameConfirmed, TypeOK, PaymentRow
<1>. QED
  BY <1>1, <1>2, <1>3, <1>4, <1>5, <1>6, <1>7
  DEF Next, vars, Tick, Mine, Reorg, Watch, Resubscribe, DeliverLog, RegisterDuplicate,
      Confirm, TickStart, ReceiptFound, ReceiptMissing, ConfirmSkipped, TickFail,
      ReceiptLookupFails, Expire, ExpireStart, Announce, ExpirerFail, Restart

(***************************************************************************)
(* With one confirmer callback at a time, the rows of its snapshot are     *)
(* still unconfirmed when it comes to them: nothing that is unwound has    *)
(* been counted.  With two, one may unwind what the other has confirmed.   *)
(***************************************************************************)

InHand(k) ==
    /\ ticker[k].todo \cap ticker[k].row = {}
    /\ \A d \in ticker[k].todo \cup ticker[k].row : deposit[d].state = "unconfirmed"

\* deposits_tx_log_idx.
OneRow ==
    \A c, d \in DOMAIN deposit :
        /\ Stored(c) /\ Stored(d)
        /\ deposit[c].transfer = deposit[d].transfer
        /\ deposit[c].logIndex = deposit[d].logIndex
        => c = d

LEMMA InHandStep ==
    ASSUME NEW k, Ticker = {k}, TypeOK, InHand(k), [Next]_vars
    PROVE  InHand(k)'
<1>. USE DEF dbVars, watcherVars
<1>1. ticker[k] \in TickerState /\ ticker[k].todo \cup ticker[k].row \subseteq DOMAIN deposit
  BY DEF TypeOK
<1>2. CASE UNCHANGED <<deposit, ticker>>
  BY <1>2 DEF InHand
<1>3. ASSUME NEW l \in inFlight, RegisterDeposit(l) PROVE InHand(k)'
  <2>1. \A d \in DOMAIN deposit : deposit'[d] = deposit[d]
    BY <1>3 DEF RegisterDeposit, InsertDeposit
  <2>2. ticker' = ticker
    BY <1>3 DEF RegisterDeposit
  <2>. QED  BY <1>1, <2>1, <2>2 DEF InHand
<1>4. CASE TickStart(k)
  <2>. DEFINE mature == {d \in Unconfirmed : Mature(d)}
  <2>1. ticker'[k] = Continue(mature) /\ deposit' = deposit
    BY <1>4 DEF TickStart, TypeOK
  <2>2. \A d \in mature : deposit[d].state = "unconfirmed"
    BY DEF Unconfirmed
  <2>. HIDE DEF mature
  <2>. QED  BY <2>1, <2>2 DEF InHand, Continue, IdleTicker
<1>5. ASSUME NEW d \in DepositId,
             ReceiptFound(k, d) \/ ReceiptMissing(k, d) \/ ReceiptLookupFails(k, d)
      PROVE  InHand(k)'
  <2>1. d \in ticker[k].todo /\ deposit' = deposit
    BY <1>5 DEF ReceiptFound, ReceiptMissing, ReceiptLookupFails
  <2>2. ticker'[k].todo = ticker[k].todo \ {d} /\ ticker'[k].row = {d}
    BY <1>5 DEF ReceiptFound, ReceiptMissing, ReceiptLookupFails, Handle, TypeOK
  <2>. QED  BY <2>1, <2>2 DEF InHand
<1>6. ASSUME NextRow(k)
      PROVE  ticker'[k].todo \subseteq ticker[k].todo /\ ticker'[k].row = {}
  BY <1>6 DEF NextRow, Continue, IdleTicker, TypeOK
<1>7. ASSUME NEW d \in DepositId, ConfirmSkipped(k, d) PROVE InHand(k)'
  <2>1. NextRow(k) /\ deposit' = deposit
    BY <1>7 DEF ConfirmSkipped
  <2>. QED  BY <1>6, <2>1 DEF InHand
<1>8. ASSUME NEW d \in ticker[k].row, NEW s, SetState(d, s), NextRow(k) PROVE InHand(k)'
  <2>1. \A c \in ticker[k].todo : deposit'[c] = deposit[c]
    BY <1>1, <1>8 DEF SetState, InHand, TypeOK
  <2>. QED  BY <1>6, <1>8, <2>1 DEF InHand
<1>9. ASSUME NEW d \in DepositId,
             \/ UnwindDeposit(k, d) \/ ConfirmWrongAsset(k, d) \/ ConfirmAfterPaid(k, d)
             \/ ConfirmSettles(k, d) \/ ConfirmPartial(k, d)
      PROVE  InHand(k)'
  <2>1. PICK s : d \in ticker[k].row /\ SetState(d, s) /\ NextRow(k)
    BY <1>9 DEF UnwindDeposit, ConfirmWrongAsset, ConfirmAfterPaid, ConfirmSettles,
                ConfirmPartial, Counts, Confirming
  <2>. QED  BY <1>8, <2>1
<1>10. CASE TickFail(k) \/ Restart
  <2>1. ticker'[k] = IdleTicker
    BY <1>10 DEF TickFail, Restart, TypeOK
  <2>. QED  BY <2>1 DEF InHand, IdleTicker
<1>. QED
  BY <1>2, <1>3, <1>4, <1>5, <1>7, <1>9, <1>10
  DEF Next, vars, Tick, Mine, Reorg, CreatePayment, Watch, Resubscribe, DeliverLog,
      RegisterDuplicate, Confirm, Expire, ExpireStart, ExpireQuotes, ExpireGrace, Announce,
      ExpirerFail

LEMMA OneRowStep ==
    ASSUME TypeOK, OneRow, [Next]_vars
    PROVE  OneRow'
<1>1. CASE Rests
  BY <1>1 DEF Rests, OneRow, Stored
<1>2. ASSUME NEW l, NEW d, Inserts(l, d) PROVE OneRow'
  <2>1. /\ DOMAIN deposit' = DOMAIN deposit \cup {d}
        /\ \A c \in DOMAIN deposit : deposit'[c] = deposit[c]
        /\ deposit'[d].transfer = l.transfer /\ deposit'[d].logIndex = l.logIndex
    BY <1>2 DEF Inserts
  <2>2. \A c \in DOMAIN deposit :
          ~(Stored(c) /\ deposit[c].transfer = l.transfer /\ deposit[c].logIndex = l.logIndex)
    BY <1>2 DEF Inserts, Duplicate
  <2>3. ASSUME NEW b \in DOMAIN deposit', NEW c \in DOMAIN deposit',
               Stored(b)', Stored(c)',
               deposit'[b].transfer = deposit'[c].transfer,
               deposit'[b].logIndex = deposit'[c].logIndex
        PROVE  b = c
    BY <2>1, <2>2, <2>3 DEF OneRow, Stored
  <2>. QED  BY <2>3 DEF OneRow
<1>3. ASSUME NEW k \in Ticker, NEW d \in DepositId, Drops(k, d) \/ Marks(k, d) \/ Backs(k, d)
      PROVE  OneRow'
  <2>1. d \in DOMAIN deposit
    BY <1>3 DEF Drops, Marks, Backs, TypeOK
  <2>2. /\ DOMAIN deposit' = DOMAIN deposit
        /\ \A c \in DOMAIN deposit : /\ deposit'[c].transfer = deposit[c].transfer
                                     /\ deposit'[c].logIndex = deposit[c].logIndex
                                     /\ Stored(c)' => Stored(c)
    BY <1>3, <2>1 DEF Drops, Marks, Backs, SetState, Stored, TypeOK, DepositRow
  <2>. QED  BY <2>2 DEF OneRow
<1>. QED  BY <1>1, <1>2, <1>3, DepositEffect

(***************************************************************************)
(* The rows that back a payment, and what each is worth.                   *)
(***************************************************************************)

Backing(p) ==
    {d \in DOMAIN deposit : /\ deposit[d].state = "confirmed"
                            /\ sentTo[deposit[d].transfer] = p
                            /\ RightAsset(deposit[d].transfer)}

Worth == [d \in DOMAIN deposit |-> sentRaw[deposit[d].transfer]]

BackedInv(k) ==
    /\ IInv
    /\ IsFiniteSet(DOMAIN deposit)
    /\ OneRow
    /\ InHand(k)
    /\ ConfirmedIsBacked

LEMMA WorthType ==
    ASSUME TypeOK
    PROVE  \A d \in DOMAIN deposit : Worth[d] = sentRaw[deposit[d].transfer] /\ Worth[d] \in Nat
BY TransferAssumption DEF Worth, TypeOK, DepositRow

\* A step that keeps the rows behind a payment and their worth keeps their sum.
LEMMA SameBacking ==
    ASSUME NEW p \in Payment, IsFiniteSet(DOMAIN deposit), TypeOK,
           Backing(p)' = Backing(p),
           \A d \in Backing(p) : Worth'[d] = Worth[d]
    PROVE  SumFunctionOnSet(Worth', Backing(p)') = SumFunctionOnSet(Worth, Backing(p))
<1>1. IsFiniteSet(Backing(p))
  BY FS_Subset DEF Backing
<1>2. \A f, g : (\A d \in Backing(p) : f[d] = g[d])
                  => SumFunctionOnSet(f, Backing(p)) = SumFunctionOnSet(g, Backing(p))
  BY <1>1, SumEqual
<1>. QED  BY <1>2

LEMMA BackedStep ==
    ASSUME NEW k, Ticker = {k}, BackedInv(k), [Next]_vars
    PROVE  ConfirmedIsBacked' /\ IsFiniteSet(DOMAIN deposit')
<1>. DEFINE Sum(p) == SumFunctionOnSet(Worth, Backing(p))
<1>1. TypeOK /\ TypeOK'
  BY TypeStep DEF BackedInv, IInv
<1>2. IsFiniteSet(DOMAIN deposit) /\ \A p \in Payment : payment[p].confirmedRaw = Sum(p)
  BY DEF BackedInv, ConfirmedIsBacked, Worth, Backing
<1>3. ASSUME \A p \in Payment : payment'[p].confirmedRaw = Sum(p)' PROVE ConfirmedIsBacked'
  BY <1>3 DEF ConfirmedIsBacked, Worth, Backing
<1>4. CASE Rests
  <2>1. \A p \in Payment : Sum(p)' = Sum(p)
    BY <1>4 DEF Rests, Worth, Backing, RightAsset
  <2>. HIDE DEF Sum
  <2>. QED  BY <1>2, <1>3, <1>4, <2>1 DEF Rests, SameConfirmed
<1>5. ASSUME NEW l \in inFlight, NEW d \in DepositId, Inserts(l, d)
      PROVE  ConfirmedIsBacked' /\ IsFiniteSet(DOMAIN deposit')
  <2>1. /\ DOMAIN deposit' = DOMAIN deposit \cup {d}
        /\ d \notin DOMAIN deposit
        /\ \A c \in DOMAIN deposit : deposit'[c] = deposit[c]
        /\ deposit'[d].state = "unconfirmed"
    BY <1>5 DEF Inserts
  <2>2. ASSUME NEW p \in Payment PROVE Sum(p)' = Sum(p)
    <3>1. Backing(p)' = Backing(p)
      BY <2>1 DEF Backing, RightAsset
    <3>2. \A c \in Backing(p) : Worth'[c] = Worth[c]
      BY <2>1 DEF Backing, Worth
    <3>. QED  BY <1>1, <1>2, <3>1, <3>2, SameBacking
  <2>3. IsFiniteSet(DOMAIN deposit')
    BY <1>2, <2>1, FS_AddElement
  <2>. HIDE DEF Sum
  <2>. QED  BY <1>2, <1>3, <1>5, <2>2, <2>3 DEF Inserts, SameConfirmed
<1>6. ASSUME NEW d \in ticker[k].row, NEW s, SetState(d, s)
      PROVE  /\ d \in DOMAIN deposit /\ deposit[d].state = "unconfirmed"
             /\ DOMAIN deposit' = DOMAIN deposit
             /\ \A c \in DOMAIN deposit : deposit'[c].transfer = deposit[c].transfer
             /\ \A c \in DOMAIN deposit \ {d} : deposit'[c] = deposit[c]
             /\ deposit'[d].state = s
             /\ \A c \in DOMAIN deposit : Worth'[c] = Worth[c]
  <2>1. k \in Ticker
    OBVIOUS
  <2>2. d \in DOMAIN deposit /\ deposit[d].state = "unconfirmed"
    BY <1>1, <2>1 DEF TypeOK, BackedInv, InHand
  <2>3. /\ DOMAIN deposit' = DOMAIN deposit
        /\ \A c \in DOMAIN deposit : deposit'[c].transfer = deposit[c].transfer
        /\ \A c \in DOMAIN deposit \ {d} : deposit'[c] = deposit[c]
        /\ deposit'[d].state = s
    BY <1>1, <1>6, <2>2 DEF SetState, TypeOK, DepositRow
  <2>. QED  BY <2>2, <2>3 DEF Worth
<1>7. ASSUME NEW d \in DepositId, Drops(k, d) \/ Marks(k, d)
      PROVE  ConfirmedIsBacked' /\ IsFiniteSet(DOMAIN deposit')
  <2>1. /\ d \in ticker[k].row
        /\ \/ SetState(d, "deleted")
           \/ SetState(d, "confirmed") /\ ~RightAsset(deposit[d].transfer)
        /\ SameConfirmed
    BY <1>7 DEF Drops, Marks
  <2>2. /\ d \in DOMAIN deposit /\ deposit[d].state = "unconfirmed"
        /\ DOMAIN deposit' = DOMAIN deposit
        /\ \A c \in DOMAIN deposit : deposit'[c].transfer = deposit[c].transfer
        /\ \A c \in DOMAIN deposit \ {d} : deposit'[c] = deposit[c]
        /\ deposit'[d].state = "deleted" \/ ~RightAsset(deposit[d].transfer)
        /\ \A c \in DOMAIN deposit : Worth'[c] = Worth[c]
    BY <1>6, <2>1
  <2>3. ASSUME NEW p \in Payment PROVE Sum(p)' = Sum(p)
    <3>1. Backing(p)' = Backing(p)
      BY <2>2 DEF Backing, RightAsset
    <3>2. \A c \in Backing(p) : Worth'[c] = Worth[c]
      BY <2>2 DEF Backing
    <3>. QED  BY <1>1, <1>2, <3>1, <3>2, SameBacking
  <2>. HIDE DEF Sum
  <2>. QED  BY <1>2, <1>3, <2>1, <2>2, <2>3 DEF SameConfirmed
<1>8. ASSUME NEW d \in DepositId, Backs(k, d)
      PROVE  ConfirmedIsBacked' /\ IsFiniteSet(DOMAIN deposit')
  <2>. DEFINE t == deposit[d].transfer
              p == sentTo[t]
  <2>1. /\ d \in DOMAIN deposit /\ deposit[d].state = "unconfirmed"
        /\ DOMAIN deposit' = DOMAIN deposit
        /\ \A c \in DOMAIN deposit : deposit'[c].transfer = deposit[c].transfer
        /\ \A c \in DOMAIN deposit \ {d} : deposit'[c] = deposit[c]
        /\ deposit'[d].state = "confirmed"
        /\ RightAsset(t)
        /\ \A c \in DOMAIN deposit : Worth'[c] = Worth[c]
    BY <1>6, <1>8 DEF Backs
  <2>2. ASSUME NEW q \in Payment, q # p PROVE Sum(q)' = Sum(q)
    <3>1. Backing(q)' = Backing(q)
      BY <2>1, <2>2 DEF Backing, RightAsset
    <3>2. \A c \in Backing(q) : Worth'[c] = Worth[c]
      BY <2>1 DEF Backing
    <3>. QED  BY <1>1, <1>2, <3>1, <3>2, SameBacking
  <2>3. ASSUME NEW q \in Payment, q = p PROVE Sum(q)' = Sum(q) + sentRaw[t]
    <3>1. Backing(q)' = Backing(q) \cup {d} /\ d \notin Backing(q)
      BY <2>1, <2>3 DEF Backing, RightAsset
    <3>2. /\ IsFiniteSet(Backing(q)) /\ IsFiniteSet(Backing(q) \cup {d})
          /\ Backing(q) \cup {d} \subseteq DOMAIN deposit
      BY <1>2, <2>1, FS_Subset, FS_AddElement DEF Backing
    <3>3. Worth[d] = sentRaw[t] /\ \A c \in Backing(q) \cup {d} : Worth[c] \in Int
      BY <1>1, <2>1, <3>2, WorthType
    <3>4. SumFunctionOnSet(Worth, Backing(q) \cup {d}) = Worth[d] + SumFunctionOnSet(Worth, Backing(q))
      BY <3>1, <3>2, <3>3, SumAdd
    <3>5. SumFunctionOnSet(Worth', Backing(q) \cup {d}) = SumFunctionOnSet(Worth, Backing(q) \cup {d})
      <4>1. \A c \in Backing(q) \cup {d} : Worth'[c] = Worth[c]
        BY <2>1, <3>2
      <4>. QED  BY <3>2, <4>1, SumEqual
    <3>6. SumFunctionOnSet(Worth, Backing(q)) \in Int /\ sentRaw[t] \in Int
      BY <3>2, <3>3, SumInt
    <3>. QED  BY <3>1, <3>3, <3>4, <3>5, <3>6
  <2>4. /\ p \in Payment /\ sentRaw[t] \in Nat
        /\ \A q \in Payment : payment[q].confirmedRaw \in Int
    BY <1>1, <2>1, TransferAssumption DEF TypeOK, DepositRow, PaymentRow
  <2>5. \A q \in Payment : payment'[q].confirmedRaw
                             = payment[q].confirmedRaw + (IF q = p THEN sentRaw[t] ELSE 0)
    BY <1>8 DEF Backs
  <2>. HIDE DEF Sum, p, t
  <2>6. ASSUME NEW q \in Payment PROVE payment'[q].confirmedRaw = Sum(q)'
    <3>1. CASE q = p
      <4>1. payment'[p].confirmedRaw = payment[p].confirmedRaw + sentRaw[t]
        BY <2>4, <2>5
      <4>2. Sum(q)' = Sum(q) + sentRaw[t]
        BY <2>3, <3>1
      <4>. QED  BY <1>2, <3>1, <4>1, <4>2
    <3>2. CASE q # p
      <4>1. payment'[q].confirmedRaw = payment[q].confirmedRaw
        BY <2>4, <2>5, <3>2
      <4>. QED  BY <1>2, <2>2, <3>2, <4>1
    <3>. QED  BY <3>1, <3>2
  <2>. QED  BY <1>2, <1>3, <2>1, <2>6
<1>. QED  BY <1>1, <1>2, <1>4, <1>5, <1>7, <1>8, DepositEffect DEF Rests

LEMMA BackedInit == ASSUME NEW k \in Ticker, Init PROVE BackedInv(k)
<1>1. IInv
  BY InvInit
<1>2. DOMAIN deposit = {}
  BY DEF Init
<1>3. IsFiniteSet(DOMAIN deposit) /\ OneRow
  BY <1>2, FS_EmptySet DEF OneRow
<1>4. InHand(k)
  BY DEF Init, InHand, IdleTicker
<1>5. ConfirmedIsBacked
  <2>1. \A p \in Payment : Backing(p) = {} /\ payment[p].confirmedRaw = 0
    BY <1>2 DEF Init, Backing
  <2>. QED  BY <2>1, SumEmpty DEF ConfirmedIsBacked, Backing, Worth
<1>. QED  BY <1>1, <1>3, <1>4, <1>5 DEF BackedInv

THEOREM BackedInvariant == ASSUME NEW k, Ticker = {k} PROVE Spec => []BackedInv(k)
<1>1. Init => BackedInv(k)
  BY BackedInit
<1>2. BackedInv(k) /\ [Next]_vars => BackedInv(k)'
  <2>. SUFFICES ASSUME BackedInv(k), [Next]_vars PROVE BackedInv(k)'
    OBVIOUS
  <2>1. IInv' /\ TypeOK
    BY InvStep DEF BackedInv, IInv
  <2>2. OneRow' /\ InHand(k)'
    BY <2>1, OneRowStep, InHandStep DEF BackedInv
  <2>. QED  BY <2>1, <2>2, BackedStep DEF BackedInv
<1>. QED  BY <1>1, <1>2, PTL DEF Spec

\* With one confirmer callback at a time, every unit a payment has confirmed is a unit of a
\* stored, confirmed deposit in the quoted asset, whatever is unwound and registered again.
THEOREM ConfirmedRestsOnDeposits ==
    ASSUME NEW k, Ticker = {k}
    PROVE  Spec => []ConfirmedIsBacked
<1>1. BackedInv(k) => ConfirmedIsBacked
  BY DEF BackedInv
<1>. QED  BY <1>1, BackedInvariant, PTL

\* If besides a transfer has one position only, a merchant is credited only for value that
\* arrived: no transfer is counted twice towards the threshold.
THEOREM CreditRestsOnTransfers ==
    ASSUME NEW k, Ticker = {k}, NEW i, LogIndex = {i}
    PROVE  Spec => []PaidWasReceived
<1>1. ASSUME BackedInv(k) PROVE PaidWasReceived
  <2>1. TypeOK /\ PaidInFull /\ OneRow /\ ConfirmedIsBacked /\ IsFiniteSet(DOMAIN deposit)
    BY <1>1 DEF BackedInv, IInv
  <2>2. ASSUME NEW p \in Payment, payment[p].status = "paid"
        PROVE  SumFunctionOnSet(sentRaw,
                 {t \in Transfer :
                    /\ sentTo[t] = p
                    /\ RightAsset(t)
                    /\ \E d \in DOMAIN deposit : /\ deposit[d].transfer = t
                                                 /\ deposit[d].state = "confirmed"})
                 >= requiredWithTolerance(p)
    <3>. DEFINE phi == [d \in DOMAIN deposit |-> deposit[d].transfer]
                S == Backing(p)
                T == {t \in Transfer :
                    /\ sentTo[t] = p
                    /\ RightAsset(t)
                    /\ \E d \in DOMAIN deposit : /\ deposit[d].transfer = t
                                                 /\ deposit[d].state = "confirmed"}
    <3>1. payment[p].confirmedRaw >= requiredWithTolerance(p)
      BY <2>1, <2>2 DEF PaidInFull
    <3>2. payment[p].confirmedRaw = SumFunctionOnSet(Worth, S)
      BY <2>1 DEF ConfirmedIsBacked, Worth, Backing
    <3>3. T = {phi[d] : d \in S}
      BY <2>1 DEF Backing, TypeOK, DepositRow
    <3>4. \A c, d \in S : phi[c] = phi[d] => c = d
      <4>1. \A d \in S : deposit[d].logIndex = i /\ Stored(d) /\ d \in DOMAIN deposit
        BY <2>1 DEF Backing, Stored, TypeOK, DepositRow
      <4>. QED  BY <2>1, <4>1 DEF OneRow
    <3>5. IsFiniteSet(S) /\ \A d \in S : Worth[d] \in Int /\ Worth[d] = sentRaw[phi[d]]
      BY <2>1, FS_Subset, WorthType DEF Backing
    <3>. HIDE DEF phi, S, T
    <3>6. SumFunctionOnSet(Worth, S) = SumFunctionOnSet(sentRaw, T)
      BY <3>3, <3>4, <3>5, SumReindex
    <3>7. SumFunctionOnSet(sentRaw, T) >= requiredWithTolerance(p)
      BY <3>1, <3>2, <3>6
    <3>. QED  BY <3>7 DEF T
  <2>. QED  BY <2>2 DEF PaidWasReceived
<1>2. BackedInv(k) => PaidWasReceived
  BY <1>1
<1>. QED  BY <1>2, BackedInvariant, PTL

-----------------------------------------------------------------------------
(***************************************************************************)
(* Lapses.  The rows of both updates are in the callback's list until      *)
(* their jobs are enqueued; only a failed statement or a crash drops them. *)
(***************************************************************************)

Lapse == {"expired", "underpaid_expired"}

JobOf(s) == IF s = "expired" THEN "payment.expired" ELSE "payment.underpaid_expired"

Announced(p, s) ==
    hooks[p][JobOf(s)] > 0 \/ \E x \in Expirer : <<p, JobOf(s)>> \in expirer[x].todo

\* A callback lists nothing before its first update.
NothingListed == \A x \in Expirer : expirer[x].pc \in {"idle", "quotes"} => expirer[x].todo = {}

LapseInv == IInv /\ NothingListed /\ (faults = 0 => LapseAnnounced)

LEMMA LapsesAre ==
    LapseAnnounced <=> \A p \in Payment, s \in Lapse : payment[p].status = s => Announced(p, s)
BY DEF LapseAnnounced, Lapse, Announced, JobOf

LEMMA LapsesNext ==
    LapseAnnounced' <=> \A p \in Payment, s \in Lapse : payment'[p].status = s => Announced(p, s)'
BY DEF LapseAnnounced, Lapse, Announced, JobOf

\* No payment lapses, and no job and no entry of a list is lost.
NoLapse ==
    /\ \A p \in Payment : payment'[p].status \in Lapse => payment'[p].status = payment[p].status
    /\ \A p \in Payment, e \in Event : hooks'[p][e] >= hooks[p][e]
    /\ UNCHANGED expirer

\* One callback's list grows by the payments that lapse.
Lapses(x) ==
    /\ UNCHANGED hooks
    /\ \A c \in Expirer : expirer[c].todo \subseteq expirer'[c].todo
    /\ \A p \in Payment, s \in Lapse :
         payment'[p].status = s => payment[p].status = s \/ <<p, JobOf(s)>> \in expirer'[x].todo

\* One job is enqueued and leaves its callback's list.
Announces(x, p, e) ==
    /\ UNCHANGED payment
    /\ \A q \in Payment, f \in Event :
         hooks'[q][f] = hooks[q][f] + (IF q = p /\ f = e THEN 1 ELSE 0)
    /\ \A c \in Expirer : expirer[c].todo \ {<<p, e>>} \subseteq expirer'[c].todo

LEMMA LapseEffect ==
    ASSUME TypeOK, NothingListed, [Next]_vars
    PROVE  /\ NothingListed'
           /\ \/ faults' # 0
              \/ NoLapse
              \/ \E x \in Expirer : Lapses(x)
              \/ \E x \in Expirer, p \in Payment, e \in Event : Announces(x, p, e)
<1>. USE DEF dbVars, watcherVars, Lapse
<1>. DEFINE Goal == NothingListed' /\ (\/ faults' # 0
                                       \/ NoLapse
                                       \/ \E x \in Expirer : Lapses(x)
                                       \/ \E x \in Expirer, p \in Payment, e \in Event :
                                            Announces(x, p, e))
<1>1. ASSUME UNCHANGED expirer PROVE NothingListed'
  BY <1>1 DEF NothingListed
<1>2. \A p \in Payment, e \in Event : hooks[p][e] \in Nat
  BY DEF TypeOK
<1>3. CASE UNCHANGED <<payment, hooks, expirer>>
  BY <1>1, <1>2, <1>3 DEF NoLapse
<1>4. ASSUME NEW p \in Payment, CreatePayment(p) PROVE Goal
  <2>1. NoLapse
    BY <1>2, <1>4 DEF CreatePayment, NoLapse, TypeOK, PaymentRow
  <2>. QED  BY <1>1, <1>4, <2>1 DEF CreatePayment
<1>5. ASSUME NEW l \in inFlight, RegisterDeposit(l) PROVE Goal
  <2>. DEFINE p == sentTo[l.transfer]
              row == AppliedTo(payment[p], sentRaw[l.transfer])
  <2>1. p \in Payment /\ payment[p] \in PaymentRow
    BY TransferAssumption DEF TypeOK, Log
  <2>2. row.status \in {"detecting", payment[p].status}
    BY <2>1 DEF AppliedTo, PaymentRow
  <2>3. payment' = IF Applies(l.transfer) THEN [payment EXCEPT ![p] = row] ELSE payment
    BY <1>5 DEF RegisterDeposit, TypeOK
  <2>. HIDE DEF row
  <2>4. NoLapse
    BY <1>2, <1>5, <2>1, <2>2, <2>3 DEF RegisterDeposit, NoLapse, TypeOK
  <2>. QED  BY <1>1, <1>5, <2>4 DEF RegisterDeposit
<1>6. ASSUME NEW k \in Ticker, NEW d \in DepositId, UnwindDeposit(k, d) PROVE Goal
  <2>1. NoLapse
    BY <1>2, <1>6 DEF UnwindDeposit, NoLapse, TypeOK, PaymentRow
  <2>. QED  BY <1>1, <1>6, <2>1 DEF UnwindDeposit
<1>7. ASSUME NEW k \in Ticker, NEW d \in DepositId,
             ConfirmAfterPaid(k, d) \/ ConfirmSettles(k, d) \/ ConfirmPartial(k, d)
      PROVE  Goal
  <2>. DEFINE t == deposit[d].transfer
  <2>1. t \in Transfer /\ sentTo[t] \in Payment
    BY <1>7, RowTransfer
    DEF ConfirmAfterPaid, ConfirmSettles, ConfirmPartial, Counts, Confirming
  <2>2. PICK s \in {"paid", "partially_paid"} :
          payment' = [payment EXCEPT ![sentTo[t]] = Counted(sentTo[t], sentRaw[t], s)]
    BY <1>7 DEF ConfirmAfterPaid, ConfirmSettles, ConfirmPartial
  <2>3. \A p \in Payment, e \in Event : hooks'[p][e] >= hooks[p][e]
    <3>1. \A e \in Event : enqueueWebhook(sentTo[t], e) =>
            \A p \in Payment, f \in Event : hooks'[p][f] >= hooks[p][f]
      BY <1>2, <2>1 DEF enqueueWebhook, TypeOK
    <3>2. UNCHANGED hooks \/ \E e \in Event : enqueueWebhook(sentTo[t], e)
      BY <1>7 DEF ConfirmAfterPaid, ConfirmSettles, ConfirmPartial, Event
    <3>. QED  BY <1>2, <3>1, <3>2
  <2>4. UNCHANGED expirer
    BY <1>7 DEF ConfirmAfterPaid, ConfirmSettles, ConfirmPartial
  <2>. HIDE DEF t
  <2>5. \A p \in Payment : payment'[p].status \in Lapse => payment'[p].status = payment[p].status
    BY <2>1, <2>2, CountedRow
  <2>. QED  BY <1>1, <2>3, <2>4, <2>5 DEF NoLapse
<1>8. ASSUME NEW x \in Expirer, ExpireStart(x) PROVE Goal
  <2>1. \A c \in Expirer : expirer'[c].todo = expirer[c].todo
    BY <1>8 DEF ExpireStart, NothingListed, TypeOK
  <2>2. Lapses(x)
    BY <1>8, <2>1 DEF ExpireStart, Lapses
  <2>3. NothingListed'
    BY <1>8 DEF ExpireStart, NothingListed, TypeOK
  <2>. QED  BY <2>2, <2>3
<1>9. ASSUME NEW x \in Expirer, ExpireQuotes(x) PROVE Goal
  <2>. DEFINE lapsed == {p \in Payment : QuoteLapsed(p, expirer[x].at)}
  <2>1. /\ hooks' = hooks
        /\ expirer' = [expirer EXCEPT ![x] = [@ EXCEPT !.pc = "grace",
                                                !.todo = lapsed \X {"payment.expired"}]]
        /\ \A p \in Payment : IF p \in lapsed THEN payment'[p].status = "expired"
                              ELSE payment'[p].status = payment[p].status
    BY <1>9 DEF ExpireQuotes, SetStatus, TypeOK, PaymentRow
  <2>2. expirer[x].todo = {}
    BY <1>9 DEF ExpireQuotes, NothingListed
  <2>3. /\ expirer'[x].pc = "grace"
        /\ expirer'[x].todo = lapsed \X {"payment.expired"}
        /\ \A c \in Expirer \ {x} : expirer'[c] = expirer[c]
    <3>. HIDE DEF lapsed
    <3>. QED  BY <2>1 DEF TypeOK, ExpirerState
  <2>. HIDE DEF lapsed
  <2>4. Lapses(x)
    BY <2>1, <2>2, <2>3 DEF Lapses, JobOf
  <2>. QED  BY <2>3, <2>4 DEF NothingListed
<1>10. ASSUME NEW x \in Expirer, NEW todo,
              expirer' = [expirer EXCEPT ![x] = ExpirerWith(x, todo)]
       PROVE  /\ NothingListed'
              /\ expirer'[x].todo = todo
              /\ \A c \in Expirer \ {x} : expirer'[c] = expirer[c]
  <2>1. ExpirerWith(x, todo).todo = todo /\ (todo # {} => ExpirerWith(x, todo).pc = "announce")
    BY DEF ExpirerWith, IdleExpirer
  <2>2. expirer'[x] = ExpirerWith(x, todo) /\ \A c \in Expirer \ {x} : expirer'[c] = expirer[c]
    BY <1>10 DEF TypeOK
  <2>. QED  BY <2>1, <2>2 DEF NothingListed
<1>11. ASSUME NEW x \in Expirer, ExpireGrace(x) PROVE Goal
  <2>. DEFINE lapsed == {p \in Payment : GraceLapsed(p, expirer[x].at)}
              added == lapsed \X {"payment.underpaid_expired"}
              todo == expirer[x].todo \cup added
  <2>1. /\ hooks' = hooks
        /\ expirer' = [expirer EXCEPT ![x] = ExpirerWith(x, todo)]
        /\ \A p \in Payment : IF p \in lapsed THEN payment'[p].status = "underpaid_expired"
                              ELSE payment'[p].status = payment[p].status
    BY <1>11 DEF ExpireGrace, SetStatus, TypeOK, PaymentRow
  <2>2. \A p \in lapsed : <<p, "payment.underpaid_expired">> \in todo
    <3>. HIDE DEF lapsed
    <3>. QED  OBVIOUS
  <2>3. expirer[x].todo \subseteq todo
    OBVIOUS
  <2>. HIDE DEF todo, lapsed
  <2>4. /\ NothingListed'
        /\ expirer'[x].todo = todo
        /\ \A c \in Expirer \ {x} : expirer'[c] = expirer[c]
    BY <1>10, <2>1
  <2>5. Lapses(x)
    BY <2>1, <2>2, <2>3, <2>4 DEF Lapses, JobOf
  <2>. QED  BY <2>4, <2>5
<1>12. ASSUME NEW x \in Expirer, NEW p \in Payment, NEW e \in Event, Announce(x, p, e)
       PROVE  Goal
  <2>. DEFINE todo == expirer[x].todo \ {<<p, e>>}
  <2>1. /\ payment' = payment
        /\ expirer' = [expirer EXCEPT ![x] = ExpirerWith(x, todo)]
        /\ hooks' = [hooks EXCEPT ![p][e] = @ + 1]
    BY <1>12 DEF Announce, enqueueWebhook
  <2>2. \A c \in Expirer : expirer[c].todo \ {<<p, e>>} \subseteq expirer'[c].todo
    BY <1>10, <2>1
  <2>3. NothingListed'
    BY <1>10, <2>1
  <2>4. \A q \in Payment, f \in Event :
          hooks'[q][f] = hooks[q][f] + (IF q = p /\ f = e THEN 1 ELSE 0)
    BY <1>2, <2>1 DEF TypeOK
  <2>. QED  BY <2>1, <2>2, <2>3, <2>4 DEF Announces
<1>13. CASE Restart \/ \E x \in Expirer : ExpirerFail(x)
  <2>1. faults' # 0
    BY <1>13 DEF Restart, ExpirerFail, Fault, TypeOK
  <2>2. NothingListed'
    BY <1>13 DEF Restart, ExpirerFail, IdleExpirer, NothingListed, TypeOK
  <2>. QED  BY <2>1, <2>2
<1>. QED
  BY <1>3, <1>4, <1>5, <1>6, <1>7, <1>8, <1>9, <1>11, <1>12, <1>13
  DEF Next, vars, Tick, Mine, Reorg, Watch, Resubscribe, DeliverLog, RegisterDuplicate,
      Confirm, TickStart, ReceiptFound, ReceiptMissing, ConfirmSkipped, ConfirmWrongAsset,
      TickFail, ReceiptLookupFails, Expire

LEMMA FaultsGrow == ASSUME TypeOK, [Next]_vars, faults' = 0 PROVE faults = 0
<1>1. faults' = faults \/ Fault
  <2>1. CASE UNCHANGED vars
    BY <2>1 DEF vars
  <2>2. CASE Watch
    BY <2>2 DEF Watch, Resubscribe, DeliverLog, RegisterDuplicate, RegisterDeposit
  <2>3. ASSUME NEW k \in Ticker, Confirm(k) PROVE faults' = faults
    BY <2>3 DEF Confirm, TickStart, ReceiptFound, ReceiptMissing, UnwindDeposit, ConfirmSkipped,
            ConfirmWrongAsset, ConfirmAfterPaid, ConfirmSettles, ConfirmPartial
  <2>4. ASSUME NEW x \in Expirer, Expire(x) PROVE faults' = faults
    BY <2>4 DEF Expire, ExpireStart, ExpireQuotes, ExpireGrace, Announce
  <2>5. CASE Tick \/ (\E t \in Transfer, i \in LogIndex : Mine(t, i))
                  \/ (\E p \in Payment : CreatePayment(p))
    BY <2>5 DEF Tick, Mine, CreatePayment
  <2>6. CASE \/ \E t \in Transfer : Reorg(t)
             \/ \E k \in Ticker : TickFail(k)
             \/ \E k \in Ticker, d \in DepositId : ReceiptLookupFails(k, d)
             \/ \E x \in Expirer : ExpirerFail(x)
             \/ Restart
    BY <2>6 DEF Reorg, TickFail, ReceiptLookupFails, ExpirerFail, Restart
  <2>. QED  BY <2>1, <2>2, <2>3, <2>4, <2>5, <2>6 DEF Next
<1>. QED  BY <1>1 DEF Fault, TypeOK

LEMMA LapseStep ==
    ASSUME LapseInv, [Next]_vars
    PROVE  NothingListed' /\ (faults' = 0 => LapseAnnounced')
<1>1. TypeOK /\ NothingListed
  BY DEF LapseInv, IInv
<1>2. \A p \in Payment, s \in Lapse : JobOf(s) \in Event /\ hooks[p][JobOf(s)] \in Nat
  BY <1>1 DEF TypeOK, JobOf, Event
<1>3. ASSUME faults' = 0, NEW p \in Payment, NEW s \in Lapse, payment'[p].status = s
      PROVE  Announced(p, s)'
  <2>1. payment[p].status = s => Announced(p, s)
    BY <1>1, <1>3, FaultsGrow, LapsesAre DEF LapseInv
  <2>2. CASE NoLapse
    <3>1. Announced(p, s) /\ hooks'[p][JobOf(s)] >= hooks[p][JobOf(s)] /\ expirer' = expirer
      BY <1>2, <1>3, <2>1, <2>2 DEF NoLapse
    <3>2. hooks'[p][JobOf(s)] \in Nat
      BY <1>1, <1>2, TypeStep DEF TypeOK
    <3>. QED  BY <1>2, <3>1, <3>2 DEF Announced
  <2>3. ASSUME NEW x \in Expirer, Lapses(x) PROVE Announced(p, s)'
    <3>1. hooks' = hooks /\ \A c \in Expirer : expirer[c].todo \subseteq expirer'[c].todo
      BY <2>3 DEF Lapses
    <3>2. payment[p].status = s \/ <<p, JobOf(s)>> \in expirer'[x].todo
      BY <1>3, <2>3 DEF Lapses
    <3>. QED  BY <2>1, <3>1, <3>2 DEF Announced
  <2>4. ASSUME NEW x \in Expirer, NEW q \in Payment, NEW e \in Event, Announces(x, q, e)
        PROVE  Announced(p, s)'
    <3>1. /\ Announced(p, s)
          /\ hooks'[p][JobOf(s)] = hooks[p][JobOf(s)] + (IF p = q /\ JobOf(s) = e THEN 1 ELSE 0)
          /\ \A c \in Expirer : expirer[c].todo \ {<<q, e>>} \subseteq expirer'[c].todo
      BY <1>2, <1>3, <2>1, <2>4 DEF Announces
    <3>2. CASE p = q /\ JobOf(s) = e
      BY <1>2, <3>1, <3>2 DEF Announced
    <3>3. CASE ~(p = q /\ JobOf(s) = e)
      BY <1>2, <3>1, <3>3 DEF Announced
    <3>. QED  BY <3>2, <3>3
  <2>. QED  BY <1>1, <1>3, <2>2, <2>3, <2>4, LapseEffect
<1>. QED  BY <1>1, <1>3, LapseEffect, LapsesNext

THEOREM LapseInvariant == Spec => []LapseInv
<1>1. Init => LapseInv
  BY InvInit DEF Init, LapseInv, NothingListed, LapseAnnounced, IdleExpirer
<1>2. LapseInv /\ [Next]_vars => LapseInv'
  BY InvStep, LapseStep DEF LapseInv
<1>. QED  BY <1>1, <1>2, PTL DEF Spec

\* As long as no call fails and the process does not restart, no lapse is left without its
\* job: overlapping expirer callbacks drop none of each other's rows.
THEOREM LapsesAreAnnounced == Spec => [](faults = 0 => LapseAnnounced)
<1>1. LapseInv => (faults = 0 => LapseAnnounced)
  BY DEF LapseInv
<1>. QED  BY <1>1, LapseInvariant, PTL

-----------------------------------------------------------------------------
(***************************************************************************)
(* Refinement of MerchantCredit.                                           *)
(***************************************************************************)

LEMMA CreditsInit == Init => Credits!Init
BY DEF Init, Credits!Init, Event

\* A step that credits nothing is a stutter of MerchantCredit; the one that settles a
\* payment is its CreditPayment.
LEMMA CreditsStep == IInv /\ [Next]_vars => [Credits!Next]_(Credits!vars)
<1>. SUFFICES ASSUME IInv, [Next]_vars PROVE [Credits!Next]_(Credits!vars)
  OBVIOUS
<1>. DEFINE credited == {p \in Payment : payment[p].status = "paid"}
            announced == [p \in Payment |-> PaidJobs(p)]
<1>1. TypeOK /\ ExpirerJobs
  BY DEF IInv
<1>2. CASE Quiet
  BY <1>2 DEF Quiet, Credits!vars, PaidJobs
<1>3. ASSUME NEW t \in Transfer, CountsLate(t) \/ CountsPartially(t)
      PROVE  UNCHANGED Credits!vars
  <2>. DEFINE p == sentTo[t]
  <2>1. \A q \in Payment \ {p} : payment'[q] = payment[q]
    BY <1>1, <1>3, CountedRow DEF CountsLate, CountsPartially
  <2>2. payment'[p].status = "paid" <=> payment[p].status = "paid"
    BY <1>1, <1>3, CountedRow DEF CountsLate, CountsPartially, AlreadyPaid
  <2>3. credited' = credited
    BY <2>1, <2>2
  <2>4. \A q \in Payment : PaidJobs(q)' = PaidJobs(q)
    BY <1>3 DEF CountsLate, CountsPartially, PaidJobs
  <2>5. announced' = announced
    BY <2>4
  <2>6. balance' = balance /\ ledger' = ledger
    BY <1>3 DEF CountsLate, CountsPartially
  <2>. QED  BY <2>3, <2>5, <2>6 DEF Credits!vars, PaidJobs
<1>4. ASSUME NEW t \in Transfer, Settles(t) PROVE Credits!Next
  <2>. DEFINE p == sentTo[t]
  <2>1. /\ p \in Payment
        /\ payment[p].status # "paid"
        /\ payment'[p].status = "paid"
        /\ \A q \in Payment \ {p} : payment'[q] = payment[q]
    BY <1>1, <1>4, CountedRow DEF Settles, AlreadyPaid
  <2>2. p \notin credited /\ credited' = credited \cup {p}
    BY <2>1
  <2>3. /\ balance' = [balance EXCEPT ![clientId[p]] = @ + amountCop[p]]
        /\ ledger' = [ledger EXCEPT ![p] = @ + 1]
    BY <1>4 DEF Settles, Credit
  <2>4. \A q \in Payment : PaidJobs(q)' = IF q = p THEN PaidJobs(q) + 1 ELSE PaidJobs(q)
    BY <1>1, <1>4, <2>1 DEF Settles, enqueueWebhook, PaidJobs, TypeOK, Event
  <2>5. announced' = [announced EXCEPT ![p] = @ + 1]
    BY <2>1, <2>4
  <2>6. Credits!CreditPayment(p)
    BY <2>2, <2>3, <2>5 DEF Credits!CreditPayment, PaidJobs
  <2>. QED  BY <2>1, <2>6 DEF Credits!Next
<1>. QED  BY <1>1, <1>2, <1>3, <1>4, StepEffect

\* The payment path, with all its workers, is an implementation of MerchantCredit.
THEOREM Refinement == Spec => CreditsAtomically
BY CreditsInit, CreditsStep, Invariant, PTL DEF Spec, CreditsAtomically, Credits!Spec

=============================================================================
