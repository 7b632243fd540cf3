----------------------------- MODULE SweepRecon -----------------------------
(***************************************************************************)
(* The audit of deposit addresses (workers/sweep-recon) beside the ledger  *)
(* and the chain it compares: a tick reads what the ledger expects, takes  *)
(* a slice of it at a rotating cursor, then reads sweeps in flight and     *)
(* balances, at moments of their own.                                      *)
(***************************************************************************)
EXTENDS Integers, FiniteSets

CONSTANTS
    Pair,      \* audited (address, asset) pairs
    address,   \* address[p]: its address, by its place in the order of the query
    Tick,      \* ticks of the interval that may be running at once
    Cap,       \* SWEEP_RECON_MAX_ADDRESSES
    MaxFaults  \* bound: losses, surpluses and failed reads

RNumbers == IsFiniteSet(Pair) /\ address \in [Pair -> Nat] /\ Cap \in Nat \ {0} /\ MaxFaults \in Nat

VARIABLES
    ledger,    \* per pair: confirmed deposits less confirmed sweeps, if there are any
    inFlight,  \* per pair: the sum of its sweeps that are not yet confirmed
    balance,   \* per pair: what the address holds on the chain
    cursor,
    tick,
    reported,  \* the drifts the last audit reported
    faults

vars == <<ledger, inFlight, balance, cursor, tick, reported, faults>>

NoDeposit == -1
Idle == [pc |-> "idle", batch |-> {}, expected |-> <<>>, live |-> <<>>, onChain |-> <<>>]
Unreadable == -1

TypeOK ==
    /\ ledger \in [Pair -> {NoDeposit} \cup Nat]
    /\ inFlight \in [Pair -> Nat]
    /\ balance \in [Pair -> Nat]
    /\ cursor \in Nat
    /\ \A k \in Tick : /\ tick[k].pc \in {"idle", "read"}
                       /\ tick[k].batch \subseteq Pair
                       /\ DOMAIN tick[k].live \subseteq Pair
                       /\ DOMAIN tick[k].onChain \subseteq Pair
    /\ reported \subseteq Pair
    /\ faults \in Nat

Init ==
    /\ ledger \in [Pair -> {NoDeposit, 1}]
    /\ inFlight = [p \in Pair |-> 0]
    /\ balance = [p \in Pair |-> IF ledger[p] = 1 THEN 1 ELSE 0]
    /\ cursor = 0
    /\ tick = [k \in Tick |-> Idle]
    /\ reported = {}
    /\ faults = 0

Fault == faults < MaxFaults /\ faults' = faults + 1

-----------------------------------------------------------------------------
(* The ledger and the chain. *)

\* A transfer, and the confirmation of its deposit.
Arrive(p) ==
    /\ ledger[p] = NoDeposit /\ balance[p] = 0
    /\ balance' = [balance EXCEPT ![p] = 1]
    /\ UNCHANGED <<ledger, inFlight, cursor, tick, reported, faults>>

Confirm(p) ==
    /\ ledger[p] = NoDeposit /\ balance[p] > 0
    /\ ledger' = [ledger EXCEPT ![p] = 1]
    /\ UNCHANGED <<inFlight, balance, cursor, tick, reported, faults>>

\* A sweep is planned, moves the funds, and is confirmed.
Plan(p) ==
    /\ ledger[p] > 0 /\ inFlight[p] = 0
    /\ inFlight' = [inFlight EXCEPT ![p] = ledger[p]]
    /\ UNCHANGED <<ledger, balance, cursor, tick, reported, faults>>

Move(p) ==
    /\ inFlight[p] > 0 /\ balance[p] >= inFlight[p]
    /\ balance' = [balance EXCEPT ![p] = @ - inFlight[p]]
    /\ UNCHANGED <<ledger, inFlight, cursor, tick, reported, faults>>

ConfirmSweep(p) ==
    /\ inFlight[p] > 0 /\ balance[p] = 0
    /\ ledger' = [ledger EXCEPT ![p] = @ - inFlight[p]]
    /\ inFlight' = [inFlight EXCEPT ![p] = 0]
    /\ UNCHANGED <<balance, cursor, tick, reported, faults>>

\* Value leaves or reaches an address, and nothing else knows of it.
Drift(p) ==
    /\ Fault
    /\ \/ balance[p] > 0 /\ balance' = [balance EXCEPT ![p] = @ - 1]
       \/ balance' = [balance EXCEPT ![p] = @ + 1]
    /\ UNCHANGED <<ledger, inFlight, cursor, tick, reported>>

-----------------------------------------------------------------------------
(* reconcile. *)

expectations == {p \in Pair : ledger[p] # NoDeposit}

\* The query orders by address alone: the places from before(p) on are shared by the assets
\* of an address, in an order that may differ from one tick to the next.
before(p) == Cardinality({q \in expectations : address[q] < address[p]})

tied(p) == {q \in expectations : address[q] = address[p]}

\* What all.slice(from, from + cap) may hold: of each address as many as its places give.
slices(from) ==
    {batch \in SUBSET expectations :
        \A p \in expectations :
            LET places == before(p)..before(p) + Cardinality(tied(p)) - 1
            IN  Cardinality(batch \cap tied(p)) = Cardinality(places \cap (from..from + Cap - 1))}

\* Mutant: the cursor steps over the pair after the slice.
covered2(from, n) == from + n + 1

covered(from, n) == from + n

\* The expectations are read, the slice taken and the cursor moved, in one step.
Slice(k) ==
    LET all == Cardinality(expectations)
        from == IF cursor >= all THEN 0 ELSE cursor
    IN  /\ tick[k].pc = "idle"
        /\ all > 0
        /\ \E batch \in slices(from) :
              LET next == covered(from, Cardinality(batch))
              IN  /\ cursor' = IF next >= all THEN 0 ELSE next
                  /\ tick' = [tick EXCEPT ![k] = [Idle EXCEPT !.pc = "read", !.batch = batch,
                                                     !.expected = [p \in batch |-> ledger[p]]]]
        /\ UNCHANGED <<ledger, inFlight, balance, reported, faults>>

\* Promise.all: the sweeps in flight, and the balances.
ReadInFlight(k) ==
    /\ tick[k].pc = "read" /\ tick[k].live = <<>>
    /\ tick' = [tick EXCEPT ![k].live = [p \in tick[k].batch |-> inFlight[p]]]
    /\ UNCHANGED <<ledger, inFlight, balance, cursor, reported, faults>>

ReadBalances(k) ==
    /\ tick[k].pc = "read" /\ tick[k].onChain = <<>>
    /\ \/ /\ tick' = [tick EXCEPT ![k].onChain = [p \in tick[k].batch |-> balance[p]]]
          /\ UNCHANGED faults
       \/ \E p \in tick[k].batch :  \* one read of a multicall fails
             /\ Fault
             /\ tick' = [tick EXCEPT ![k].onChain =
                            [q \in tick[k].batch |-> IF q = p THEN Unreadable ELSE balance[q]]]
    /\ UNCHANGED <<ledger, inFlight, balance, cursor, reported>>

drifting(t, p) ==
    LET drift == t.onChain[p] - t.expected[p]
    IN  t.onChain[p] # Unreadable /\ drift # 0 /\ ~(drift < 0 /\ -drift <= t.live[p])

Report(k) ==
    /\ tick[k].live # <<>> /\ tick[k].onChain # <<>>
    /\ reported' = {p \in tick[k].batch : drifting(tick[k], p)}
    /\ tick' = [tick EXCEPT ![k] = Idle]
    /\ UNCHANGED <<ledger, inFlight, balance, cursor, faults>>

\* A query fails: the tick ends, its slice unaudited until the cursor is round again.
TickFails(k) ==
    /\ tick[k].pc = "read"
    /\ Fault
    /\ tick' = [tick EXCEPT ![k] = Idle]
    /\ UNCHANGED <<ledger, inFlight, balance, cursor, reported>>

reconcile(k) == Slice(k) \/ ReadInFlight(k) \/ ReadBalances(k) \/ Report(k)

Next ==
    \/ \E k \in Tick : reconcile(k) \/ TickFails(k)
    \/ \E p \in Pair : Arrive(p) \/ Confirm(p) \/ Plan(p) \/ Move(p) \/ ConfirmSweep(p) \/ Drift(p)

\* The interval goes on firing, and a tick that has begun goes on.
Fairness == \A k \in Tick : WF_vars(reconcile(k))

Spec == Init /\ [][Next]_vars /\ Fairness

-----------------------------------------------------------------------------
Lost(p) == ledger[p] # NoDeposit /\ balance[p] < ledger[p] - inFlight[p]

\* The only asset expected at its address: its place in the order is its own.
Alone(p) == tied(p) = {p}

\* A loss that lasts is reported, again and again, whatever failed reads and ticks come before
\* and after it, whatever deposits move the slices of the audit, and however many sweeps come
\* and go meanwhile.
LossReported == \A p \in Pair : <>[](Lost(p) /\ Alone(p)) => []<>(p \in reported)

=============================================================================
