---------------------------- MODULE IntakeProofs ----------------------------
(***************************************************************************)
(* Intake for any processes, requests, assets, calls, payments, transfers  *)
(* and bounds: the derivation indexes of PaymentIntake, the quotes of      *)
(* Rates (Rate), the cursor of NativeWatcher (Coin) and the credits of     *)
(* TronWatcher (Tron), and the run that checks the four side by side.      *)
(***************************************************************************)
EXTENDS MCIntake, SumLemmas

-----------------------------------------------------------------------------
(* PaymentIntake. *)

\* The issued indexes are the last ones below the counter, in order.
Contiguous ==
    \A i \in 1..Len(issued) : issued[i].index = counter.next_index - Len(issued) + i - 1

\* The first index binds the row, and nothing is issued before there is one.
Bound ==
    /\ Len(issued) > 0 => hasRow
    /\ \A i \in 1..Len(issued) : issued[i].seed = counter.seed_fingerprint

\* Calls belong to running processes, whose mnemonic cannot change under them.
Owned == \A c \in Call : call[c].pc # "idle" => proc[call[c].proc].pc = "up"

PathOf(c) == [index |-> call[c].index, seed |-> proc[call[c].proc].seed]

\* What a call is about to insert, and what has been inserted, has been issued.
Issued ==
    /\ \A c \in Call : call[c].pc = "insert" => \E i \in 1..Len(issued) : issued[i] = PathOf(c)
    /\ \A path \in payments : \E i \in 1..Len(issued) : issued[i] = path

Inv == TypeOK /\ Contiguous /\ Bound /\ Owned /\ Issued

-----------------------------------------------------------------------------
CallType == [pc : {"idle", "quote", "reserve", "insert"}, proc : Proc, index : Nat]
ProcType == [pc : {"down", "boot", "adopt", "up"}, seed : Seed]

LEMMA IdleTyped == Idle \in CallType /\ Idle.pc = "idle"
<1>1. (CHOOSE p \in Proc : TRUE) \in Proc
    BY PIProc
<1> QED
    BY <1>1 DEF Idle, CallType

LEMMA InitInv == Init => Inv
<1> SUFFICES ASSUME Init PROVE Inv
    OBVIOUS
<1>1. TypeOK
    <2>1. proc \in [Proc -> ProcType]
        <3>1. {Down(s) : s \in Seed} \subseteq ProcType
            BY DEF Down, ProcType
        <3> QED
            BY <3>1 DEF Init
    <2>2. call \in [Call -> CallType]
        BY IdleTyped DEF Init
    <2>3. /\ counter \in [next_index : Nat, seed_fingerprint : Seed \cup {Unbound}]
          /\ hasRow \in BOOLEAN /\ issued \in Seq(Path) /\ payments \subseteq Path /\ faults \in Nat
        <3>1. \E n \in Nat : counter = [next_index |-> n, seed_fingerprint |-> Unbound]
            <4>1. CASE counter = [next_index |-> 0, seed_fingerprint |-> Unbound]
                BY <4>1
            <4>2. CASE \E n \in 0..1 : counter = [next_index |-> n, seed_fingerprint |-> Unbound]
                BY <4>2
            <4> QED
                BY <4>1, <4>2 DEF Init
        <3>2. counter \in [next_index : Nat, seed_fingerprint : Seed \cup {Unbound}]
            BY <3>1
        <3>3. hasRow \in BOOLEAN
            BY DEF Init
        <3>4. issued \in Seq(Path) /\ payments \subseteq Path /\ faults \in Nat
            BY DEF Init
        <3> QED
            BY <3>2, <3>3, <3>4
    <2> QED
        BY <2>1, <2>2, <2>3 DEF TypeOK, CallType, ProcType
<1>2. Len(issued) = 0
    BY DEF Init
<1> QED
    BY <1>1, <1>2, IdleTyped DEF Init, Inv, Contiguous, Bound, Owned, Issued

-----------------------------------------------------------------------------
\* A step that issues nothing and leaves the row, and every address already taken, as it was.
Quiet ==
    /\ UNCHANGED <<hasRow, counter, issued>>
    /\ \A path \in payments' : path \in payments \/ \E c \in Call : call[c].pc = "insert"
                                                                   /\ path = PathOf(c)
    /\ \A c \in Call : call'[c].pc = "insert" => call[c].pc = "insert" /\ PathOf(c)' = PathOf(c)

LEMMA QuietStep == ASSUME Inv, TypeOK', Owned', Quiet PROVE Inv'
BY DEF Inv, Quiet, Contiguous, Bound, Issued

LEMMA TypeStep == ASSUME Inv, [Next]_vars PROVE TypeOK'
<1>1. /\ hasRow \in BOOLEAN
      /\ counter \in [next_index : Nat, seed_fingerprint : Seed \cup {Unbound}]
      /\ proc \in [Proc -> ProcType] /\ call \in [Call -> CallType]
      /\ issued \in Seq(Path) /\ payments \subseteq Path /\ faults \in Nat
    BY DEF Inv, TypeOK, ProcType, CallType
<1>2. SUFFICES /\ hasRow' \in BOOLEAN
               /\ counter' \in [next_index : Nat, seed_fingerprint : Seed \cup {Unbound}]
               /\ proc' \in [Proc -> ProcType] /\ call' \in [Call -> CallType]
               /\ issued' \in Seq(Path) /\ payments' \subseteq Path /\ faults' \in Nat
    BY DEF TypeOK, ProcType, CallType
<1> DEFINE Typed == /\ hasRow' \in BOOLEAN
                    /\ counter' \in [next_index : Nat, seed_fingerprint : Seed \cup {Unbound}]
                    /\ proc' \in [Proc -> ProcType] /\ call' \in [Call -> CallType]
                    /\ issued' \in Seq(Path) /\ payments' \subseteq Path /\ faults' \in Nat
<1>3. ASSUME NEW p \in Proc, ProcStep(p) PROVE Typed
    <2>1. ASSUME NEW seed \in Seed, Boot(p, seed) PROVE Typed
        BY <1>1, <2>1 DEF Boot, ProcType
    <2>2. CASE assertSeedIdentity(p)
        BY <1>1, <2>2 DEF assertSeedIdentity, ProcType
    <2>3. CASE Adopt(p)
        BY <1>1, <2>3 DEF Adopt, ProcType
    <2>4. CASE CheckDeferred(p)
        <3>1. [proc[p] EXCEPT !.pc = "up"] \in ProcType
            BY <1>1 DEF ProcType
        <3>2. proc' = [proc EXCEPT ![p] = [proc[p] EXCEPT !.pc = "up"]]
            BY <1>1, <2>4 DEF CheckDeferred
        <3>3. proc' \in [Proc -> ProcType]
            BY <1>1, <3>1, <3>2
        <3>4. faults' \in Nat
            BY <1>1, <2>4 DEF CheckDeferred, Fault
        <3>5. UNCHANGED <<hasRow, counter, call, issued, payments>>
            BY <2>4 DEF CheckDeferred
        <3> QED
            BY <1>1, <3>3, <3>4, <3>5
    <2>5. CASE Crash(p)
        BY <1>1, <2>5, IdleTyped DEF Crash, ProcType, Fault
    <2> QED
        BY <1>3, <2>1, <2>2, <2>3, <2>4, <2>5 DEF ProcStep
<1>4. ASSUME NEW c \in Call, CallStep(c) PROVE Typed
    <2>1. ASSUME NEW p \in Proc, Request(c, p) PROVE Typed
        <3>1. [Idle EXCEPT !.pc = "quote", !.proc = p] \in CallType
            BY IdleTyped DEF CallType
        <3> QED
            BY <1>1, <2>1, <3>1 DEF Request
    <2>2. CASE Quoted(c)
        <3>1. [call[c] EXCEPT !.pc = "reserve"] \in CallType
            BY <1>1 DEF CallType
        <3> QED
            BY <1>1, <2>2, <3>1, IdleTyped DEF Quoted
    <2>3. CASE reserveDerivationIndex(c)
        <3> DEFINE seed == proc[call[c].proc].seed
                   index == IF hasRow THEN counter.next_index ELSE 0
        <3>1. seed \in Seed /\ index \in Nat /\ following \in Nat
            BY <1>1 DEF CallType, ProcType, following
        <3>2. [call[c] EXCEPT !.pc = "insert", !.index = index] \in CallType
            BY <1>1, <3>1 DEF CallType
        <3>3. call' \in [Call -> CallType]
            <4>1. call' = [call EXCEPT ![c] = [call[c] EXCEPT !.pc = "insert", !.index = index]]
                BY <2>3, <1>1 DEF reserveDerivationIndex
            <4> QED
                BY <1>1, <3>2, <4>1
        <3>4. issued' \in Seq(Path)
            BY <1>1, <2>3, <3>1 DEF reserveDerivationIndex, Path
        <3> QED
            BY <1>1, <2>3, <3>1, <3>3, <3>4 DEF reserveDerivationIndex
    <2>4. CASE SeedMismatch(c)
        BY <1>1, <2>4, IdleTyped DEF SeedMismatch
    <2>5. CASE InsertPayment(c)
        BY <1>1, <2>5, IdleTyped DEF InsertPayment, CallType, ProcType, Path
    <2>6. CASE CallFails(c)
        BY <1>1, <2>6, IdleTyped DEF CallFails, Fault
    <2> QED
        BY <1>4, <2>1, <2>2, <2>3, <2>4, <2>5, <2>6 DEF CallStep
<1>5. CASE UNCHANGED vars
    BY <1>1, <1>5 DEF vars
<1> QED
    BY <1>3, <1>4, <1>5 DEF Next

-----------------------------------------------------------------------------
LEMMA ProcInv == ASSUME Inv, TypeOK', NEW p \in Proc, ProcStep(p) PROVE Inv'
<1> USE DEF Inv, TypeOK, Owned
<1>1. ASSUME NEW seed \in Seed, Boot(p, seed) PROVE Inv'
    <2>1. \A c \in Call : call[c].pc # "idle" => call[c].proc # p
        BY <1>1 DEF Boot
    <2> QED
        BY <1>1, <2>1, QuietStep DEF Boot, Quiet, PathOf
<1>2. CASE assertSeedIdentity(p)
    BY <1>2, QuietStep DEF assertSeedIdentity, Quiet, PathOf
<1>3. CASE Adopt(p)
    <2>1. Owned'
        BY <1>3 DEF Adopt
    <2>2. CASE Len(issued) = 0
        BY <1>3, <2>1, <2>2 DEF Adopt, Contiguous, Bound, Issued, PathOf
    <2>3. CASE Len(issued) # 0
        <3>1. issued[1] \in Path /\ issued[1].seed = counter.seed_fingerprint
            BY <2>3 DEF Bound
        <3>2. counter' = counter
            BY <1>3, <3>1, PIUnbound DEF Adopt, Path
        <3> QED
            BY <1>3, <2>1, <3>2, QuietStep DEF Adopt, Quiet, PathOf
    <2> QED
        BY <2>2, <2>3
<1>4. CASE CheckDeferred(p)
    BY <1>4, QuietStep DEF CheckDeferred, Quiet, PathOf
<1>5. CASE Crash(p)
    BY <1>5, QuietStep, IdleTyped DEF Crash, Quiet, PathOf
<1> QED
    BY <1>1, <1>2, <1>3, <1>4, <1>5 DEF ProcStep

\* The one step that issues: the row is bound, to the mnemonic of the process that draws.
LEMMA ReserveInv ==
    ASSUME Inv, TypeOK', NEW c \in Call, reserveDerivationIndex(c) PROVE Inv'
<1> DEFINE seed == proc[call[c].proc].seed
           index == IF hasRow THEN counter.next_index ELSE 0
           n == Len(issued)
<1> USE DEF Inv, TypeOK
<1>1. /\ n \in Nat /\ counter.next_index \in Nat /\ seed \in Seed /\ index \in Nat
      /\ hasRow' = TRUE
      /\ counter' = [next_index |-> following, seed_fingerprint |-> seed]
      /\ issued' = Append(issued, [index |-> index, seed |-> seed])
      /\ call' = [call EXCEPT ![c].pc = "insert", ![c].index = index]
      /\ proc' = proc /\ payments' = payments
    BY DEF reserveDerivationIndex
<1>2. following = index + 1
    BY DEF following
<1>3. /\ Len(issued') = n + 1
      /\ issued'[n + 1] = [index |-> index, seed |-> seed]
      /\ \A i \in 1..n : issued'[i] = issued[i]
    BY <1>1
<1>4. \A i \in 1..n : issued[i].seed = seed /\ issued[i].index = index - n + i - 1
    <2> SUFFICES ASSUME NEW i \in 1..n
                 PROVE issued[i].seed = seed /\ issued[i].index = index - n + i - 1
        OBVIOUS
    <2>1. hasRow /\ issued[i] \in Path /\ issued[i].seed = counter.seed_fingerprint
        BY <1>1 DEF Bound
    <2>2. counter.seed_fingerprint = seed
        BY <2>1, PIUnbound DEF reserveDerivationIndex, binds, Path
    <2> QED
        BY <2>1, <2>2 DEF Contiguous
<1> HIDE DEF n, seed, index
<1>5. Contiguous'
    <2> DEFINE m == Len(issued')
               k == counter'.next_index
    <2>1. m = n + 1 /\ k = index + 1
        BY <1>1, <1>2, <1>3
    <2> HIDE DEF m, k
    <2>2. ASSUME NEW i \in 1..m
          PROVE issued'[i].index = k - m + i - 1
        <3>1. /\ i = n + 1 \/ i \in 1..n
              /\ i = n + 1 => k - m + i - 1 = index
              /\ k - m + i - 1 = index - n + i - 1
            BY <1>1, <2>1
        <3>2. CASE i = n + 1
            BY <1>3, <3>1, <3>2
        <3>3. CASE i \in 1..n
            BY <1>3, <1>4, <3>1, <3>3
        <3> QED
            BY <3>1, <3>2, <3>3
    <2> QED
        BY <2>2 DEF Contiguous, m, k
<1>6. Bound'
    <2> SUFFICES ASSUME NEW i \in 1..(n + 1) PROVE issued'[i].seed = seed
        BY <1>1, <1>3 DEF Bound
    <2> QED
        BY <1>1, <1>3, <1>4
<1>7. Owned'
    BY <1>1 DEF Owned, reserveDerivationIndex
<1>8. Issued'
    <2>1. \A path \in payments : \E i \in 1..(n + 1) : issued'[i] = path
        BY <1>1, <1>3 DEF Issued, n
    <2>2. ASSUME NEW d \in Call, call'[d].pc = "insert"
          PROVE \E i \in 1..(n + 1) : issued'[i] = PathOf(d)'
        <3>1. CASE d = c
            <4>1. PathOf(c)' = [index |-> index, seed |-> seed]
                BY <1>1 DEF PathOf, seed
            <4> QED
                BY <3>1, <4>1, <1>1, <1>3
        <3>2. CASE d # c
            <4>1. PathOf(d)' = PathOf(d) /\ call[d].pc = "insert"
                BY <1>1, <2>2, <3>2 DEF PathOf
            <4>2. PICK i \in 1..n : issued[i] = PathOf(d)
                BY <4>1 DEF Issued, n
            <4> QED
                BY <1>1, <1>3, <4>1, <4>2
        <3> QED
            BY <3>1, <3>2
    <2> QED
        BY <1>1, <1>3, <2>1, <2>2 DEF Issued
<1> QED
    BY <1>5, <1>6, <1>7, <1>8

LEMMA CallInv == ASSUME Inv, TypeOK', NEW c \in Call, CallStep(c) PROVE Inv'
<1> USE DEF Inv, TypeOK, Owned
<1>1. ASSUME NEW p \in Proc, Request(c, p) PROVE Inv'
    BY <1>1, QuietStep, IdleTyped DEF Request, Quiet, PathOf
<1>2. CASE Quoted(c)
    <2>1. CASE call' = [call EXCEPT ![c].pc = "reserve"]
        <3>1. \A d \in Call : /\ call'[d].proc = call[d].proc
                              /\ call'[d].pc = "insert" => call[d].pc = "insert" /\ call'[d] = call[d]
                              /\ call'[d].pc # "idle" => call[d].pc # "idle"
            BY <1>2, <2>1 DEF Quoted
        <3>2. UNCHANGED <<hasRow, counter, proc, issued, payments>>
            BY <1>2 DEF Quoted
        <3> HIDE DEF Inv, TypeOK
        <3>3. Owned'
            BY <3>1, <3>2 DEF Inv, Owned
        <3>4. Quiet
            BY <3>1, <3>2 DEF Quiet, PathOf
        <3> QED
            BY <3>3, <3>4, QuietStep
    <2>2. CASE call' = [call EXCEPT ![c] = Idle]
        BY <1>2, <2>2, QuietStep, IdleTyped DEF Quoted, Quiet, PathOf
    <2> QED
        BY <1>2, <2>1, <2>2 DEF Quoted
<1>3. CASE reserveDerivationIndex(c)
    BY <1>3, ReserveInv
<1>4. CASE SeedMismatch(c)
    BY <1>4, QuietStep, IdleTyped DEF SeedMismatch, Quiet, PathOf
<1>5. CASE InsertPayment(c)
    BY <1>5, QuietStep, IdleTyped DEF InsertPayment, Quiet, PathOf
<1>6. CASE CallFails(c)
    BY <1>6, QuietStep, IdleTyped DEF CallFails, Quiet, PathOf
<1> QED
    BY <1>1, <1>2, <1>3, <1>4, <1>5, <1>6 DEF CallStep

LEMMA StepInv == Inv /\ [Next]_vars => Inv'
<1> SUFFICES ASSUME Inv, [Next]_vars PROVE Inv'
    OBVIOUS
<1>1. TypeOK'
    BY TypeStep
<1>2. ASSUME NEW p \in Proc, ProcStep(p) PROVE Inv'
    BY <1>1, <1>2, ProcInv
<1>3. ASSUME NEW c \in Call, CallStep(c) PROVE Inv'
    BY <1>1, <1>3, CallInv
<1>4. CASE UNCHANGED vars
    BY <1>4 DEF vars, Inv, TypeOK, Contiguous, Bound, Owned, Issued, PathOf
<1> QED
    BY <1>2, <1>3, <1>4 DEF Next

LEMMA Invariance == Spec => []Inv
<1>1. Init => Inv
    BY InitInv
<1>2. Inv /\ [Next]_vars => Inv'
    BY StepInv
<1> QED
    BY <1>1, <1>2, PTL DEF Spec

-----------------------------------------------------------------------------
\* Processes, calls, the counter row (hd_counter) and payments keep their types.
THEOREM TypeCorrect == Spec => []TypeOK
<1>1. Inv => TypeOK
    BY DEF Inv
<1> QED
    BY <1>1, Invariance, PTL

\* reserveDerivationIndex never returns an index twice, for any number of processes,
\* concurrent requests, crashes, failed inserts and mnemonics.
THEOREM NoIndexTwice == Spec => []IssuedOnce
<1>1. Inv => IssuedOnce
    <2> SUFFICES ASSUME Inv, NEW i \in 1..Len(issued), NEW j \in 1..Len(issued),
                        issued[i].index = issued[j].index
                 PROVE i = j
        BY DEF IssuedOnce, Inv, TypeOK
    <2>1. Len(issued) \in Nat /\ counter.next_index \in Int
        BY DEF Inv, TypeOK
    <2> QED
        BY <2>1 DEF Inv, Contiguous
<1> QED
    BY <1>1, Invariance, PTL

\* Every index and every payment's address comes from the tree the counter is bound to.
THEOREM OneTreeOnly == Spec => []OneTree
<1>1. Inv => OneTree
    BY DEF Inv, TypeOK, Bound, Issued, OneTree
<1> QED
    BY <1>1, Invariance, PTL

-----------------------------------------------------------------------------
(* Rates. *)

Longer(a, b) == IF a > b THEN a ELSE b

(* What may stand in for each part of a quote whose call began at `begun`. *)
PriceOk(price, begun) == price \in Rate!Time /\ price >= begun
FxOk(fx, begun) == \/ fx = Rate!Fallback /\ HasFallback
                   \/ fx \in Rate!Time /\ begun - fx < Longer(FxTtl, Stale)

\* A quote that is there by time t.
QuoteOk(q, t) ==
    q.fetchedAt # Rate!None =>
        /\ q.fetchedAt \in 0..t /\ q.begun \in 0..t
        /\ PriceOk(q.price, q.begun) /\ FxOk(q.fx, q.begun)

PricePart(price, begun) == price \in {Rate!Pending, Rate!Failed} \/ PriceOk(price, begun)
FxPart(fx, begun) == fx \in {Rate!Pending, Rate!Failed} \/ FxOk(fx, begun)

\* A call awaits its parts, or has them, for the time it began at.
CallOk(r, t) ==
    r.begun # Rate!None =>
        /\ r.begun \in 0..t
        /\ PricePart(r.price, r.begun) /\ FxPart(r.fx, r.begun)
        /\ QuoteOk(r.hit, t)

ServedOk(s, t) ==
    s.at # Rate!None =>
        /\ s.at \in Rate!Time
        /\ s.quote.fetchedAt # Rate!None /\ QuoteOk(s.quote, t)
        /\ s.at - s.quote.fetchedAt < Longer(RateTtl, Stale)

RatesInv ==
    /\ Rate!TypeOK
    /\ \A a \in Asset : QuoteOk(rateCache[a], now)
    /\ \A c \in Quoter : CallOk(call[c], now) /\ (call[c] = Rate!Idle \/ Rate!Asked(c))
    /\ ServedOk(served, now)

-----------------------------------------------------------------------------
LEMMA CeilingDivision ==
    ASSUME NEW n \in Nat, NEW r \in Nat, r > 0
    PROVE  /\ ((n + r - 1) \div r) * r >= n
           /\ (((n + r - 1) \div r) - 1) * r < n
OBVIOUS

LEMMA ExactQuote == ASSUME Rate!RNumbers PROVE Rate!NeverShort
<1> SUFFICES ASSUME NEW amount \in AmountCop, NEW market \in MarketE6, NEW scale \in Scale,
                    Rate!withSpread(market) > 0
             PROVE  LET raw == Rate!copToRaw(amount, Rate!withSpread(market), scale)
                    IN  /\ raw * Rate!withSpread(market) >= amount * 1000000 * scale
                        /\ (raw - 1) * Rate!withSpread(market) < amount * 1000000 * scale
    BY DEF Rate!NeverShort
<1>1. amount \in Nat /\ market \in Nat /\ scale \in Nat /\ 10000 - SpreadBps \in Nat
    BY DEF Rate!RNumbers
<1>2. amount * 1000000 * scale \in Nat
    BY <1>1
<1>3. market * (10000 - SpreadBps) \in Nat
    BY <1>1
<1>4. Rate!withSpread(market) \in Nat
    BY <1>3 DEF Rate!withSpread
<1> QED
    BY <1>2, <1>4, CeilingDivision DEF Rate!copToRaw

\* No amount of pesos, market rate, spread or scale makes copToRaw ask for less than the
\* price is worth, or for a unit more than needed.
THEOREM NeverUnderquoted == ASSUME Rate!RNumbers PROVE Rate!Spec => []Rate!NeverShort
BY ExactQuote, PTL

-----------------------------------------------------------------------------
AskType == [asset : Asset, hit : Rate!Quote, begun : Rate!Moment, price : Rate!Moment,
            fx : Rate!Moment]

LEMMA RatesConstants ==
    ASSUME Rate!RNumbers
    PROVE  /\ RateTtl \in Nat /\ FxTtl \in Nat /\ Stale \in Nat /\ PricingTime \in Nat /\ Stale > 0
           /\ Longer(RateTtl, Stale) \in Nat /\ Longer(FxTtl, Stale) \in Nat
           /\ Longer(RateTtl, Stale) >= RateTtl /\ Longer(RateTtl, Stale) >= Stale
           /\ Longer(FxTtl, Stale) >= FxTtl /\ Longer(FxTtl, Stale) >= Stale
BY DEF Rate!RNumbers, Longer

LEMMA NothingTyped ==
    ASSUME Rate!RNumbers
    PROVE  /\ Rate!NoQuote \in Rate!Quote /\ Rate!Idle \in AskType
           /\ Rate!NoQuote.fetchedAt = Rate!None /\ Rate!Idle.begun = Rate!None
           /\ Rate!NotServed.at = Rate!None
           /\ {Rate!None, Rate!Pending, Rate!Failed, Rate!Fallback} \subseteq Rate!Moment
           /\ Rate!Time \subseteq Rate!Moment /\ Rate!None \notin Rate!Time
<1>1. /\ {Rate!None, Rate!Pending, Rate!Failed, Rate!Fallback} \subseteq Rate!Moment
      /\ Rate!Time \subseteq Rate!Moment /\ Rate!None \notin Rate!Time
    BY RatesConstants DEF Rate!None, Rate!Pending, Rate!Failed, Rate!Fallback, Rate!Moment,
                          Rate!Time
<1>2. Rate!NoQuote \in Rate!Quote /\ Rate!NoQuote.fetchedAt = Rate!None
    BY <1>1 DEF Rate!NoQuote, Rate!Quote
<1>3. (CHOOSE a \in Asset : TRUE) \in Asset
    BY DEF Rate!RNumbers
<1>4. Rate!Idle \in AskType /\ Rate!Idle.begun = Rate!None
    BY <1>1, <1>2, <1>3 DEF Rate!Idle, AskType
<1>5. Rate!NotServed.at = Rate!None
    BY DEF Rate!NotServed
<1> QED
    BY <1>1, <1>2, <1>4, <1>5

LEMMA Later ==
    ASSUME NEW t \in Nat, NEW u \in Nat, t <= u
    PROVE  /\ \A q : QuoteOk(q, t) => QuoteOk(q, u)
           /\ \A r : CallOk(r, t) => CallOk(r, u)
           /\ \A s : ServedOk(s, t) => ServedOk(s, u)
<1>1. \A q : QuoteOk(q, t) => QuoteOk(q, u)
    BY DEF QuoteOk
<1> QED
    BY <1>1 DEF CallOk, ServedOk

LEMMA RatesInit == ASSUME Rate!RNumbers, Rate!Init PROVE RatesInv
<1>1. Rate!TypeOK
    BY RatesConstants, NothingTyped DEF Rate!Init, Rate!TypeOK, Rate!NotServed, AskType,
                                        Rate!Time
<1> QED
    BY <1>1, NothingTyped DEF Rate!Init, RatesInv, QuoteOk, CallOk, ServedOk

\* Whichever lookup ends, and however: its call completes, degrades or goes on waiting.
LEMMA RatesSettle ==
    ASSUME Rate!RNumbers, RatesInv, NEW c \in Quoter, Rate!Asked(c), NEW price, NEW fx,
           PricePart(price, call[c].begun), FxPart(fx, call[c].begun),
           Rate!Settle(c, price, fx), Rate!Record(c, price, fx),
           now' = now, fxCache' \in Rate!Time \cup {Rate!None}
    PROVE  RatesInv'
<1> DEFINE r == call[c]
<1>1. /\ now \in Nat /\ now \in Rate!Time /\ now \in 0..now
      /\ r \in AskType /\ r.begun \in 0..now
      /\ r.begun # Rate!None /\ QuoteOk(r.hit, now)
      /\ r.asset \in Asset /\ r.hit \in Rate!Quote
    BY RatesConstants DEF RatesInv, Rate!TypeOK, Rate!Time, CallOk, Rate!Asked, AskType
<1>2. price \in Rate!Moment /\ fx \in Rate!Moment /\ now \in Rate!Moment
    BY <1>1, NothingTyped DEF PricePart, FxPart, PriceOk, FxOk
<1>3. /\ call' \in [Quoter -> AskType]
      /\ \A d \in Quoter : CallOk(call'[d], now)
                           /\ (call'[d] = Rate!Idle \/ call'[d].begun # Rate!None)
    <2> DEFINE left == IF Rate!Pending \in {price, fx}
                       THEN [r EXCEPT !.price = price, !.fx = fx]
                       ELSE Rate!Idle
    <2>1. call' = [call EXCEPT ![c] = left]
        BY DEF Rate!Record
    <2>2. left \in AskType
        BY <1>1, <1>2, NothingTyped DEF AskType
    <2>3. CallOk(left, now) /\ (left = Rate!Idle \/ left.begun # Rate!None)
        BY <1>1, NothingTyped DEF CallOk, AskType
    <2>4. call \in [Quoter -> AskType]
        BY DEF RatesInv, Rate!TypeOK, AskType
    <2>5. \A d \in Quoter : CallOk(call[d], now)
                             /\ (call[d] = Rate!Idle \/ call[d].begun # Rate!None)
        BY DEF RatesInv, Rate!Asked
    <2> HIDE DEF left
    <2> QED
        BY <2>1, <2>2, <2>3, <2>4, <2>5
<1>4. /\ rateCache' \in [Asset -> Rate!Quote] /\ \A a \in Asset : QuoteOk(rateCache'[a], now)
      /\ served' \in [quote : Rate!Quote, at : Rate!Moment] /\ ServedOk(served', now)
    <2>1. /\ rateCache \in [Asset -> Rate!Quote] /\ \A a \in Asset : QuoteOk(rateCache[a], now)
          /\ served \in [quote : Rate!Quote, at : Rate!Moment] /\ ServedOk(served, now)
        BY DEF RatesInv, Rate!TypeOK
    <2>2. CASE UNCHANGED <<rateCache, served>>
        BY <2>1, <2>2
    <2>3. CASE /\ Rate!Complete(c, price, fx)
               /\ Rate!Pending \notin {price, fx} /\ Rate!Failed \notin {price, fx}
        <3> DEFINE q == Rate!quoteOf(c, price, fx)
        <3>1. q \in Rate!Quote
            BY <1>1, <1>2, NothingTyped DEF Rate!quoteOf, Rate!Quote, AskType
        <3>2. QuoteOk(q, now) /\ q.fetchedAt = now
            BY <1>1, <2>3 DEF Rate!quoteOf, QuoteOk, PricePart, FxPart
        <3>3. rateCache' = [rateCache EXCEPT ![r.asset] = q] /\ served' = [quote |-> q, at |-> now]
            BY <2>3 DEF Rate!Complete, Rate!Serve
        <3> HIDE DEF q
        <3>4. ServedOk(served', now)
            BY <1>1, <3>2, <3>3, RatesConstants, NothingTyped DEF ServedOk
        <3> QED
            BY <1>1, <1>2, <2>1, <3>1, <3>2, <3>3, <3>4
    <2>4. CASE Rate!Degrade(c)
        <3>1. CASE Rate!younger(r.hit.fetchedAt, Stale)
            <4>1. served' = [quote |-> r.hit, at |-> now] /\ rateCache' = rateCache
                BY <2>4, <3>1 DEF Rate!Degrade, Rate!Serve
            <4>2. ServedOk(served', now)
                <5>1. r.hit.fetchedAt # Rate!None /\ r.hit.fetchedAt \in 0..now
                    BY <1>1, <3>1 DEF Rate!younger, QuoteOk
                <5> QED
                    BY <1>1, <3>1, <4>1, <5>1, RatesConstants DEF Rate!younger, ServedOk
            <4> QED
                BY <1>1, <1>2, <2>1, <4>1, <4>2
        <3> QED
            BY <2>1, <2>4, <3>1 DEF Rate!Degrade
    <2> QED
        BY <2>2, <2>3, <2>4 DEF Rate!Settle
<1> QED
    BY <1>1, <1>3, <1>4 DEF RatesInv, Rate!TypeOK, AskType, Rate!Asked

LEMMA Awaiting ==
    ASSUME RatesInv, NEW c \in Quoter, Rate!Pending \in {call[c].price, call[c].fx}
    PROVE  /\ Rate!Asked(c) /\ call[c].begun \in 0..now
           /\ PricePart(call[c].price, call[c].begun) /\ FxPart(call[c].fx, call[c].begun)
<1>1. Rate!Idle.price # Rate!Pending /\ Rate!Idle.fx # Rate!Pending
    BY DEF Rate!Idle, Rate!None, Rate!Pending
<1>2. Rate!Asked(c)
    BY <1>1 DEF RatesInv
<1> QED
    BY <1>2 DEF RatesInv, CallOk, Rate!Asked

LEMMA RatesStep == ASSUME Rate!RNumbers, RatesInv, [Rate!Next]_(Rate!vars) PROVE RatesInv'
<1>1. now \in Nat /\ now \in Rate!Time /\ fxCache \in Rate!Time \cup {Rate!None}
    BY RatesConstants DEF RatesInv, Rate!TypeOK, Rate!Time
<1>2. CASE Rate!Tick
    <2>1. now' = now + 1 /\ now' \in Rate!Time /\ now' \in Nat /\ now <= now'
        BY <1>1, <1>2, RatesConstants DEF Rate!Tick, Rate!Time
    <2> QED
        BY <1>1, <1>2, <2>1, Later DEF Rate!Tick, RatesInv, Rate!TypeOK, Rate!Asked
<1>3. ASSUME NEW a \in Asset, Rate!CacheHit(a) PROVE RatesInv'
    <2>1. rateCache[a] \in Rate!Quote /\ QuoteOk(rateCache[a], now)
        BY DEF RatesInv, Rate!TypeOK
    <2>2. served' = [quote |-> rateCache[a], at |-> now]
        BY <1>3 DEF Rate!CacheHit, Rate!Serve
    <2>3. ServedOk(served', now)
        <3>1. rateCache[a].fetchedAt # Rate!None /\ rateCache[a].fetchedAt \in 0..now
            BY <1>3, <2>1 DEF Rate!CacheHit, Rate!younger, QuoteOk
        <3> QED
            BY <1>1, <1>3, <2>1, <2>2, <3>1, RatesConstants DEF Rate!CacheHit,
                                                                Rate!younger, ServedOk
    <2> QED
        BY <1>1, <1>3, <2>1, <2>2, <2>3, NothingTyped DEF Rate!CacheHit, RatesInv,
                                                          Rate!TypeOK, Rate!Asked
<1>4. ASSUME NEW c \in Quoter, NEW a \in Asset, Rate!Ask(c, a) PROVE RatesInv'
    <2> DEFINE fx == IF Rate!younger(fxCache, FxTtl) THEN fxCache ELSE Rate!Pending
               r == [asset |-> a, hit |-> rateCache[a], begun |-> now,
                     price |-> Rate!Pending, fx |-> fx]
    <2>1. FxPart(fx, now)
        <3>1. CASE Rate!younger(fxCache, FxTtl)
            <4>1. fxCache \in Rate!Time /\ now - fxCache < FxTtl
                BY <1>1, <3>1 DEF Rate!younger
            <4>2. now - fxCache < Longer(FxTtl, Stale)
                BY <1>1, <4>1, RatesConstants DEF Rate!Time
            <4> QED
                BY <3>1, <4>1, <4>2 DEF FxPart, FxOk
        <3> QED
            BY <3>1 DEF FxPart
    <2>2. fx \in Rate!Moment
        BY <1>1, NothingTyped
    <2> HIDE DEF fx
    <2>3. r \in AskType /\ CallOk(r, now) /\ r.begun # Rate!None
        <3>1. rateCache[a] \in Rate!Quote /\ QuoteOk(rateCache[a], now) /\ now \in 0..now
            BY <1>1 DEF RatesInv, Rate!TypeOK
        <3> QED
            BY <1>1, <2>1, <2>2, <3>1, NothingTyped DEF AskType, CallOk, PricePart
    <2>4. call' = [call EXCEPT ![c] = r] /\ UNCHANGED <<now, fxCache, rateCache, served>>
        BY <1>4 DEF Rate!Ask, fx
    <2> HIDE DEF r
    <2> QED
        BY <2>3, <2>4 DEF RatesInv, Rate!TypeOK, Rate!Asked, AskType
<1>5. ASSUME NEW c \in Quoter, Rate!fetchUsdPrice(c) PROVE RatesInv'
    <2>1. Rate!Asked(c) /\ call[c].begun \in 0..now /\ FxPart(call[c].fx, call[c].begun)
        BY <1>5, Awaiting DEF Rate!fetchUsdPrice
    <2>2. PICK price \in {now, Rate!Failed} : /\ Rate!Settle(c, price, call[c].fx)
                                       /\ Rate!Record(c, price, call[c].fx)
        BY <1>5 DEF Rate!fetchUsdPrice
    <2>3. PricePart(price, call[c].begun)
        BY <1>1, <2>1, <2>2 DEF PricePart, PriceOk
    <2> QED
        BY <1>1, <1>5, <2>1, <2>2, <2>3, RatesSettle DEF Rate!fetchUsdPrice
<1>6. ASSUME NEW c \in Quoter, Rate!fetchUsdCop(c) PROVE RatesInv'
    <2>1. Rate!Asked(c) /\ call[c].begun \in 0..now /\ PricePart(call[c].price, call[c].begun)
        BY <1>6, Awaiting DEF Rate!fetchUsdCop
    <2>2. FxPart(now, call[c].begun)
        BY <1>1, <2>1, RatesConstants DEF FxPart, FxOk
    <2> QED
        BY <1>1, <1>6, <2>1, <2>2, RatesSettle DEF Rate!fetchUsdCop
<1>7. ASSUME NEW c \in Quoter, Rate!getUsdCopFails(c) PROVE RatesInv'
    <2>1. Rate!Asked(c) /\ call[c].begun \in 0..now /\ PricePart(call[c].price, call[c].begun)
        BY <1>7, Awaiting DEF Rate!getUsdCopFails
    <2>2. FxPart(Rate!degradedFx, call[c].begun)
        <3>1. CASE Rate!younger(fxCache, Stale)
            <4>1. fxCache \in Rate!Time /\ now - fxCache < Stale
                BY <1>1, <3>1 DEF Rate!younger
            <4>2. call[c].begun - fxCache < Longer(FxTtl, Stale)
                BY <1>1, <2>1, <4>1, RatesConstants DEF Rate!Time
            <4> QED
                BY <3>1, <4>1, <4>2 DEF Rate!degradedFx, FxPart, FxOk
        <3> QED
            BY <3>1 DEF Rate!degradedFx, FxPart, FxOk
    <2> QED
        BY <1>1, <1>7, <2>1, <2>2, RatesSettle DEF Rate!getUsdCopFails
<1>8. CASE UNCHANGED Rate!vars
    BY <1>8 DEF Rate!vars, RatesInv, Rate!TypeOK, Rate!Asked
<1> QED
    BY <1>2, <1>3, <1>4, <1>5, <1>6, <1>7, <1>8 DEF Rate!Next

LEMMA RatesHold == ASSUME Rate!RNumbers PROVE Rate!Spec => []RatesInv
<1>1. Rate!Init => RatesInv
    BY RatesInit
<1>2. RatesInv /\ [Rate!Next]_(Rate!vars) => RatesInv'
    BY RatesStep
<1> QED
    BY <1>1, <1>2, PTL DEF Rate!Spec

\* Caches, calls and quotes keep their types.
THEOREM RatesTyped == ASSUME Rate!RNumbers PROVE Rate!Spec => []Rate!TypeOK
<1>1. RatesInv => Rate!TypeOK
    BY DEF RatesInv
<1> QED
    BY <1>1, RatesHold, PTL

LEMMA FreshQuote == RatesInv => Rate!QuoteFresh
BY DEF RatesInv, ServedOk, QuoteOk, PriceOk, FxOk, Longer, Rate!QuoteFresh

\* However calls of getRateCopE6 overlap, and whichever lookups lag or fail, a quote handed
\* out is younger than its limit, with a price asked for by its own call and an FX rate the
\* caches allow.
THEOREM NeverStale == ASSUME Rate!RNumbers PROVE Rate!Spec => []Rate!QuoteFresh
BY FreshQuote, RatesHold, PTL

-----------------------------------------------------------------------------
(* NativeWatcher. *)

RefreshType == [pc : {"idle", "rows", "height"}, rows : SUBSET Payment]

\* A scan in progress reads or credits a block, one at or after the first.
ScanShape == Coin!scanning => scan.step \in {"read", "credit"} /\ 0 < scan.at

\* An unregistered transfer is still ahead of the cursor and of the scan in progress, or in
\* the block that scan is crediting.
Ahead(s) ==
    /\ lastScanned < s[2]
    /\ Coin!scanning => /\ scan.at <= s[2]
                        /\ scan.at = s[2] /\ scan.step = "credit" => s[1] \in scan.todo

Sighted(s) ==
    /\ s[1] \in watched /\ s[1] \in block[s[2]]
    /\ StartHeight < s[2] /\ s[2] <= height /\ height < s[2] + BackfillBlocks
    /\ 0 < lastScanned
    /\ s \notin registered => Ahead(s)

WatchInv ==
    /\ Coin!TypeOK
    /\ StartHeight <= height
    /\ ScanShape
    /\ \A s \in sighted : Sighted(s)

-----------------------------------------------------------------------------
LEMMA WatchNumbers ==
    ASSUME Coin!NWNumbers
    PROVE  /\ BackfillBlocks \in Nat /\ StartHeight \in Nat /\ MaxHeight \in Nat /\ MaxFaults \in Nat
           /\ 0 < BackfillBlocks /\ BackfillBlocks <= StartHeight /\ StartHeight <= MaxHeight
BY DEF Coin!NWNumbers

LEMMA NotScanningFields ==
    /\ Coin!NotScanning.step = "none" /\ Coin!NotScanning.at = 0
    /\ Coin!NotScanning.latest = 0 /\ Coin!NotScanning.todo = {}
BY DEF Coin!NotScanning

\* Where a scan begins, and that it skips nothing the cursor has not passed and the cap keeps.
LEMMA FirstBlock ==
    ASSUME Coin!NWNumbers, NEW cursor \in 0..MaxHeight, NEW latest \in 0..MaxHeight
    PROVE  /\ Coin!fromBlock(cursor, latest) \in Nat
           /\ 0 < latest => 0 < Coin!fromBlock(cursor, latest)
           /\ \A n \in Nat : 0 < cursor /\ cursor < n /\ latest < n + BackfillBlocks
                                => Coin!fromBlock(cursor, latest) <= n
BY WatchNumbers DEF Coin!fromBlock, Coin!firstBlock

LEMMA ScanUpTo ==
    ASSUME Coin!NWNumbers, Coin!TypeOK, ScanShape,
           NEW cursor \in 0..MaxHeight, NEW latest \in 0..MaxHeight,
           Coin!scanUpTo(cursor, latest)
    PROVE  /\ scan' \in Coin!Scan /\ lastScanned' = cursor
           /\ \/ scan' = scan
              \/ /\ ~Coin!scanning /\ scan'.step = "read"
                 /\ scan'.at = Coin!fromBlock(cursor, latest)
<1> DEFINE from == Coin!fromBlock(cursor, latest)
<1>1. scan \in Coin!Scan /\ from \in Nat
    BY FirstBlock DEF Coin!TypeOK
<1>2. CASE Coin!scanning \/ from > latest
    BY <1>1, <1>2 DEF Coin!scanUpTo
<1>3. CASE ~(Coin!scanning \/ from > latest)
    <2>1. from \in 0..MaxHeight
        BY <1>1, <1>3, WatchNumbers
    <2> QED
        BY <1>3, <2>1 DEF Coin!scanUpTo, Coin!Scan
<1> QED
    BY <1>2, <1>3

LEMMA ScanBlock ==
    ASSUME Coin!NWNumbers, Coin!TypeOK, ScanShape, scan.step # "none" \/ scan.todo # {}
    PROVE  Coin!scanning /\ scan.at \in Coin!Height
<1>1. Coin!scanning
    BY NotScanningFields DEF Coin!scanning
<1>2. scan.at \in 0..MaxHeight /\ 0 < scan.at
    BY <1>1 DEF Coin!TypeOK, Coin!Scan, ScanShape
<1> QED
    BY <1>1, <1>2, WatchNumbers DEF Coin!Height

LEMMA Rewound ==
    ASSUME Coin!NWNumbers, Coin!TypeOK
    PROVE  /\ Coin!rewound \in 0..MaxHeight /\ height \in 0..MaxHeight
           /\ height > BackfillBlocks => Coin!rewound = height - BackfillBlocks
BY WatchNumbers DEF Coin!TypeOK, Coin!Height, Coin!rewound

-----------------------------------------------------------------------------
LEMMA WatchInit == ASSUME Coin!NWNumbers, Coin!Init PROVE WatchInv
BY WatchNumbers, NotScanningFields
   DEF Coin!Init, WatchInv, Coin!TypeOK, Coin!Height, Coin!Scan, Coin!NotScanning,
       Coin!Idle, ScanShape, Coin!scanning

LEMMA WatchTypeStep ==
    ASSUME Coin!NWNumbers, WatchInv, [Coin!Next]_(Coin!vars) PROVE Coin!TypeOK'
<1> DEFINE Typed ==
        /\ height' \in Coin!Height /\ lastScanned' \in 0..MaxHeight
        /\ block' \in [Coin!Height -> SUBSET Payment]
        /\ open' \subseteq Payment /\ watched' \subseteq Payment
        /\ registered' \subseteq Payment \X Coin!Height
        /\ sighted' \subseteq Payment \X Coin!Height
        /\ scan' \in Coin!Scan
        /\ call' \in [Refresher \cup Backfiller -> RefreshType]
        /\ faults' \in 0..MaxFaults
<1>1. SUFFICES Typed
    BY DEF Coin!TypeOK, RefreshType
<1>2. /\ height \in Coin!Height /\ lastScanned \in 0..MaxHeight
      /\ block \in [Coin!Height -> SUBSET Payment]
      /\ open \subseteq Payment /\ watched \subseteq Payment
      /\ registered \subseteq Payment \X Coin!Height
      /\ sighted \subseteq Payment \X Coin!Height
      /\ scan \in Coin!Scan
      /\ call \in [Refresher \cup Backfiller -> RefreshType]
      /\ faults \in 0..MaxFaults
    BY DEF WatchInv, Coin!TypeOK, RefreshType
<1>3. Coin!Fault => faults' \in 0..MaxFaults
    BY <1>2, WatchNumbers DEF Coin!Fault
<1>4. Coin!NotScanning \in Coin!Scan /\ Coin!Idle \in RefreshType
    BY WatchNumbers DEF Coin!NotScanning, Coin!Scan, Coin!Idle, RefreshType
<1>5. ASSUME NEW p \in Payment, Coin!Open(p) \/ Coin!Close(p) PROVE Typed
    BY <1>2, <1>5 DEF Coin!Open, Coin!Close, Coin!chain
<1>6. ASSUME NEW S \in SUBSET Payment, Coin!Mine(S) PROVE Typed
    <2>1. height + 1 \in Coin!Height
        BY <1>2, <1>6, WatchNumbers DEF Coin!Mine, Coin!Height
    <2>2. sighted' \subseteq Payment \X Coin!Height
        <3>1. sighted' \subseteq sighted \cup ((S \cap watched) \X {height + 1})
            BY <1>6 DEF Coin!Mine
        <3>2. (S \cap watched) \X {height + 1} \subseteq Payment \X Coin!Height
            BY <2>1
        <3> QED
            BY <1>2, <3>1, <3>2
    <2> QED
        BY <1>2, <1>6, <2>1, <2>2 DEF Coin!Mine
<1>7. CASE Coin!Reorg
    <2>1. height - 1 \in Coin!Height
        BY <1>2, <1>7, WatchNumbers DEF Coin!Reorg, Coin!Height
    <2> QED
        BY <1>2, <1>3, <1>7, <2>1 DEF Coin!Reorg
<1>8. CASE Coin!Restart
    BY <1>2, <1>3, <1>4, <1>8, WatchNumbers DEF Coin!Restart, Coin!chain
<1>9. ASSUME NEW latest \in Coin!Height, Coin!Head(latest) \/ Coin!IdleHead(latest) PROVE Typed
    <2>1. latest \in 0..MaxHeight
        BY WatchNumbers DEF Coin!Height
    <2>2. CASE Coin!Head(latest)
        BY <1>2, <2>1, <2>2, ScanUpTo DEF Coin!Head, Coin!chain, WatchInv
    <2>3. CASE Coin!IdleHead(latest)
        BY <1>2, <2>1, <2>3 DEF Coin!IdleHead, Coin!chain
    <2> QED
        BY <1>9, <2>2, <2>3
<1>10. CASE Coin!ScanStep
    <2>1. CASE Coin!ReadBlock
        <3>1. scan.at \in Coin!Height
            BY <2>1, ScanBlock, NotScanningFields DEF Coin!ReadBlock, WatchInv
        <3>2. block[scan.at] \subseteq Payment
            BY <1>2, <3>1
        <3> QED
            BY <1>2, <2>1, <3>2 DEF Coin!ReadBlock, Coin!Scan, Coin!chain
    <2>2. CASE Coin!Advance
        <3>1. scan.at \in 0..MaxHeight /\ scan.latest \in 0..MaxHeight
            BY <1>2 DEF Coin!Scan
        <3>2. scan.at < scan.latest => scan.at + 1 \in 0..MaxHeight
            BY <3>1, WatchNumbers
        <3>3. scan' \in Coin!Scan
            BY <1>2, <1>4, <2>2, <3>2 DEF Coin!Advance, Coin!Scan
        <3> QED
            BY <1>2, <2>2, <3>1, <3>3 DEF Coin!Advance, Coin!chain
    <2>3. CASE Coin!BlockNotFound
        BY <1>2, <1>4, <2>3 DEF Coin!BlockNotFound, Coin!chain
    <2>4. ASSUME NEW p \in Payment, Coin!Credit(p) PROVE Typed
        <3>1. p \in scan.todo /\ scan.at \in Coin!Height
            BY <2>4, ScanBlock, NotScanningFields DEF Coin!Credit, WatchInv
        <3>2. scan' \in Coin!Scan
            BY <1>2, <2>4 DEF Coin!Credit, Coin!Scan
        <3>3. registered' \subseteq Payment \X Coin!Height
            BY <1>2, <2>4, <3>1 DEF Coin!Credit
        <3> QED
            BY <1>2, <2>4, <3>2, <3>3 DEF Coin!Credit, Coin!chain
    <2> QED
        BY <1>10, <2>1, <2>2, <2>3, <2>4 DEF Coin!ScanStep
<1>11. CASE Coin!ScanFails
    BY <1>2, <1>3, <1>4, <1>11 DEF Coin!ScanFails, Coin!chain
<1>12. ASSUME NEW c \in Refresher \cup Backfiller, Coin!CallStep(c) \/ Coin!CallFails(c)
       PROVE  Typed
    <2>1. call[c] \in RefreshType
        BY <1>2
    <2>2. CASE Coin!SelectOpen(c)
        <3>1. [pc |-> "rows", rows |-> open] \in RefreshType
            BY <1>2 DEF RefreshType
        <3> QED
            BY <1>2, <2>2, <3>1 DEF Coin!SelectOpen, Coin!chain
    <2>3. CASE Coin!refreshWatched(c)
        <3>1. [pc |-> "height", rows |-> {}] \in RefreshType
            BY DEF RefreshType
        <3> QED
            BY <1>2, <1>4, <2>1, <2>3, <3>1 DEF Coin!refreshWatched, Coin!chain, RefreshType
    <2>4. CASE Coin!BackfillScan(c)
        BY <1>2, <1>4, <2>4, ScanUpTo, Rewound DEF Coin!BackfillScan, Coin!chain, WatchInv
    <2>5. CASE Coin!CallFails(c)
        BY <1>2, <1>3, <1>4, <2>5 DEF Coin!CallFails, Coin!chain
    <2> QED
        BY <1>12, <2>2, <2>3, <2>4, <2>5 DEF Coin!CallStep
<1>13. CASE UNCHANGED Coin!vars
    BY <1>2, <1>13 DEF Coin!vars, Coin!chain
<1>14. DOMAIN call = Refresher \cup Backfiller
    BY <1>2
<1> QED
    BY <1>5, <1>6, <1>7, <1>8, <1>9, <1>10, <1>11, <1>12, <1>13, <1>14 DEF Coin!Next

-----------------------------------------------------------------------------
WatchKept == /\ StartHeight <= height
        /\ ScanShape
        /\ \A s \in sighted : Sighted(s)

LEMMA WatchFacts ==
    ASSUME Coin!NWNumbers, WatchInv
    PROVE  /\ height \in Nat /\ lastScanned \in Nat /\ StartHeight <= height /\ height <= MaxHeight
           /\ scan \in Coin!Scan /\ scan.at \in Nat /\ scan.latest \in Nat
           /\ \A s \in sighted : /\ s \in Payment \X Coin!Height
                                 /\ s[1] \in Payment /\ s[2] \in Nat /\ 0 < s[2]
BY WatchNumbers DEF WatchInv, Coin!TypeOK, Coin!Height, Coin!Scan

\* Steps that leave the chain, the map, the cursor, the scan and what is registered alone.
LEMMA Untouched ==
    ASSUME WatchInv, sighted' \subseteq sighted,
           UNCHANGED <<height, block, watched, lastScanned, scan, registered>>
    PROVE  WatchKept'
BY DEF WatchInv, WatchKept, ScanShape, Coin!scanning, Coin!NotScanning, Sighted, Ahead

LEMMA MineStep ==
    ASSUME Coin!NWNumbers, WatchInv, NEW S \in SUBSET Payment, Coin!Mine(S)
    PROVE  WatchKept'
<1>1. StartHeight <= height'
    BY WatchFacts, WatchNumbers DEF Coin!Mine
<1>2. ScanShape'
    BY DEF Coin!Mine, WatchInv, ScanShape, Coin!scanning, Coin!NotScanning
<1>3. ASSUME NEW s \in sighted, s \in sighted' PROVE Sighted(s)'
    <2>1. /\ Sighted(s) /\ s[2] \in Coin!Height
          /\ s[2] # height + 1 /\ height + 1 < s[2] + BackfillBlocks
        <3>1. Sighted(s) /\ s[2] \in Coin!Height
            BY DEF WatchInv, Coin!TypeOK
        <3>2. s[2] # height + 1 /\ s # <<s[1], height + 1>>
            BY <3>1, WatchFacts DEF Sighted
        <3>3. height + 1 < s[2] + BackfillBlocks
            <4>1. ~(s \in (S \cap watched) \X {height + 1})
                BY <3>2
            <4> QED
                BY <1>3, <4>1 DEF Coin!Mine
        <3> QED
            BY <3>1, <3>2, <3>3
    <2>2. block'[s[2]] = block[s[2]]
        BY <2>1 DEF Coin!Mine, WatchInv, Coin!TypeOK
    <2>3. UNCHANGED <<watched, lastScanned, scan, registered>> /\ height' = height + 1
        BY DEF Coin!Mine
    <2> QED
        BY <2>1, <2>2, <2>3, WatchFacts, WatchNumbers DEF Sighted, Ahead, Coin!scanning,
                                                          Coin!NotScanning
<1>4. ASSUME NEW s \in sighted', s \notin sighted PROVE Sighted(s)'
    <2>1. lastScanned \in 1..height /\ scan.at <= height /\ s \in (S \cap watched) \X {height + 1}
        BY <1>4 DEF Coin!Mine
    <2>2. s[1] \in S /\ s[1] \in watched /\ s[2] = height + 1
        BY <2>1
    <2>3. height + 1 \in Coin!Height
        BY WatchFacts, WatchNumbers DEF Coin!Mine, Coin!Height
    <2>4. block'[height + 1] = S
        BY <2>3 DEF Coin!Mine, WatchInv, Coin!TypeOK
    <2>5. UNCHANGED <<watched, lastScanned, scan, registered>> /\ height' = height + 1
        BY DEF Coin!Mine
    <2> QED
        BY <2>1, <2>2, <2>4, <2>5, WatchFacts, WatchNumbers DEF Sighted, Ahead,
                                                                Coin!scanning,
                                                                Coin!NotScanning
<1> QED
    BY <1>1, <1>2, <1>3, <1>4 DEF WatchKept

LEMMA ReorgStep ==
    ASSUME Coin!NWNumbers, WatchInv, Coin!Reorg
    PROVE  WatchKept'
<1>1. StartHeight <= height' /\ height' = height - 1
    BY WatchFacts, WatchNumbers DEF Coin!Reorg
<1>2. UNCHANGED <<watched, lastScanned, scan, registered>>
    BY DEF Coin!Reorg
<1>3. ScanShape'
    BY <1>2 DEF WatchInv, ScanShape, Coin!scanning, Coin!NotScanning
<1>4. ASSUME NEW s \in sighted' PROVE Sighted(s)'
    <2>1. s \in sighted /\ s[2] # height
        BY DEF Coin!Reorg
    <2>2. Sighted(s) /\ s[2] \in Coin!Height
        BY <2>1 DEF WatchInv, Coin!TypeOK
    <2>3. block'[s[2]] = block[s[2]]
        BY <2>1, <2>2 DEF Coin!Reorg, WatchInv, Coin!TypeOK
    <2> QED
        BY <1>1, <1>2, <2>1, <2>2, <2>3, WatchFacts, WatchNumbers
           DEF Sighted, Ahead, Coin!scanning, Coin!NotScanning
<1> QED
    BY <1>1, <1>3, <1>4 DEF WatchKept

LEMMA RestartStep ==
    ASSUME Coin!NWNumbers, WatchInv, Coin!Restart
    PROVE  WatchKept'
BY DEF Coin!Restart, Coin!chain, WatchInv, WatchKept, ScanShape, Coin!scanning,
       Coin!NotScanning

\* A scan begins at or before every transfer ahead of the cursor it begins from.
LEMMA ScanUpToStep ==
    ASSUME Coin!NWNumbers, WatchInv, NEW cursor \in 0..MaxHeight, NEW latest \in 0..MaxHeight,
           Coin!scanUpTo(cursor, latest), 0 < latest, latest <= height,
           UNCHANGED <<Coin!chain, registered, watched, sighted>>,
           \A s \in sighted : 0 < cursor /\ (s \notin registered => cursor < s[2])
    PROVE  WatchKept'
<1> DEFINE from == Coin!fromBlock(cursor, latest)
<1>1. UNCHANGED <<height, block, watched, registered, sighted>> /\ lastScanned' = cursor
    BY ScanUpTo DEF WatchInv, Coin!chain
<1>2. \/ scan' = scan
      \/ ~Coin!scanning /\ scan'.step = "read" /\ scan'.at = from
    BY ScanUpTo DEF WatchInv
<1>3. ScanShape'
    BY <1>2, FirstBlock DEF WatchInv, ScanShape, Coin!scanning, Coin!NotScanning
<1>4. ASSUME NEW s \in sighted PROVE Sighted(s)'
    <2>1. Sighted(s) /\ s[2] \in Nat /\ height \in Nat /\ BackfillBlocks \in Nat
        BY WatchFacts, WatchNumbers DEF WatchInv
    <2>2. ASSUME s \notin registered PROVE Ahead(s)'
        <3>1. Ahead(s)
            BY <2>1, <2>2 DEF Sighted
        <3>2. lastScanned' < s[2] /\ 0 < cursor /\ cursor < s[2]
            BY <1>1, <2>2
        <3>3. CASE scan' = scan
            BY <3>1, <3>2, <3>3 DEF Ahead, Coin!scanning, Coin!NotScanning
        <3>4. CASE scan'.step = "read" /\ scan'.at = from
            <4>1. latest < s[2] + BackfillBlocks
                BY <2>1, WatchNumbers DEF Sighted
            <4>2. from <= s[2]
                BY <2>1, <3>2, <4>1, FirstBlock
            <4> QED
                BY <3>2, <3>4, <4>2 DEF Ahead
        <3> QED
            BY <1>2, <3>3, <3>4
    <2> QED
        BY <1>1, <2>1, <2>2 DEF Sighted
<1> QED
    BY <1>1, <1>3, <1>4, WatchFacts DEF WatchKept

LEMMA HeadStep ==
    ASSUME Coin!NWNumbers, WatchInv, NEW latest \in Coin!Height, Coin!Head(latest)
    PROVE  WatchKept'
<1>1. latest \in 0..MaxHeight /\ 0 < latest /\ latest <= height /\ lastScanned \in 0..MaxHeight
    BY WatchNumbers DEF Coin!Height, Coin!Head, WatchInv, Coin!TypeOK
<1>2. \A s \in sighted : 0 < lastScanned /\ (s \notin registered => lastScanned < s[2])
    BY DEF WatchInv, Sighted, Ahead
<1> QED
    BY <1>1, <1>2, ScanUpToStep DEF Coin!Head

LEMMA IdleHeadStep ==
    ASSUME Coin!NWNumbers, WatchInv, NEW latest \in Coin!Height, Coin!IdleHead(latest)
    PROVE  WatchKept'
<1>1. sighted' = {}
    BY DEF Coin!IdleHead, WatchInv, Sighted
<1> QED
    BY <1>1 DEF Coin!IdleHead, Coin!chain, WatchInv, WatchKept, ScanShape, Coin!scanning,
                Coin!NotScanning

LEMMA ScanStepStep ==
    ASSUME Coin!NWNumbers, WatchInv, Coin!ScanStep \/ Coin!ScanFails
    PROVE  WatchKept'
<1>1. CASE Coin!ReadBlock
    <2>1. /\ scan' = [scan EXCEPT !.step = "credit", !.todo = block[scan.at]]
          /\ UNCHANGED <<height, block, watched, lastScanned, registered, sighted>>
        BY <1>1 DEF Coin!ReadBlock, Coin!chain
    <2>2. Coin!scanning /\ 0 < scan.at
        BY <1>1, ScanBlock DEF Coin!ReadBlock, WatchInv, ScanShape
    <2>3. scan'.step = "credit" /\ scan'.at = scan.at /\ scan'.todo = block[scan.at]
        BY <2>1, WatchFacts DEF Coin!Scan
    <2>4. ScanShape'
        BY <2>2, <2>3 DEF ScanShape
    <2>5. ASSUME NEW s \in sighted PROVE Sighted(s)'
        BY <2>1, <2>2, <2>3 DEF WatchInv, Sighted, Ahead
    <2> QED
        BY <2>1, <2>4, <2>5 DEF WatchKept, WatchInv
<1>2. CASE Coin!Advance
    <2>1. UNCHANGED <<height, block, watched, registered, sighted>>
        BY <1>2 DEF Coin!Advance, Coin!chain
    <2>2. Coin!scanning /\ scan.step = "credit" /\ scan.todo = {} /\ 0 < scan.at
        BY <1>2, ScanBlock DEF Coin!Advance, WatchInv, ScanShape
    <2>3. \/ scan' = Coin!NotScanning
          \/ scan'.step = "read" /\ scan'.at = scan.at + 1
        BY <1>2, WatchFacts DEF Coin!Advance, Coin!Scan
    <2>4. lastScanned' = lastScanned \/ lastScanned' = scan.at
        BY <1>2 DEF Coin!Advance
    <2>5. ScanShape'
        BY <2>2, <2>3, WatchFacts DEF ScanShape, Coin!scanning, Coin!NotScanning
    <2>6. ASSUME NEW s \in sighted PROVE Sighted(s)'
        <3>1. Sighted(s) /\ s[2] \in Nat
            BY WatchFacts DEF WatchInv
        <3>2. ASSUME s \notin registered PROVE Ahead(s)'
            <4>1. lastScanned < s[2] /\ scan.at <= s[2] /\ scan.at # s[2]
                BY <2>2, <3>1, <3>2 DEF Sighted, Ahead
            <4>2. scan.at < s[2] /\ scan.at + 1 <= s[2] /\ lastScanned' < s[2]
                BY <2>4, <3>1, <4>1, WatchFacts
            <4> QED
                BY <2>3, <4>2 DEF Ahead, Coin!scanning, Coin!NotScanning
        <3>3. 0 < lastScanned'
            BY <2>2, <2>4, <3>1 DEF Sighted
        <3> QED
            BY <2>1, <3>1, <3>2, <3>3 DEF Sighted
    <2> QED
        BY <2>1, <2>5, <2>6 DEF WatchKept, WatchInv
<1>3. CASE Coin!BlockNotFound \/ Coin!ScanFails
    <2>1. /\ scan' = Coin!NotScanning
          /\ UNCHANGED <<height, block, watched, lastScanned, registered, sighted>>
        BY <1>3 DEF Coin!BlockNotFound, Coin!ScanFails, Coin!chain
    <2> QED
        BY <2>1 DEF WatchKept, WatchInv, ScanShape, Coin!scanning, Coin!NotScanning,
                    Sighted, Ahead
<1>4. ASSUME NEW p \in Payment, Coin!Credit(p) PROVE WatchKept'
    <2>1. /\ UNCHANGED <<height, block, watched, lastScanned, sighted>>
          /\ scan'.step = scan.step /\ scan'.at = scan.at /\ scan'.todo = scan.todo \ {p}
        BY <1>4, WatchFacts DEF Coin!Credit, Coin!chain, Coin!Scan
    <2>2. Coin!scanning /\ scan.step \in {"read", "credit"} /\ 0 < scan.at
        BY <1>4, ScanBlock DEF Coin!Credit, WatchInv, ScanShape
    <2>3. registered \subseteq registered' /\ (p \in watched => <<p, scan.at>> \in registered')
        BY <1>4 DEF Coin!Credit
    <2>4. ScanShape'
        BY <2>1, <2>2 DEF ScanShape
    <2>5. ASSUME NEW s \in sighted PROVE Sighted(s)'
        <3>1. Sighted(s) /\ s \in Payment \X Coin!Height
            BY WatchFacts DEF WatchInv
        <3>2. ASSUME s \notin registered' PROVE Ahead(s)'
            <4>1. Ahead(s)
                BY <2>3, <3>1, <3>2 DEF Sighted
            <4>2. s[1] # p \/ s[2] # scan.at
                BY <2>3, <3>1, <3>2 DEF Sighted
            <4> QED
                BY <2>1, <2>2, <4>1, <4>2 DEF Ahead
        <3> QED
            BY <2>1, <3>1, <3>2 DEF Sighted
    <2> QED
        BY <2>1, <2>4, <2>5 DEF WatchKept, WatchInv
<1> QED
    BY <1>1, <1>2, <1>3, <1>4 DEF Coin!ScanStep

LEMMA CallStepStep ==
    ASSUME Coin!NWNumbers, WatchInv, NEW c \in DOMAIN call,
           Coin!CallStep(c) \/ Coin!CallFails(c)
    PROVE  WatchKept'
<1>1. CASE Coin!SelectOpen(c) \/ Coin!CallFails(c)
    BY <1>1, Untouched DEF Coin!SelectOpen, Coin!CallFails, Coin!chain
<1>2. CASE Coin!refreshWatched(c)
    <2>1. UNCHANGED <<height, block, lastScanned, scan, registered>>
        BY <1>2 DEF Coin!refreshWatched, Coin!chain
    <2>2. \A s \in sighted' : s \in sighted /\ s[1] \in watched'
        BY <1>2 DEF Coin!refreshWatched
    <2> QED
        BY <2>1, <2>2 DEF WatchInv, WatchKept, ScanShape, Coin!scanning, Coin!NotScanning,
                          Sighted, Ahead
<1>3. CASE Coin!BackfillScan(c)
    <2>1. /\ Coin!rewound \in 0..MaxHeight /\ height \in 0..MaxHeight
          /\ height > BackfillBlocks => Coin!rewound = height - BackfillBlocks
        BY Rewound DEF WatchInv
    <2>2. 0 < height
        BY WatchFacts, WatchNumbers
    <2>3. ASSUME NEW s \in sighted PROVE 0 < Coin!rewound /\ Coin!rewound < s[2]
        <3>1. Sighted(s) /\ s[2] \in Nat
            BY WatchFacts DEF WatchInv
        <3> QED
            BY <2>1, <3>1, WatchFacts, WatchNumbers DEF Sighted
    <2> QED
        BY <1>3, <2>1, <2>2, <2>3, ScanUpToStep DEF Coin!BackfillScan
<1> QED
    BY <1>1, <1>2, <1>3 DEF Coin!CallStep

LEMMA KeptStep == ASSUME Coin!NWNumbers, WatchInv, [Coin!Next]_(Coin!vars) PROVE WatchKept'
<1>1. CASE \E p \in Payment : Coin!Open(p) \/ Coin!Close(p)
    BY <1>1, Untouched DEF Coin!Open, Coin!Close, Coin!chain
<1>2. CASE UNCHANGED Coin!vars
    BY <1>2, Untouched DEF Coin!vars, Coin!chain
<1> QED
    BY <1>1, <1>2, MineStep, ReorgStep, RestartStep, HeadStep, IdleHeadStep, ScanStepStep,
       CallStepStep
       DEF Coin!Next

-----------------------------------------------------------------------------
\* Types and the place of every sighted transfer ahead of the cursor are invariant.
LEMMA WatchHold == ASSUME Coin!NWNumbers PROVE Coin!Spec => []WatchInv
<1>1. Coin!Init => WatchInv
    BY WatchInit
<1>2. WatchInv /\ [Coin!Next]_(Coin!vars) => WatchInv'
    BY WatchTypeStep, KeptStep DEF WatchInv, WatchKept
<1> QED
    BY <1>1, <1>2, PTL DEF Coin!Spec

\* Every variable keeps its type: heights stay within the chain, scans within a block.
THEOREM WatchTyped == ASSUME Coin!NWNumbers PROVE Coin!Spec => []Coin!TypeOK
<1>1. WatchInv => Coin!TypeOK
    BY DEF WatchInv
<1> QED
    BY <1>1, WatchHold, PTL

\* A step that moves the cursor forward neither sights nor forgets a transfer.
LEMMA CursorMoves ==
    ASSUME Coin!NWNumbers, WatchInv, [Coin!Next]_(Coin!vars)
    PROVE  lastScanned' = lastScanned \/ lastScanned' = 0 \/ sighted' = sighted
<1>1. ASSUME NEW c \in DOMAIN call, Coin!CallStep(c) \/ Coin!CallFails(c)
      PROVE  lastScanned' = lastScanned \/ sighted' = sighted
    BY <1>1 DEF Coin!CallStep, Coin!CallFails, Coin!SelectOpen, Coin!refreshWatched,
                Coin!BackfillScan
<1> QED
    BY <1>1 DEF Coin!Next, Coin!vars, Coin!chain, Coin!Open, Coin!Close, Coin!Mine,
                Coin!Reorg, Coin!Restart, Coin!Head, Coin!IdleHead,
                Coin!ScanStep, Coin!ScanFails, Coin!ReadBlock, Coin!Advance,
                Coin!BlockNotFound, Coin!Credit

Honest == \A s \in sighted : Coin!Passes(s) => s \in registered'

LEMMA HonestStep ==
    ASSUME Coin!NWNumbers, WatchInv, WatchInv', [Coin!Next]_(Coin!vars)
    PROVE  Honest
<1>1. SUFFICES ASSUME NEW s \in sighted, lastScanned < s[2], s[2] <= lastScanned'
               PROVE  s \in registered'
    BY DEF Honest, Coin!Passes
<1>2. lastScanned \in Nat /\ lastScanned' \in Nat /\ s[2] \in Nat /\ 0 < s[2]
    BY WatchFacts, WatchNumbers DEF WatchInv, Coin!TypeOK
<1>3. s \in sighted'
    BY <1>1, <1>2, CursorMoves
<1>4. s \notin registered' => lastScanned' < s[2]
    BY <1>3 DEF WatchInv, Sighted, Ahead
<1> QED
    BY <1>1, <1>2, <1>4

\* scanUpTo, the idle head and the backfill never take the cursor past a transfer to a
\* watched payment within the last nativeBackfillBlocks that is not registered.
THEOREM CursorKeeps == ASSUME Coin!NWNumbers PROVE Coin!Spec => Coin!CursorHonest
<1>1. WatchInv /\ WatchInv' /\ [Coin!Next]_(Coin!vars) => [Honest]_(Coin!vars)
    BY HonestStep
<1> QED
    BY <1>1, WatchHold, PTL DEF Coin!Spec, Coin!CursorHonest, Honest

-----------------------------------------------------------------------------
(* TronWatcher. *)

TronCoins == Token \cup {Native}

TronCall == [pc : {"idle", "gate", "scan"}, todo : SUBSET Tron!Feed, batch : SUBSET Transfer]

\* The transfers of one transaction come as far together.
TxsProgress == \A t, u \in Transfer : txHash[t] = txHash[u] => chain[t] = chain[u]

\* What has been credited is mined.
CreditsAreMined == \A t \in registered : chain[t] = "mined"

TronInv == Tron!TypeOK /\ TxsProgress /\ CreditsAreMined

-----------------------------------------------------------------------------
LEMMA TronNumbers ==
    ASSUME Tron!TWNumbers
    PROVE  Cooldown \in Nat /\ TronTime \in Nat /\ MaxFaults \in Nat
BY DEF Tron!TWNumbers

\* The log resolved is a transfer of the same transaction.
LEMMA FindsLog ==
    ASSUME Tron!TWTransfers, NEW t \in Transfer
    PROVE  /\ Tron!findTransferLog(t) \in Transfer
           /\ txHash[Tron!findTransferLog(t)] = txHash[t]
<1> DEFINE Fits(u) == /\ txHash[u] = txHash[t] /\ sentAsset[u] = sentAsset[t]
                      /\ sentTo[u] = sentTo[t]
           logs == {logIndex[u] : u \in {v \in Transfer : Fits(v)}}
<1>1. \E u \in Transfer : Fits(u) /\ \A v \in Transfer : Fits(v) => logIndex[u] <= logIndex[v]
    <2>1. logs \in SUBSET Nat /\ logs # {}
        <3>1. Fits(t) /\ logIndex[t] \in logs
            OBVIOUS
        <3>2. \A u \in Transfer : logIndex[u] \in Nat
            BY DEF Tron!TWTransfers
        <3> QED
            BY <3>1, <3>2
    <2>2. PICK n \in logs : \A m \in logs : n <= m
        BY <2>1, LeastNat
    <2>3. PICK u \in Transfer : Fits(u) /\ n = logIndex[u]
        OBVIOUS
    <2>4. \A v \in Transfer : Fits(v) => logIndex[v] \in logs
        OBVIOUS
    <2> HIDE DEF logs, Fits
    <2> QED
        BY <2>2, <2>3, <2>4
<1>2. CASE sentAsset[t] = Native
    BY <1>2 DEF Tron!findTransferLog
<1>3. CASE sentAsset[t] # Native
    BY <1>1, <1>3 DEF Tron!findTransferLog
<1> QED
    BY <1>2, <1>3

LEMMA TronIdle == Tron!Idle \in TronCall
BY DEF Tron!Idle, TronCall

LEMMA TronFeeds ==
    ASSUME NEW ps \in SUBSET Payment
    PROVE  Tron!feeds(ps) \in SUBSET Tron!Feed
BY DEF Tron!feeds, Tron!Feed

LEMMA TronInit == ASSUME Tron!TWNumbers, Tron!Init PROVE TronInv
<1>1. /\ call \in [Tron!Scanner -> TronCall] /\ registered = {}
      /\ \A t \in Transfer : chain[t] = "absent"
    BY TronIdle DEF Tron!Init
<1>2. Tron!TypeOK
    BY <1>1, TronNumbers DEF Tron!Init, Tron!TypeOK, TronCall, Tron!None
<1> QED
    BY <1>1, <1>2 DEF TronInv, TxsProgress, CreditsAreMined

LEMMA TronTypeStep ==
    ASSUME Tron!TWNumbers, Tron!TWTransfers, TronInv, [Tron!Next]_(Tron!vars)
    PROVE  Tron!TypeOK'
<1>1. /\ sentAsset \in [Transfer -> TronCoins] /\ stamp \in [Transfer -> 0..TronTime]
      /\ now \in 0..TronTime /\ chain \in [Transfer -> {"absent", "listed", "mined", "failed"}]
      /\ open \subseteq Payment /\ registered \subseteq Transfer
      /\ call \in [Tron!Scanner -> TronCall]
      /\ lastCheck \in [Payment -> {Tron!None} \cup 0..TronTime] /\ faults \in 0..MaxFaults
    BY DEF TronInv, Tron!TypeOK, TronCall, TronCoins
<1> DEFINE Typed ==
             /\ sentAsset' \in [Transfer -> TronCoins] /\ stamp' \in [Transfer -> 0..TronTime]
             /\ now' \in 0..TronTime
             /\ chain' \in [Transfer -> {"absent", "listed", "mined", "failed"}]
             /\ open' \subseteq Payment /\ registered' \subseteq Transfer
             /\ call' \in [Tron!Scanner -> TronCall]
             /\ lastCheck' \in [Payment -> {Tron!None} \cup 0..TronTime]
             /\ faults' \in 0..MaxFaults
<1>2. SUFFICES Typed
    BY DEF Tron!TypeOK, TronCall, TronCoins
<1>3. Tron!Fault => faults' \in 0..MaxFaults
    BY <1>1, TronNumbers DEF Tron!Fault
<1>4. CASE Tron!Tick
    BY <1>1, <1>4, TronNumbers DEF Tron!Tick
<1>5. ASSUME NEW p \in Payment, Tron!Open(p) \/ Tron!Close(p) PROVE Typed
    BY <1>1, <1>5 DEF Tron!Open, Tron!Close
<1>6. ASSUME NEW t \in Transfer, Tron!Progress(t) PROVE Typed
    BY <1>1, <1>6 DEF Tron!Progress
<1>7. ASSUME NEW c \in Tron!Scanner, Tron!Scan(c) PROVE Typed
    <2>1. call[c] \in TronCall
        BY <1>1
    <2>2. CASE Tron!List(c)
        <3>1. PICK f \in call[c].todo : \E page \in Tron!pages(f) :
                 call' = [call EXCEPT ![c].todo = @ \ {f}, ![c].batch = Tron!listed(f, page)]
            BY <2>2 DEF Tron!List
        <3>2. PICK page \in Tron!pages(f) :
                 call' = [call EXCEPT ![c].todo = @ \ {f}, ![c].batch = Tron!listed(f, page)]
            BY <3>1
        <3> DEFINE next == [call[c] EXCEPT !.todo = @ \ {f}, !.batch = Tron!listed(f, page)]
        <3>3. Tron!listed(f, page) \subseteq Transfer
            BY DEF Tron!listed, Tron!pages, Tron!fullPages, Tron!rows
        <3>4. next \in TronCall
            BY <2>1, <3>3 DEF TronCall
        <3>5. call' = [call EXCEPT ![c] = next]
            BY <1>1, <3>2
        <3> HIDE DEF next
        <3> QED
            BY <1>1, <2>2, <3>4, <3>5 DEF Tron!List
    <2>3. CASE Tron!Resolve(c)
        <3>1. PICK t \in call[c].batch :
                 /\ call' = [call EXCEPT ![c].batch = @ \ {t}]
                 /\ registered' = IF chain[t] = "mined"
                                  THEN registered \cup {Tron!findTransferLog(t)} ELSE registered
            BY <2>3 DEF Tron!Resolve
        <3>2. t \in Transfer
            BY <2>1, <3>1 DEF TronCall
        <3>3. registered' \subseteq Transfer
            BY <1>1, <3>1, <3>2, FindsLog
        <3>4. call' \in [Tron!Scanner -> TronCall]
            BY <1>1, <2>1, <3>1 DEF TronCall
        <3> QED
            BY <1>1, <2>3, <3>3, <3>4 DEF Tron!Resolve
    <2>4. CASE Tron!ScanDone(c)
        BY <1>1, <2>4, TronIdle DEF Tron!ScanDone
    <2> QED
        BY <1>7, <2>2, <2>3, <2>4 DEF Tron!Scan
<1>8. ASSUME NEW c \in Tron!Scanner, Tron!ScanFails(c) PROVE Typed
    BY <1>1, <1>3, <1>8, TronIdle DEF Tron!ScanFails
<1>9. ASSUME NEW c \in Ticker, Tron!activePayments(c) PROVE Typed
    <2>1. [pc |-> "scan", todo |-> Tron!feeds(open), batch |-> {}] \in TronCall
        BY <1>1, TronFeeds DEF TronCall
    <2> QED
        BY <1>1, <1>9, <2>1 DEF Tron!activePayments
<1>10. ASSUME NEW c \in Checker, Tron!CheckSkipped(c) PROVE Typed
    BY <1>1, <1>10, TronIdle DEF Tron!CheckSkipped
<1>11. ASSUME NEW c \in Checker, NEW p \in Payment, Tron!CheckRead(c, p) PROVE Typed
    <2>1. [pc |-> "gate", todo |-> Tron!feeds(open \cap {p}), batch |-> {}] \in TronCall
        BY <1>1, TronFeeds DEF TronCall
    <2> QED
        BY <1>1, <1>11, <2>1 DEF Tron!CheckRead
<1>12. ASSUME NEW c \in Checker, NEW p \in Payment, Tron!CheckPasses(c, p) PROVE Typed
    <2>1. c \in Tron!Scanner /\ call[c] \in TronCall
        BY <1>1 DEF Tron!Scanner
    <2>2. [call[c] EXCEPT !.pc = "scan"] \in TronCall
        BY <2>1 DEF TronCall
    <2>3. call' \in [Tron!Scanner -> TronCall]
        BY <1>1, <1>12, <2>1, <2>2 DEF Tron!CheckPasses
    <2>4. lastCheck' \in [Payment -> {Tron!None} \cup 0..TronTime]
        BY <1>1, <1>12 DEF Tron!CheckPasses, Tron!recorded
    <2> QED
        BY <1>1, <1>12, <2>3, <2>4 DEF Tron!CheckPasses
<1>13. CASE Tron!Restart
    BY <1>1, <1>3, <1>13, TronIdle DEF Tron!Restart
<1>14. CASE UNCHANGED Tron!vars
    BY <1>1, <1>14 DEF Tron!vars
<1> QED
    BY <1>4, <1>5, <1>6, <1>7, <1>8, <1>9, <1>10, <1>11, <1>12, <1>13, <1>14 DEF Tron!Next

LEMMA TronStep ==
    ASSUME Tron!TWNumbers, Tron!TWTransfers, TronInv, [Tron!Next]_(Tron!vars)
    PROVE  TronInv'
<1>1. Tron!TypeOK'
    BY TronTypeStep
<1>2. /\ chain \in [Transfer -> {"absent", "listed", "mined", "failed"}]
      /\ registered \subseteq Transfer /\ TxsProgress /\ CreditsAreMined
    BY DEF TronInv, Tron!TypeOK
<1> DEFINE Kept == TxsProgress' /\ CreditsAreMined'
<1>3. ASSUME NEW t \in Transfer, Tron!Progress(t) PROVE Kept
    BY <1>2, <1>3 DEF Tron!Progress, TxsProgress, CreditsAreMined
<1>4. ASSUME NEW c \in Tron!Scanner, Tron!Resolve(c) PROVE Kept
    <2>1. PICK t \in call[c].batch :
             registered' = IF chain[t] = "mined"
                           THEN registered \cup {Tron!findTransferLog(t)} ELSE registered
        BY <1>4 DEF Tron!Resolve
    <2>2. t \in Transfer
        BY <2>1 DEF TronInv, Tron!TypeOK
    <2>3. chain' = chain
        BY <1>4 DEF Tron!Resolve
    <2>4. /\ Tron!findTransferLog(t) \in Transfer
          /\ chain[Tron!findTransferLog(t)] = chain[t]
        BY <1>2, <2>2, FindsLog DEF TxsProgress
    <2> QED
        BY <1>2, <2>1, <2>3, <2>4 DEF TxsProgress, CreditsAreMined
<1>5. ASSUME UNCHANGED <<chain, registered>> PROVE Kept
    <2>1. chain' = chain /\ registered' = registered
        BY <1>5
    <2> QED
        BY <1>2, <2>1 DEF TxsProgress, CreditsAreMined
<1>6. \/ \E t \in Transfer : Tron!Progress(t)
      \/ \E c \in Tron!Scanner : Tron!Resolve(c)
      \/ UNCHANGED <<chain, registered>>
    BY DEF Tron!Next, Tron!vars, Tron!Tick, Tron!Open, Tron!Close, Tron!Scan, Tron!List,
           Tron!ScanDone, Tron!ScanFails, Tron!activePayments, Tron!CheckSkipped,
           Tron!CheckRead, Tron!CheckPasses, Tron!Restart
<1> QED
    BY <1>1, <1>3, <1>4, <1>5, <1>6 DEF TronInv

LEMMA TronHold ==
    ASSUME Tron!TWNumbers, Tron!TWTransfers PROVE Tron!Spec => []TronInv
<1>1. Tron!Init => TronInv
    BY TronInit
<1>2. TronInv /\ [Tron!Next]_(Tron!vars) => TronInv'
    BY TronStep
<1> QED
    BY <1>1, <1>2, PTL DEF Tron!Spec

\* However scans, checks and failures overlap, and however a transaction comes to its end,
\* only a transfer that is mined is handed to registerDeposit: none that is merely listed,
\* or failed, or was resolved to the log of another transaction.
THEOREM OnlyMinedIsCredited ==
    ASSUME Tron!TWNumbers, Tron!TWTransfers PROVE Tron!Spec => []CreditsAreMined
<1>1. TronInv => CreditsAreMined
    BY DEF TronInv
<1> QED
    BY <1>1, TronHold, PTL

-----------------------------------------------------------------------------
(* The run. *)

\* What holds of each component holds of it in the run, and nothing is sighted by the others.
MCInv ==
    /\ on = "intake" => Inv
    /\ on = "rates" => RatesInv
    /\ on = "native" => WatchInv
    /\ on = "tron" => TronInv
    /\ on # "native" => sighted = {}

LEMMA MCInitInv == MCInit => MCInv
<1> SUFFICES ASSUME MCInit PROVE MCInv
    OBVIOUS
<1> USE IntakeAssumption
<1>1. CASE on = "intake" /\ Init /\ NoNative
    BY <1>1, InitInv DEF MCInv, NoNative
<1>2. CASE on = "rates" /\ Rate!Init /\ NoNative
    BY <1>2, RatesInit DEF MCInv, NoNative
<1>3. CASE on = "native" /\ Coin!Init
    BY <1>3, WatchInit DEF MCInv
<1>4. CASE on = "tron" /\ Tron!Init /\ NoNative
    BY <1>4, TronInit DEF MCInv, NoNative
<1> QED
    BY <1>1, <1>2, <1>3, <1>4 DEF MCInit

LEMMA MCStepInv == MCInv /\ [MCNext]_all => MCInv'
<1> SUFFICES ASSUME MCInv, [MCNext]_all PROVE MCInv'
    OBVIOUS
<1> USE IntakeAssumption
<1>1. CASE on = "intake" /\ Next /\ UNCHANGED <<on, nativeOnly>>
    BY <1>1, StepInv DEF MCInv, nativeOnly
<1>2. CASE on = "rates" /\ Rate!Next /\ UNCHANGED <<on, nativeOnly>>
    BY <1>2, RatesStep DEF MCInv, nativeOnly
<1>3. CASE on = "native" /\ Coin!Next /\ UNCHANGED on
    BY <1>3, WatchTypeStep, KeptStep DEF MCInv, WatchInv, WatchKept
<1>4. CASE on = "tron" /\ Tron!Next /\ UNCHANGED <<on, nativeOnly>>
    BY <1>4, TronStep DEF MCInv, nativeOnly
<1>5. CASE UNCHANGED all
    <2>1. /\ UNCHANGED <<on, sighted>> /\ UNCHANGED vars /\ UNCHANGED Rate!vars
          /\ UNCHANGED Coin!vars /\ UNCHANGED Tron!vars
        BY <1>5 DEF all, vars, Rate!vars, Coin!vars, Tron!vars, intakeOnly, ratesOnly,
                    nativeOnly, watchers, tronOnly
    <2>2. Inv => Inv'
        BY <2>1, StepInv
    <2>3. RatesInv => RatesInv'
        BY <2>1, RatesStep
    <2>4. WatchInv => WatchInv'
        BY <2>1, WatchTypeStep, KeptStep DEF WatchInv, WatchKept
    <2>5. TronInv => TronInv'
        BY <2>1, TronStep
    <2> QED
        BY <2>1, <2>2, <2>3, <2>4, <2>5 DEF MCInv
<1> QED
    BY <1>1, <1>2, <1>3, <1>4, <1>5 DEF MCNext

LEMMA MCInvariance == MCSpec => []MCInv
BY MCInitInv, MCStepInv, PTL DEF MCSpec, Behaviours

\* Side by side, the four components keep their types.
THEOREM AllTyped == MCSpec => []MCTypeOK
<1>1. MCInv => MCTypeOK
    BY DEF MCInv, MCTypeOK, Inv, RatesInv, WatchInv, TronInv
<1> QED
    BY <1>1, MCInvariance, PTL

\* NeverStale, of the run: however calls of getRateCopE6 overlap and lookups lag or fail, a
\* quote handed out is young enough and made of parts its call may use.
THEOREM QuotesStayFresh == MCSpec => []QuoteFresh
<1>1. MCInv => QuoteFresh
    BY FreshQuote DEF MCInv, QuoteFresh
<1> QED
    BY <1>1, MCInvariance, PTL

\* NeverUnderquoted, of the run: copToRaw asks for what the price is worth and no unit more.
THEOREM PricesNeverShort == MCSpec => []NeverShort
<1>1. NeverShort
    BY IntakeAssumption, ExactQuote DEF NeverShort
<1> QED
    BY <1>1, PTL

\* CursorKeeps, of the run: the cursor passes no watched transfer unregistered.
THEOREM CursorStaysHonest == MCSpec => CursorHonest
<1>1. MCInv /\ MCInv' /\ [MCNext]_all => [Honest]_(Coin!vars)
    <2> SUFFICES ASSUME MCInv, MCInv', [MCNext]_all PROVE [Honest]_(Coin!vars)
        OBVIOUS
    <2>1. CASE on = "native" /\ ~UNCHANGED all
        <3>1. Coin!Next /\ on' = on
            BY <2>1 DEF MCNext
        <3>2. WatchInv /\ WatchInv'
            BY <2>1, <3>1 DEF MCInv
        <3> QED
            BY <3>1, <3>2, IntakeAssumption, HonestStep
    <2>2. CASE on # "native"
        BY <2>2 DEF MCInv, Honest
    <2>3. CASE UNCHANGED all
        BY <2>3 DEF all, Coin!vars, nativeOnly, watchers
    <2> QED
        BY <2>1, <2>2, <2>3
<1> QED
    BY <1>1, MCInvariance, PTL DEF MCSpec, Behaviours, CursorHonest, Coin!CursorHonest,
                                   Honest

=============================================================================
