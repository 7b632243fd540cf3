------------------------------- MODULE Rates -------------------------------
(***************************************************************************)
(* Pricing (services/rates): one cache for the FX rate, one per asset for  *)
(* the quote made from it, filled by concurrent requests whose two lookups *)
(* answer in any order, late or never, and a ladder for when they fail.    *)
(* A rate is modelled by the time a provider gave it.                      *)
(***************************************************************************)
EXTENDS Integers

CONSTANTS
    Asset, Call,
    RateTtl, FxTtl, Stale, \* RATE_TTL_MS, FX_TTL_MS, STALE_MS
    HasFallback,           \* whether FALLBACK_USD_COP is set
    MaxTime,               \* bound: the clock
    SpreadBps,             \* env.spreadBps
    AmountCop, MarketE6, Scale \* inputs over which the arithmetic is checked

RNumbers ==
    /\ {RateTtl, FxTtl, Stale, MaxTime} \subseteq Nat
    /\ Stale > 0 /\ Asset # {}
    /\ HasFallback \in BOOLEAN
    /\ SpreadBps \in 0..9999
    /\ AmountCop \subseteq Nat /\ MarketE6 \subseteq Nat /\ Scale \subseteq Nat \ {0}

VARIABLES
    now,
    fxCache,   \* the FX rate cached, by the time it was fetched
    rateCache, \* per asset, a quote with the times its parts were given and it was made
    call,      \* calls of getRateCopE6
    served     \* history: the quote returned last

vars == <<now, fxCache, rateCache, call, served>>

(* Times that are none: nothing there, awaited, failed, the static floor. *)
None == -1
Pending == -2
Failed == -3
Fallback == -4

Time == 0..MaxTime
Moment == -4..MaxTime
Quote == [price : Moment, fx : Moment, begun : Moment, fetchedAt : Moment]
NoQuote == [price |-> None, fx |-> None, begun |-> None, fetchedAt |-> None]
Idle == [asset |-> CHOOSE a \in Asset : TRUE, hit |-> NoQuote, begun |-> None,
         price |-> None, fx |-> None]
NotServed == [quote |-> NoQuote, at |-> None]

TypeOK ==
    /\ now \in Time
    /\ fxCache \in Time \cup {None}
    /\ rateCache \in [Asset -> Quote]
    /\ call \in [Call -> [asset : Asset, hit : Quote, begun : Moment, price : Moment,
                          fx : Moment]]
    /\ served \in [quote : Quote, at : Moment]

Init ==
    /\ now = 0
    /\ fxCache = None
    /\ rateCache = [a \in Asset |-> NoQuote]
    /\ call = [c \in Call |-> Idle]
    /\ served = NotServed

Tick ==
    /\ now < MaxTime
    /\ now' = now + 1
    /\ UNCHANGED <<fxCache, rateCache, call, served>>

-----------------------------------------------------------------------------
younger(fetchedAt, age) == fetchedAt # None /\ now - fetchedAt < age

Serve(quote) == served' = [quote |-> quote, at |-> now]

\* getRateCopE6 on a cached quote ...
CacheHit(a) ==
    /\ younger(rateCache[a].fetchedAt, RateTtl)
    /\ Serve(rateCache[a])
    /\ UNCHANGED <<now, fxCache, rateCache, call>>

\* ... and without one: both lookups start, the FX one from its own cache.
Ask(c, a) ==
    /\ call[c] = Idle
    /\ ~younger(rateCache[a].fetchedAt, RateTtl)
    /\ call' = [call EXCEPT ![c] =
                    [asset |-> a, hit |-> rateCache[a], begun |-> now, price |-> Pending,
                     fx |-> IF younger(fxCache, FxTtl) THEN fxCache ELSE Pending]]
    /\ UNCHANGED <<now, fxCache, rateCache, served>>

Asked(c) == call[c].begun # None
Gone(c) == call[c].price = Failed \/ call[c].fx = Failed

\* Both parts are there: Promise.all resolves, and the quote is stamped now.
quoteOf(c, price, fx) ==
    [price |-> price, fx |-> fx, begun |-> call[c].begun, fetchedAt |-> now]
Complete(c, price, fx) ==
    /\ rateCache' = [rateCache EXCEPT ![call[c].asset] = quoteOf(c, price, fx)]
    /\ Serve(quoteOf(c, price, fx))

\* The first part to fail rejects the call: the quote found when it began, or none.
Degrade(c) ==
    /\ IF younger(call[c].hit.fetchedAt, Stale) THEN Serve(call[c].hit) ELSE UNCHANGED served
    /\ UNCHANGED rateCache

Settle(c, price, fx) ==
    IF Failed \in {price, fx}
    THEN IF Gone(c) THEN UNCHANGED <<rateCache, served>> ELSE Degrade(c)
    ELSE IF Pending \in {price, fx} THEN UNCHANGED <<rateCache, served>>
    ELSE Complete(c, price, fx)

\* A lookup outlives a call the other one has failed, and can still fill the FX cache.
Record(c, price, fx) ==
    call' = [call EXCEPT ![c] = IF Pending \in {price, fx}
                                THEN [@ EXCEPT !.price = price, !.fx = fx]
                                ELSE Idle]

\* fetchUsdPrice answers with a price, or with anything else.
fetchUsdPrice(c) ==
    /\ call[c].price = Pending
    /\ \E price \in {now, Failed} : Settle(c, price, call[c].fx) /\ Record(c, price, call[c].fx)
    /\ UNCHANGED <<now, fxCache>>

\* The FX providers answer, the first or the second ...
fetchUsdCop(c) ==
    /\ call[c].fx = Pending
    /\ fxCache' = now
    /\ Settle(c, call[c].price, now) /\ Record(c, call[c].price, now)
    /\ UNCHANGED now

\* ... or neither does: what another call has cached meanwhile, the floor, or nothing.
\* Mutant: however old it is.
degradedFxForever == IF fxCache # None THEN fxCache
                     ELSE IF HasFallback THEN Fallback ELSE Failed

degradedFx == IF younger(fxCache, Stale) THEN fxCache
              ELSE IF HasFallback THEN Fallback ELSE Failed
getUsdCopFails(c) ==
    /\ call[c].fx = Pending
    /\ Settle(c, call[c].price, degradedFx) /\ Record(c, call[c].price, degradedFx)
    /\ UNCHANGED <<now, fxCache>>

Next ==
    \/ Tick
    \/ \E a \in Asset : CacheHit(a) \/ \E c \in Call : Ask(c, a)
    \/ \E c \in Call : fetchUsdPrice(c) \/ fetchUsdCop(c) \/ getUsdCopFails(c)

Spec == Init /\ [][Next]_vars

-----------------------------------------------------------------------------
(* The arithmetic of a quote. *)

withSpread(marketE6) == (marketE6 * (10000 - SpreadBps)) \div 10000

\* Mutant: the division rounds down.
copToRawFloor(amountCop, rateCopPerUnitE6, scale) ==
    (amountCop * 1000000 * scale) \div rateCopPerUnitE6

copToRaw(amountCop, rateCopPerUnitE6, scale) ==
    (amountCop * 1000000 * scale + rateCopPerUnitE6 - 1) \div rateCopPerUnitE6

-----------------------------------------------------------------------------
\* However calls overlap and lookups lag or fail, no quote is handed out STALE_MS after
\* it was made, its price was asked for by the call that made it, and its FX rate was
\* at most the longer cache age old when that call began, or is the configured floor.
QuoteFresh ==
    served.at # None =>
        LET q == served.quote
        IN  /\ served.at - q.fetchedAt < IF RateTtl > Stale THEN RateTtl ELSE Stale
            /\ q.price >= q.begun
            /\ \/ q.fx = Fallback /\ HasFallback
               \/ q.begun - q.fx < IF FxTtl > Stale THEN FxTtl ELSE Stale

\* What the payer is asked for is worth the price at the rate with the spread, and so
\* at the market's, to the last unit: one unit less would not be.
NeverShort ==
    \A amount \in AmountCop, market \in MarketE6, scale \in Scale :
        LET raw == copToRaw(amount, withSpread(market), scale)
        IN  withSpread(market) > 0 =>
                /\ raw * withSpread(market) >= amount * 1000000 * scale
                /\ (raw - 1) * withSpread(market) < amount * 1000000 * scale

=============================================================================
