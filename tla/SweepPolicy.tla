----------------------------- MODULE SweepPolicy -----------------------------
(***************************************************************************)
(* Whether a sweep is worth its fee (services/sweeper.ts): the economics   *)
(* of a candidate, each rate of which may be missing, and the decision, in *)
(* the integers the code divides.  SweepExecution takes any decision; this *)
(* module says which ones the code takes.                                  *)
(***************************************************************************)
EXTENDS Integers

CONSTANTS
    Amount, Fee, RateE6, Gwei, CeilingGwei, \* inputs, the last the ceilings a network may have
    UsdCop, Part,     \* pesos to the dollar, such that MinUsd * UsdCop counts 1/Part of a peso
    Scale, FeeScale,  \* 10^decimals of the asset and of the fee currency
    E6, Bps,          \* scales of a rate and of a share: 10^6 and 10^4 in the code, less for TLC
    MinUsd, MaxCostBps, \* of the environment
    NoDecision, NoEconomics, NoCeiling

VARIABLES candidate, economics, decision, usdCop

vars == <<candidate, economics, decision, usdCop>>

Via == {"eip3009", "native", "tron"}
EXECUTABLE_VIA == {"eip3009", "native"}
Reason == {"unimplemented", "no_treasury", "below_floor", "gas_ceiling", "unpriceable", "fee_too_high"}

SPNumbers ==
    /\ Amount \cup Fee \cup UsdCop \cup Gwei \cup CeilingGwei \cup {MinUsd, MaxCostBps} \subseteq Nat
    /\ RateE6 \cup {Scale, FeeScale, E6, Bps, Part} \subseteq Nat \ {0}
    /\ NoDecision # "sweep"

Ceiling == CeilingGwei \cup {NoCeiling}

TypeOK ==
    /\ candidate \in [amountRaw : Amount, via : Via, ceiling : Ceiling]
    /\ usdCop \in UsdCop \cup {0}
    /\ economics # NoEconomics => economics.minRaw \in Nat
    /\ decision \in Reason \cup {"sweep", NoDecision}

\* candidates lists what has been confirmed and not moved, on a network with a gas ceiling or
\* without one.
Init ==
    /\ candidate \in [amountRaw : Amount \ {0}, via : Via, ceiling : Ceiling]
    /\ economics = NoEconomics
    /\ decision = NoDecision
    /\ usdCop = 0

-----------------------------------------------------------------------------
\* COP value of a raw amount, rounded down.
toCop(raw, rateE6, scale) == (raw * rateE6) \div (scale * E6)

\* Mutant: the floor in raw units is rounded down.
floorRounded(minCop, rateE6) == (minCop * E6 * Scale) \div rateE6

minimum(minCop, rateE6) == (minCop * E6 * Scale + rateE6 - 1) \div rateE6

\* Math.round, of parts of a peso: to the nearest peso, half a peso up.
rounded(parts) == (2 * parts + Part) \div (2 * Part)

\* economicsFor: a rate that cannot be had is 0, and so is the dollar; the floor goes with it.
economicsFor ==
    /\ economics = NoEconomics
    /\ \E asset \in RateE6 \cup {0}, gas \in RateE6 \cup {0}, usd \in UsdCop \cup {0},
          fee \in Fee, price \in Gwei, treasury \in BOOLEAN :
           LET minCop == rounded(MinUsd * usd)
           IN  /\ usdCop' = usd
               /\ economics' = [
                      minRaw |-> IF minCop > 0 /\ asset > 0 THEN minimum(minCop, asset) ELSE 0,
                      feeRaw |-> fee, assetRateE6 |-> asset, feeRateE6 |-> gas,
                      gasPriceGwei |-> price, treasury |-> treasury]
    /\ UNCHANGED <<candidate, decision>>

valueCop == toCop(candidate.amountRaw, economics.assetRateE6, Scale)
feeCop == toCop(economics.feeRaw, economics.feeRateE6, FeeScale)

overCeiling == candidate.ceiling # NoCeiling /\ economics.gasPriceGwei > candidate.ceiling

decide ==
    /\ economics # NoEconomics /\ decision = NoDecision
    /\ decision' =
        IF candidate.via \notin EXECUTABLE_VIA THEN "unimplemented"
        ELSE IF ~economics.treasury THEN "no_treasury"
        ELSE IF candidate.amountRaw < economics.minRaw THEN "below_floor"
        ELSE IF overCeiling THEN "gas_ceiling"
        ELSE IF economics.assetRateE6 <= 0 \/ economics.feeRateE6 <= 0 THEN "unpriceable"
        ELSE IF valueCop <= 0 THEN "below_floor"
        ELSE IF feeCop * Bps > valueCop * MaxCostBps THEN "fee_too_high"
        ELSE "sweep"
    /\ UNCHANGED <<candidate, economics, usdCop>>

\* The next tick asks again, of what the address holds by then.
NextTick ==
    /\ decision # NoDecision
    /\ candidate' \in {[candidate EXCEPT !.amountRaw = a] : a \in {n \in Amount : n >= candidate.amountRaw}}
    /\ economics' = NoEconomics /\ decision' = NoDecision /\ usdCop' = 0

Next == economicsFor \/ decide \/ NextTick

Spec == Init /\ [][Next]_vars

-----------------------------------------------------------------------------
\* Rounding hardly makes a sweep look worth it: one that is decided on is worth the dollar
\* floor less half a peso whenever the dollar had a price, and costs less than its share of
\* the value and one peso, by the exact quotients.
WorthMoving ==
    decision = "sweep" =>
        LET value == candidate.amountRaw * economics.assetRateE6
            cost == economics.feeRaw * economics.feeRateE6 * Scale
            floor == MinUsd * usdCop * Scale * E6
            peso == Scale * FeeScale * E6
        IN  /\ 2 * Part * value + Part * Scale * E6 > 2 * floor
            /\ cost * Bps < value * FeeScale * MaxCostBps + peso * Bps

=============================================================================
