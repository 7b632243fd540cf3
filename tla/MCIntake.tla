------------------------------ MODULE MCIntake ------------------------------
(***************************************************************************)
(* Four components between a request and a registered deposit, for TLC.    *)
(* They meet only through rows and arguments that each of them models for  *)
(* itself, so one run checks them side by side: a behaviour belongs to the *)
(* component `on` names, and the variables of the others stay as they are. *)
(***************************************************************************)
EXTENDS PaymentIntake, Integers, FiniteSets

CONSTANTS
    Absent,                                     \* the value of a variable nobody uses
    Asset, Quoter, RateTtl, FxTtl, Stale, HasFallback, PricingTime, SpreadBps,
    AmountCop, MarketE6, Scale,                 \* Rates
    Payment,                                    \* either watcher
    Refresher, Backfiller, BackfillBlocks, StartHeight, MaxHeight, \* NativeWatcher
    Transfer, Token, Native, Ticker, Checker, asset, sentTo, txHash, logIndex,
    Cooldown, PageLimit, TronTime                      \* TronWatcher

VARIABLES
    on,
    now, fxCache, rateCache, served,                          \* Rates
    height, block, watched, lastScanned, scan, sighted,       \* NativeWatcher
    open, registered,                                         \* either watcher
    sentAsset, chain, stamp, lastCheck                        \* TronWatcher

intakeOnly == <<hasRow, counter, proc, issued, payments>>
ratesOnly == <<fxCache, rateCache, served>>
nativeOnly == <<height, block, watched, lastScanned, scan, sighted>>
tronOnly == <<sentAsset, chain, stamp, lastCheck>>
watchers == <<open, registered>>
all == <<on, call, faults, intakeOnly, now, ratesOnly, nativeOnly, watchers, tronOnly>>

Rate == INSTANCE Rates WITH Call <- Quoter, MaxTime <- PricingTime
Coin == INSTANCE NativeWatcher
Tron == INSTANCE TronWatcher WITH MaxTime <- TronTime

ASSUME IntakeAssumption ==
    Rate!RNumbers /\ Coin!NWNumbers /\ Tron!TWNumbers /\ Tron!TWTransfers

\* The payment is quoted in the coin, so that every feed is listed; a transfer of either
\* asset is a transaction of its own.
AllInCoin == [p \in Payment |-> Native]
ToOne == [t \in Transfer |-> CHOOSE p \in Payment : TRUE]
OwnTx == [t \in Transfer |-> t]
FirstLog == [t \in Transfer |-> 0]

NoIntake == hasRow = FALSE /\ counter = Absent /\ proc = Absent /\ issued = <<>> /\ payments = {}
NoRates == fxCache = Absent /\ rateCache = Absent /\ served = Absent
NoNative ==
    /\ height = Absent /\ block = [n \in Coin!Height |-> {}] /\ watched = Absent /\ lastScanned = Absent
    /\ scan = Absent /\ sighted = {}
NoTron ==
    /\ sentAsset = [t \in Transfer |-> Native] /\ chain = [t \in Transfer |-> "absent"]
    /\ stamp = [t \in Transfer |-> 0] /\ lastCheck = Absent
NoWatcher == open = {} /\ registered = {}

MCInit ==
    \/ on = "intake" /\ Init /\ now = Absent /\ NoRates /\ NoNative /\ NoTron /\ NoWatcher
    \/ on = "rates" /\ Rate!Init /\ faults = 0 /\ NoIntake /\ NoNative /\ NoTron /\ NoWatcher
    \/ on = "native" /\ Coin!Init /\ now = Absent /\ NoIntake /\ NoRates /\ NoTron
    \/ on = "tron" /\ Tron!Init /\ NoIntake /\ NoRates /\ NoNative

MCNext ==
    \/ on = "intake" /\ Next /\ UNCHANGED <<on, now, ratesOnly, nativeOnly, tronOnly, watchers>>
    \/ /\ on = "rates" /\ Rate!Next
       /\ UNCHANGED <<on, faults, intakeOnly, nativeOnly, tronOnly, watchers>>
    \/ on = "native" /\ Coin!Next /\ UNCHANGED <<on, now, intakeOnly, ratesOnly, tronOnly>>
    \/ on = "tron" /\ Tron!Next /\ UNCHANGED <<on, intakeOnly, ratesOnly, nativeOnly>>

nativeVars == Coin!vars
tronVars == Tron!vars

Behaviours == MCInit /\ [][MCNext]_all

\* The fairness of NativeWatcher and TronWatcher.
MCSpec ==
    /\ Behaviours
    /\ WF_nativeVars(on = "native" /\ Coin!ScanStep)
    /\ \A c \in Refresher \cup Backfiller : WF_nativeVars(on = "native" /\ Coin!CallStep(c))
    /\ \A c \in Ticker : WF_tronVars(on = "tron" /\ (Tron!activePayments(c) \/ Tron!Scan(c)))

MCTypeOK ==
    /\ on = "intake" => TypeOK
    /\ on = "rates" => Rate!TypeOK
    /\ on = "native" => Coin!TypeOK
    /\ on = "tron" => Tron!TypeOK

-----------------------------------------------------------------------------
\* Rates: every quote handed out has the age and the sources it may have.
QuoteFresh == on = "rates" => Rate!QuoteFresh

\* Rates: the rounding of a quote, over the inputs above.
NeverShort == on = "rates" => Rate!NeverShort

\* NativeWatcher: the cursor passes no watched transfer unregistered.
CursorHonest == Coin!CursorHonest

\* NativeWatcher: a recent transfer to a payment that stays open is registered.
TransfersFound == on = "native" => Coin!TransfersFound

\* TronWatcher: a mined transfer to a payment that stays open is registered.
ListedIsFound == on = "tron" => Tron!ListedIsFound

=============================================================================
