------------------------------ MODULE MCOffice ------------------------------
(***************************************************************************)
(* The components around the money path, for TLC: the console on both      *)
(* sides, the payer's page, and the parts of the process that watch over   *)
(* it.  They share nothing but what each models for itself, so one run     *)
(* checks them side by side, as MCIntake does for the intake: a behaviour  *)
(* belongs to the component `on` names, and the variables of the others    *)
(* stay as they are.                                                       *)
(***************************************************************************)
EXTENDS MerchantConsole, Integers

CONSTANTS
    Token, Cookie, Boot, Password, configured, SessionTtl, MaxFailures, Window, MaxTime, \* ConsoleSessions
    Body, ThrottleMs, BatchMax, QueueMax, Size, Limit, MaxRecords, LogTime,     \* Telemetry
    Billed, Needed, MaxDeposits,                                                \* ConsoleReads
    Fetch, PageFaults,                                     \* ConsoleClient and Checkout
    Amount, Fee, RateE6, UsdCop, Part, Gwei, CeilingGwei, Scale, FeeScale, E6, Bps, MinUsd,
    MaxCostBps,                                                                 \* SweepPolicy
    Funded, Call, CacheTtl,                                                     \* WalletOverview
    Network, Mainnet, MaxRetry,                                                 \* Boot
    Pair, address, Auditor, Cap, AuditFaults                                    \* SweepRecon

VARIABLES
    on,
    now, login, cache,                                             \* of several components
    user, session, boot, throttle, rotations, revoked, opened, ended,       \* ConsoleSessions
    throttled, repeats, spoken, sequence, ring, seen, shown, cursor,
    queue, inFlight, dropped, lastError, delivered, told,                   \* Telemetry
    deposits, ledger, webhooks, balance, torn, route, wave, got,            \* ConsoleReads
    valid, sessionExpired, me, meReq, fetched, write, logout,
    keys, revealed, pending, attached, signedOut,                           \* ConsoleClient
    candidate, economics, decision, usdCop,                                 \* SweepPolicy
    settings, call,                                                         \* WalletOverview
    env, phase, answering, timer, retry, running,                           \* Boot
    expected, moving, holding, turn, tick, reported,                           \* SweepRecon
    status, slip, display, poll, check, visible                             \* Checkout

Sessions == INSTANCE ConsoleSessions WITH Request <- Cookie, Ttl <- SessionTtl
Logs == INSTANCE Telemetry WITH MaxTime <- LogTime, NoBody <- Absent
Reads == INSTANCE ConsoleReads WITH Payment <- Billed
Browser == INSTANCE ConsoleClient WITH MaxFaults <- PageFaults
Policy == INSTANCE SweepPolicy WITH
    NoDecision <- Absent, NoEconomics <- Absent, NoCeiling <- Absent
Holdings == INSTANCE WalletOverview WITH Network <- Funded, Ttl <- CacheTtl
Process == INSTANCE Boot
Audit == INSTANCE SweepRecon WITH
    Tick <- Auditor, MaxFaults <- AuditFaults, ledger <- expected, inFlight <- moving, balance <- holding, cursor <- turn
Page == INSTANCE Checkout WITH MaxFaults <- PageFaults, shown <- display

ASSUME OfficeAssumption ==
    /\ Sessions!SNumbers /\ Logs!TNumbers /\ Reads!CNumbers /\ Policy!SPNumbers /\ Holdings!WNumbers
    /\ Process!BNumbers /\ Audit!RNumbers
    /\ PageFaults \in Nat

\* Each process has its own password.
OwnPassword == [b \in Boot |-> b]

\* Two assets at one address, and one at the address after it.
TwoTied == [p \in Pair |-> p \div 2]

-----------------------------------------------------------------------------
(* The variables of one component alone, and what they are where it is off. *)

merchantOnly == <<client, locked, trail>>
sessionsOnly == <<user, session, boot, throttle, rotations, revoked, opened, ended>>
logsOnly == <<throttled, repeats, spoken, sequence, ring, seen, shown, cursor,
              queue, inFlight, dropped, lastError, delivered, told>>
readsOnly == <<deposits, ledger, webhooks, balance, torn, route, wave, got>>
browserOnly == <<valid, sessionExpired, me, meReq, fetched, write, logout,
                 keys, revealed, pending, attached, signedOut>>
policyOnly == <<candidate, economics, decision, usdCop>>
holdingsOnly == <<settings, call>>
processOnly == <<env, phase, answering, timer, retry, running>>
auditOnly == <<expected, moving, holding, turn, tick, reported>>
pageOnly == <<status, slip, display, poll, check, visible>>
aside == <<policyOnly, holdingsOnly, processOnly, auditOnly, pageOnly>>
shared == <<now, login, cache, request, payments, faults>>
all == <<on, shared, merchantOnly, sessionsOnly, logsOnly, readsOnly, browserOnly, aside>>

NoMerchant == client = Absent /\ locked = {} /\ trail = <<>>
NoSessions ==
    /\ user = Absent /\ session = Absent /\ boot = Absent /\ throttle = Absent
    /\ rotations = Absent /\ revoked = Absent /\ opened = Absent /\ ended = Absent
NoLogs ==
    /\ throttled = Absent /\ repeats = Absent /\ spoken = Absent /\ sequence = Absent /\ ring = Absent
    /\ seen = Absent /\ shown = Absent /\ cursor = Absent /\ queue = Absent /\ inFlight = Absent
    /\ dropped = Absent /\ lastError = Absent /\ delivered = Absent /\ told = Absent
NoReads ==
    /\ deposits = Absent /\ ledger = Absent /\ webhooks = Absent /\ balance = Absent
    /\ torn = Absent /\ route = Absent /\ wave = Absent /\ got = Absent
NoBrowser ==
    /\ valid = Absent /\ sessionExpired = Absent /\ me = Absent /\ meReq = Absent /\ fetched = Absent
    /\ write = Absent /\ logout = Absent /\ keys = Absent /\ revealed = Absent /\ pending = Absent
    /\ attached = Absent /\ signedOut = Absent
NoPolicy == candidate = Absent /\ economics = Absent /\ decision = Absent /\ usdCop = Absent
NoHoldings == settings = Absent /\ call = Absent
NoProcess ==
    /\ env = Absent /\ phase = "exited" /\ answering = {} /\ running = {}
    /\ timer = [n \in Network |-> -1] /\ retry = [n \in Network |-> 1]
NoAudit ==
    /\ expected = [p \in Pair |-> -1] /\ moving = [p \in Pair |-> 0] /\ holding = [p \in Pair |-> 0]
    /\ turn = 0 /\ tick = [k \in Auditor |-> Audit!Idle] /\ reported = {}
NoPage ==
    /\ status = "pending" /\ slip = "loading" /\ display = "none" /\ poll = Page!Idle
    /\ check = Page!Idle /\ visible = FALSE

MCInit ==
    /\ on \in {"merchants", "sessions", "logs", "reads", "browser", "policy", "holdings", "process",
              "audit", "page"}
    /\ IF on = "merchants" THEN Init ELSE NoMerchant
    /\ IF on = "sessions" THEN Sessions!Init ELSE NoSessions
    /\ IF on = "logs" THEN Logs!Init ELSE NoLogs
    /\ IF on = "reads" THEN Reads!Init ELSE NoReads
    /\ IF on = "browser" THEN Browser!Init ELSE NoBrowser
    /\ IF on = "policy" THEN Policy!Init ELSE NoPolicy
    /\ IF on = "holdings" THEN Holdings!Init ELSE NoHoldings
    /\ IF on = "process" THEN Process!Init ELSE NoProcess
    /\ IF on = "audit" THEN Audit!Init ELSE NoAudit
    /\ IF on = "page" THEN Page!Init ELSE NoPage
    /\ IF on \in {"sessions", "logs", "holdings"} THEN TRUE ELSE now = Absent
    /\ IF on \in {"sessions", "browser"} THEN TRUE ELSE login = Absent
    /\ IF on \in {"browser", "holdings"} THEN TRUE ELSE cache = Absent
    /\ IF on \in {"merchants", "sessions"} THEN TRUE ELSE request = Absent
    /\ IF on \in {"merchants", "reads"} THEN TRUE ELSE payments = Absent
    /\ faults = 0

MCNext ==
    \/ /\ on = "merchants" /\ Next
       /\ UNCHANGED <<on, now, login, cache, sessionsOnly, logsOnly, readsOnly, browserOnly, aside>>
    \/ /\ on = "sessions" /\ Sessions!Next
       /\ UNCHANGED <<on, cache, payments, merchantOnly, logsOnly, readsOnly, browserOnly, aside>>
    \/ /\ on = "logs" /\ Logs!Next
       /\ UNCHANGED <<on, login, cache, request, payments, faults, merchantOnly, sessionsOnly,
                      readsOnly, browserOnly, aside>>
    \/ /\ on = "reads" /\ Reads!Next
       /\ UNCHANGED <<on, now, login, cache, request, faults, merchantOnly, sessionsOnly, logsOnly,
                      browserOnly, aside>>
    \/ /\ on = "browser" /\ Browser!Next
       /\ UNCHANGED <<on, now, request, payments, merchantOnly, sessionsOnly, logsOnly, readsOnly, aside>>
    \/ /\ UNCHANGED <<on, login, request, payments, merchantOnly, sessionsOnly, logsOnly, readsOnly,
                      browserOnly>>
       /\ \/ /\ on = "policy" /\ Policy!Next
             /\ UNCHANGED <<now, cache, faults, holdingsOnly, processOnly, auditOnly, pageOnly>>
          \/ /\ on = "holdings" /\ Holdings!Next
             /\ UNCHANGED <<policyOnly, processOnly, auditOnly, pageOnly>>
          \/ /\ on = "process" /\ Process!Next
             /\ UNCHANGED <<now, cache, faults, policyOnly, holdingsOnly, auditOnly, pageOnly>>
          \/ /\ on = "audit" /\ Audit!Next
             /\ UNCHANGED <<now, cache, policyOnly, holdingsOnly, processOnly, pageOnly>>
          \/ /\ on = "page" /\ Page!Next
             /\ UNCHANGED <<now, cache, policyOnly, holdingsOnly, processOnly, auditOnly>>

processVars == Process!vars
auditVars == Audit!vars
pageVars == Page!vars

Behaviours == MCInit /\ [][MCNext]_all

\* The fairness of Boot, SweepRecon and Checkout.
MCSpec ==
    /\ Behaviours
    /\ WF_processVars(on = "process" /\ Process!BootStep)
    /\ WF_processVars(on = "process" /\ Process!Tick)
    /\ \A n \in Network : WF_processVars(on = "process" /\ Process!SuperviseStep(n))
    /\ \A k \in Auditor : WF_auditVars(on = "audit" /\ Audit!reconcile(k))
    /\ WF_pageVars(on = "page" /\ Page!fetchCheckout)
    /\ WF_pageVars(on = "page" /\ Page!PollStep)
    /\ WF_pageVars(on = "page" /\ Page!CheckStep)

OfficeTypeOK ==
    /\ on = "merchants" => TypeOK
    /\ on = "sessions" => Sessions!TypeOK
    /\ on = "logs" => Logs!TypeOK
    /\ on = "reads" => Reads!TypeOK
    /\ on = "browser" => Browser!TypeOK
    /\ on = "policy" => Policy!TypeOK
    /\ on = "holdings" => Holdings!TypeOK
    /\ on = "process" => Process!TypeOK
    /\ on = "audit" => Audit!TypeOK
    /\ on = "page" => Page!TypeOK

-----------------------------------------------------------------------------
\* ConsoleSessions: a session that was ended, or outlived its password, is gone.
RevokedStaysRevoked == on = "sessions" => Sessions!RevokedStaysRevoked

\* Telemetry: no record and no repeat is lost without a count.
NothingUncounted == on = "logs" => Logs!NothingUncounted

\* ConsoleReads: an answer of several queries adds up.
AnswersAddUp == on = "reads" => Reads!AnswersAddUp

\* ConsoleClient: signing out leaves nothing of the session in the browser.
SignedOutIsClean == on = "browser" => Browser!SignedOutIsClean

\* SweepPolicy: rounding never makes a sweep look worth it.
WorthMoving == on = "policy" => Policy!WorthMoving

\* WalletOverview: the age stated with the wallets never flatters them.
AgeIsHonest == on = "holdings" => Holdings!AgeIsHonest

\* Boot: the workers of a network start once its RPC answers for good.
NetworksComeUp == on = "process" => Process!NetworksComeUp

\* SweepRecon: a loss that lasts is reported again and again.
LossReported == on = "audit" => Audit!LossReported

\* Checkout: a page in front ends up showing a settled payment as paid.
SettledIsShown == on = "page" => Page!SettledIsShown

=============================================================================
