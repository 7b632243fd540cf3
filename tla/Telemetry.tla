----------------------------- MODULE Telemetry -----------------------------
(***************************************************************************)
(* What becomes of a log record: repeats are throttled (logger), the rest  *)
(* goes to the ring of the console's log tail (buffer) and to the queue of *)
(* the exporter (otlp), which posts it in batches or drops it, and counts. *)
(* Records are numbered as they are emitted; two conditions share a key.   *)
(***************************************************************************)
EXTENDS Integers, Sequences, FiniteSets, Functions

CONSTANTS
    Body,               \* what a repeating condition may say
    ThrottleMs, BatchMax, QueueMax, Size, Limit, \* THROTTLE_MS, BATCH_MAX, QUEUE_MAX, SIZE; a page
    MaxRecords, MaxTime, \* bounds
    NoBody

VARIABLES
    now,
    throttled,  \* the entry of one key: body, at, suppressed
    repeats, spoken, \* history: calls of repeat, and those some record accounts for
    sequence,   \* records emitted
    ring,       \* the tail, oldest first
    seen, shown, \* history: records a poller has been shown, and how many times one was
    cursor,     \* what the poller asks for records after
    queue, inFlight, dropped, lastError,
    delivered, told \* history: exported, and reported as dropped

vars == <<now, throttled, repeats, spoken, sequence, ring, seen, shown, cursor,
          queue, inFlight, dropped, lastError, delivered, told>>
exporter == <<queue, inFlight, dropped, lastError, delivered, told>>

TNumbers == {ThrottleMs, MaxRecords, MaxTime} \subseteq Nat
            /\ {BatchMax, QueueMax, Size, Limit} \subseteq Nat \ {0}

NoEntry == [body |-> NoBody, at |-> 0, suppressed |-> 0]

TypeOK ==
    /\ now \in 0..MaxTime
    /\ throttled \in [body : Body \cup {NoBody}, at : 0..MaxTime, suppressed : Nat]
    /\ {repeats, spoken, sequence, dropped, delivered, told, shown, cursor} \subseteq Nat
    /\ \A s \in {ring, queue, inFlight} : s \in Seq(1..sequence)
    /\ Len(queue) <= QueueMax /\ Len(inFlight) <= BatchMax /\ Len(ring) <= Size
    /\ seen \subseteq 1..sequence
    /\ lastError \in BOOLEAN

Init ==
    /\ now = 0
    /\ throttled = NoEntry
    /\ repeats = 0 /\ spoken = 0 /\ sequence = 0
    /\ ring = <<>> /\ seen = {} /\ shown = 0 /\ cursor = 0
    /\ queue = <<>> /\ inFlight = <<>> /\ dropped = 0 /\ lastError = FALSE
    /\ delivered = 0 /\ told = 0

Tick ==
    /\ now < MaxTime
    /\ now' = now + 1
    /\ UNCHANGED <<throttled, repeats, spoken, sequence, ring, seen, shown, cursor, exporter>>

-----------------------------------------------------------------------------
(* Emission. *)

Final(s, n) == SubSeq(s, Len(s) - n + 1, Len(s))
\* Mutant: the ring only grows.
keptAll(s) == s

Kept(s) == IF Len(s) > Size THEN Final(s, Size) ELSE s

\* emit: each sink takes the record; the exporter's drops it when its queue is full.
emit ==
    LET record == sequence + 1
    IN  /\ sequence < MaxRecords
        /\ sequence' = record
        /\ ring' = Kept(Append(ring, record))
        /\ IF Len(queue) >= QueueMax
           THEN dropped' = dropped + 1 /\ UNCHANGED queue
           ELSE queue' = Append(queue, record) /\ UNCHANGED dropped
        /\ UNCHANGED <<now, seen, shown, cursor, inFlight, lastError, delivered, told>>

Log == emit /\ UNCHANGED <<throttled, repeats, spoken>>

holds(body) == throttled.body = body /\ now - throttled.at < ThrottleMs

\* repeat: within the window the same body is only counted.
Suppress(body) ==
    /\ holds(body)
    /\ repeats < MaxRecords
    /\ throttled' = [throttled EXCEPT !.suppressed = @ + 1]
    /\ repeats' = repeats + 1
    /\ UNCHANGED <<now, spoken, sequence, ring, seen, shown, cursor, exporter>>

Repeat(body) ==
    /\ ~holds(body)
    /\ repeats < MaxRecords
    /\ throttled' = [body |-> body, at |-> now, suppressed |-> 0]
    /\ repeats' = repeats + 1
    /\ spoken' = spoken + 1 + throttled.suppressed
    /\ emit

resolved ==
    /\ throttled # NoEntry
    /\ throttled' = NoEntry
    /\ spoken' = spoken + throttled.suppressed
    /\ UNCHANGED repeats
    /\ emit

-----------------------------------------------------------------------------
(* The tail of GET /admin/api/logs, polled with since = the cursor of the last answer. *)

\* The records after the cursor are the last ones of the ring, which keeps their order.
recentLogs ==
    LET older == Cardinality({i \in DOMAIN ring : ring[i] <= cursor})
        matched == SubSeq(ring, older + 1, Len(ring))
        page == IF Len(matched) > Limit THEN Final(matched, Limit) ELSE matched
    IN  /\ seen' = seen \cup Range(page)
        /\ shown' = shown + Len(page)
        /\ cursor' = sequence
        /\ UNCHANGED <<now, throttled, repeats, spoken, sequence, ring, exporter>>

-----------------------------------------------------------------------------
(* The exporter. *)

\* flush, by its interval or on a signal: one batch at a time.
flush ==
    /\ inFlight = <<>> /\ queue # <<>>
    /\ LET n == IF Len(queue) < BatchMax THEN Len(queue) ELSE BatchMax
       IN  inFlight' = SubSeq(queue, 1, n) /\ queue' = SubSeq(queue, n + 1, Len(queue))
    /\ UNCHANGED <<now, throttled, repeats, spoken, sequence, ring, seen, shown, cursor,
                   dropped, lastError, delivered, told>>

Exported ==
    /\ inFlight # <<>>
    /\ delivered' = delivered + Len(inFlight)
    /\ IF lastError THEN told' = told + dropped /\ dropped' = 0 ELSE UNCHANGED <<told, dropped>>
    /\ lastError' = FALSE
    /\ inFlight' = <<>>
    /\ UNCHANGED <<now, throttled, repeats, spoken, sequence, ring, seen, shown, cursor, queue>>

\* Mutant: what is waiting is counted, not what is lost.
lostInQueue == Len(queue)

lost == Len(inFlight)

\* The collector is down, slow or says no.  The message is throttled by lastError.
ExportFails ==
    /\ inFlight # <<>>
    /\ dropped' = dropped + lost
    /\ lastError' = TRUE
    /\ inFlight' = <<>>
    /\ UNCHANGED <<now, throttled, repeats, spoken, sequence, ring, seen, shown, cursor, queue,
                   delivered, told>>

Next ==
    \/ Tick \/ Log \/ resolved \/ recentLogs \/ flush \/ Exported \/ ExportFails
    \/ \E body \in Body : Suppress(body) \/ Repeat(body)

Spec == Init /\ [][Next]_vars

-----------------------------------------------------------------------------
\* Nothing is lost without a count: each record emitted waits, is on its way, is delivered or
\* is counted as dropped exactly once, and each call of repeat is in a record or counted in
\* the entry, whatever bodies alternate under one key; and a poller is shown no record twice.
NothingUncounted ==
    /\ sequence = Len(queue) + Len(inFlight) + delivered + dropped + told
    /\ repeats = spoken + throttled.suppressed
    /\ shown = Cardinality(seen)

=============================================================================
