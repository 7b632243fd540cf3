-------------------------- MODULE WebhookDelivery --------------------------
(***************************************************************************)
(* The outbound queue: deliverPendingWebhooks of services/webhooks.ts, as  *)
(* the interval of workers/expirer.ts calls it, with the console's edits   *)
(* of a merchant's URL (api/admin-write.ts).                               *)
(*                                                                         *)
(* A call selects a batch and then works through that SNAPSHOT: one POST   *)
(* after another, each up to ten seconds.  The interval is five seconds    *)
(* and does not wait, so calls overlap and may hold the same job.          *)
(***************************************************************************)
EXTENDS Integers, FiniteSets

CONSTANTS
    Job,            \* rows of webhook_jobs that may be enqueued
    Client,         \* merchants
    clientId,       \* the merchant each job is for
    Runner,         \* calls of deliverPendingWebhooks that may overlap
    MaxAttempts,    \* MAX_ATTEMPTS
    BatchSize,      \* the LIMIT of the select
    BackoffUnit,    \* the 5 s of the backoff, in clock units
    BackoffCap,     \* its 30 min
    MaxTime,        \* bound on the clock
    MaxEdits,       \* bound on the console's edits of merchants
    MaxFaults       \* bound on crashes and failed statements

ASSUME JobAssumption == clientId \in [Job -> Client]

ASSUME LimitAssumption ==
    /\ MaxAttempts \in Nat
    /\ BatchSize \in Nat \ {0}
    /\ BackoffUnit \in Nat
    /\ BackoffCap \in Nat

VARIABLES
    now,            \* the clock
    job,            \* table webhook_jobs
    client,         \* clients.webhook_url, configured or not
    runner,         \* local state of each call
    posts,          \* POSTs made for each job
    lastPost,       \* when the last POST of each job was made
    accepted,       \* POSTs of each job the merchant has answered with success
    edits,          \* edits of merchants made so far
    faults          \* faults that have happened

history == <<posts, lastPost, accepted>>
vars == <<now, job, client, runner, posts, lastPost, accepted, edits, faults>>

JobRow == [state: {"none", "queued", "delivered"}, attempts: Nat, nextAttemptAt: Int]
Url == {"none", "set"}
Snapshot == [attempts: Nat, url: Url]
RunnerState == [pc: {"idle", "loop", "posting", "answered"}, batch: SUBSET Job,
                row: [Job -> Snapshot], current: SUBSET Job]

\* The rows of a batch are kept until they are done with; the others read as NoRow.
NoRow == [attempts |-> 0, url |-> "none"]
Idle == [pc |-> "idle", batch |-> {}, row |-> [j \in Job |-> NoRow], current |-> {}]

TypeOK ==
    /\ now \in Nat
    /\ job \in [Job -> JobRow]
    /\ client \in [Client -> Url]
    /\ runner \in [Runner -> RunnerState]
    /\ posts \in [Job -> Nat]
    /\ lastPost \in [Job -> Nat]
    /\ accepted \in [Job -> Nat]
    /\ edits \in Nat
    /\ faults \in Nat

Init ==
    /\ now = 0
    /\ job = [j \in Job |-> [state |-> "none", attempts |-> 0, nextAttemptAt |-> 0]]
    /\ client \in [Client -> Url]
    /\ runner = [r \in Runner |-> Idle]
    /\ posts = [j \in Job |-> 0]
    /\ lastPost = [j \in Job |-> 0]
    /\ accepted = [j \in Job |-> 0]
    /\ edits = 0
    /\ faults = 0

-----------------------------------------------------------------------------
(***************************************************************************)
(* The clock, the settlement that enqueues jobs and the console.           *)
(***************************************************************************)

Tick ==
    /\ now < MaxTime
    /\ now' = now + 1
    /\ UNCHANGED <<job, client, runner, history, edits, faults>>

enqueueWebhook(j) ==
    /\ job[j].state = "none"
    /\ job' = [job EXCEPT ![j].state = "queued", ![j].nextAttemptAt = now]
    /\ UNCHANGED <<now, client, runner, history, edits, faults>>

Edit == edits < MaxEdits /\ edits' = edits + 1

SetUrl(c) ==
    /\ Edit
    /\ \E url \in Url \ {client[c]} : client' = [client EXCEPT ![c] = url]
    /\ UNCHANGED <<now, job, runner, history, faults>>

-----------------------------------------------------------------------------
(***************************************************************************)
(* deliverPendingWebhooks.                                                 *)
(***************************************************************************)

\* Mutant: a job that has failed once is never due again.
DueOnlyFresh == {j \in Job : /\ job[j].state = "queued"
                             /\ job[j].nextAttemptAt <= now
                             /\ job[j].attempts = 0}

Due == {j \in Job : /\ job[j].state = "queued"
                    /\ job[j].nextAttemptAt <= now
                    /\ job[j].attempts < MaxAttempts}

\* min(2 ** attempts * 5 s, 30 min)
backoff(attempts) ==
    LET doubled == 2^attempts * BackoffUnit IN
    IF doubled < BackoffCap THEN doubled ELSE BackoffCap

\* What the select reads of a job and of its merchant.
Read(j) == [attempts |-> job[j].attempts, url |-> client[clientId[j]]]

\* The select has no order: any BatchSize of the due jobs, or all of them.
Pick(r) ==
    /\ runner[r].pc = "idle"
    /\ \E B \in SUBSET Due :
        /\ B # {}
        /\ Cardinality(B) = BatchSize \/ (B = Due /\ Cardinality(B) < BatchSize)
        /\ runner' = [runner EXCEPT ![r] =
              [Idle EXCEPT !.pc = "loop", !.batch = B,
                           !.row = [j \in Job |-> IF j \in B THEN Read(j) ELSE NoRow]]]
    /\ UNCHANGED <<now, job, client, history, edits, faults>>

\* The rest of the batch once j is done with.
Without(r, j) ==
    LET rest == runner[r].batch \ {j} IN
    IF rest = {} THEN Idle
    ELSE [Idle EXCEPT !.pc = "loop", !.batch = rest,
                      !.row = [runner[r].row EXCEPT ![j] = NoRow]]

NextJob(r, j) == runner' = [runner EXCEPT ![r] = Without(r, j)]

\* The merchant had no URL when the batch was selected.
DropJob(r, j) ==
    /\ runner[r].pc = "loop"
    /\ j \in runner[r].batch
    /\ runner[r].row[j].url = "none"
    /\ job' = [job EXCEPT ![j].state = "delivered"]
    /\ NextJob(r, j)
    /\ UNCHANGED <<now, client, history, edits, faults>>

Post(r, j) ==
    /\ runner[r].pc = "loop"
    /\ j \in runner[r].batch
    /\ runner[r].row[j].url = "set"
    /\ runner' = [runner EXCEPT ![r] = [@ EXCEPT !.pc = "posting", !.current = {j}]]
    /\ posts' = [posts EXCEPT ![j] = @ + 1]
    /\ lastPost' = [lastPost EXCEPT ![j] = now]
    /\ UNCHANGED <<now, job, client, accepted, edits, faults>>

Posting(r, j) == runner[r].pc \in {"posting", "answered"} /\ j \in runner[r].current

\* The merchant processes the POST and answers with success.
Accept(r, j) ==
    /\ Posting(r, j)
    /\ runner[r].pc = "posting"
    /\ accepted' = [accepted EXCEPT ![j] = @ + 1]
    /\ runner' = [runner EXCEPT ![r].pc = "answered"]
    /\ UNCHANGED <<now, job, client, posts, lastPost, edits, faults>>

\* Mutant: any answer, or none, counts as a delivery.
ResponseIgnored(r) == TRUE

ResponseOk(r) == runner[r].pc = "answered"

RecordDelivered(r, j) ==
    /\ Posting(r, j)
    /\ ResponseOk(r)
    /\ job' = [job EXCEPT ![j].state = "delivered"]
    /\ NextJob(r, j)
    /\ UNCHANGED <<now, client, history, edits, faults>>

\* Mutant: the failure counts twice.
FailedTwice(r, j) ==
    LET attempts == runner[r].row[j].attempts + 2 IN
    [job EXCEPT ![j].attempts = attempts, ![j].nextAttemptAt = now + backoff(attempts)]

\* Mutant: the next attempt is due at once.
FailedWithoutBackoff(r, j) ==
    [job EXCEPT ![j].attempts = runner[r].row[j].attempts + 1, ![j].nextAttemptAt = now]

\* Mutant: failures are not counted.
FailedUncounted(r, j) == [job EXCEPT ![j].nextAttemptAt = now]

\* Counted from the snapshot, not from the row.
Failed(r, j) ==
    LET attempts == runner[r].row[j].attempts + 1 IN
    [job EXCEPT ![j].attempts = attempts, ![j].nextAttemptAt = now + backoff(attempts)]

\* An error answer, a network error, ten seconds without an answer that was seen,
\* or an answer whose update failed.
RecordFailure(r, j) ==
    /\ Posting(r, j)
    /\ job' = Failed(r, j)
    /\ NextJob(r, j)
    /\ UNCHANGED <<now, client, history, edits, faults>>

Fault == faults < MaxFaults /\ faults' = faults + 1

\* A statement that fails outside the try ends the call.
CallFails(r) ==
    /\ runner[r].pc # "idle"
    /\ Fault
    /\ runner' = [runner EXCEPT ![r] = Idle]
    /\ UNCHANGED <<now, job, client, history, edits>>

Restart ==
    /\ Fault
    /\ runner' = [r \in Runner |-> Idle]
    /\ UNCHANGED <<now, job, client, history, edits>>

Deliver(r) ==
    \/ Pick(r)
    \/ \E j \in Job : \/ DropJob(r, j)
                      \/ Post(r, j)
                      \/ RecordDelivered(r, j)
                      \/ RecordFailure(r, j)

Next ==
    \/ Tick
    \/ \E j \in Job : enqueueWebhook(j)
    \/ \E c \in Client : SetUrl(c)
    \/ \E r \in Runner : Deliver(r)
    \/ \E r \in Runner, j \in Job : Accept(r, j)
    \/ \E r \in Runner : CallFails(r)
    \/ Restart

Spec == Init /\ [][Next]_vars

(***************************************************************************)
(* setInterval keeps calling, a fetch ends within its timeout, and time    *)
(* passes.  Nothing is assumed of the merchant.                            *)
(***************************************************************************)
FairSpec == Spec /\ WF_vars(Tick) /\ \A r \in Runner : WF_vars(Deliver(r))

-----------------------------------------------------------------------------
(***************************************************************************)
(* Properties                                                              *)
(***************************************************************************)

\* A job is dead-lettered only after MAX_ATTEMPTS POSTs, even when overlapping calls
\* count from stale snapshots: the counter may lag behind the POSTs, never lead.
DeadMeansTried ==
    \A j \in Job : /\ job[j].attempts <= MaxAttempts
                   /\ job[j].attempts <= posts[j]

\* A job leaves the queue as delivered only when the merchant has accepted a POST of
\* it, or had no URL when the batch was selected; a lost answer is not a delivery.
DeliveredMeansAccepted ==
    [][\A j \in Job : job[j].state = "queued" /\ job'[j].state = "delivered" =>
        \/ accepted[j] > 0
        \/ \E r \in Runner : j \in runner[r].batch /\ runner[r].row[j].url = "none"]_vars

\* Every job enqueued is delivered, dropped or dead-lettered in the end, or its next
\* attempt falls beyond the bound on the clock.
JobsResolve ==
    \A j \in Job :
        job[j].state = "queued" ~> \/ job[j].state = "delivered"
                                   \/ job[j].attempts >= MaxAttempts
                                   \/ job[j].nextAttemptAt > MaxTime

=============================================================================
