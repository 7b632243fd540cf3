--------------------------- MODULE WebhookProofs ---------------------------
(***************************************************************************)
(* Theorems about WebhookDelivery: any number of jobs and overlapping      *)
(* calls, any retry ceiling, any edit, crash or lost answer.               *)
(***************************************************************************)
EXTENDS MCWebhookDelivery, TLAPS

(***************************************************************************)
(* The counter of a job is written from a snapshot, so what bounds it is a *)
(* bound on every snapshot still held, and a job is in the batch of a call *)
(* whose POST is under way.                                                *)
(***************************************************************************)

RowsLag ==
    \A r \in Runner :
        /\ runner[r].current \subseteq runner[r].batch
        /\ \A i, j \in runner[r].current : i = j
        /\ \A j \in runner[r].batch : /\ runner[r].row[j].attempts < MaxAttempts
                                      /\ runner[r].row[j].attempts <= posts[j]
        /\ \A j \in runner[r].current : runner[r].row[j].attempts < posts[j]

AnswersReceived ==
    \A r \in Runner :
        runner[r].pc = "answered" => \A j \in runner[r].current : accepted[j] > 0

IInv == TypeOK /\ DeadMeansTried /\ RowsLag /\ AnswersReceived

\* The pause after a failure is a number.
LEMMA BackoffType ==
    ASSUME NEW n \in Nat
    PROVE  backoff(n) \in Int
<1>1. 2^n \in Int
  OBVIOUS
<1>2. 2^n * BackoffUnit \in Int
  BY <1>1, LimitAssumption
<1>. QED  BY <1>2, LimitAssumption DEF backoff

LEMMA IdleType == Idle \in RunnerState
BY DEF Idle, NoRow, RunnerState, Snapshot, Url

\* One row of the table is replaced.
LEMMA RowType ==
    ASSUME TypeOK, NEW j \in Job, NEW row \in JobRow, job' = [job EXCEPT ![j] = row]
    PROVE  /\ job' \in [Job -> JobRow]
           /\ job'[j] = row
           /\ \A i \in Job \ {j} : job'[i] = job[i]
BY DEF TypeOK

\* A call that is done with a job holds nothing it did not hold before.
LEMMA WithoutType ==
    ASSUME TypeOK, NEW r \in Runner, NEW j \in Job
    PROVE  /\ Without(r, j) \in RunnerState
           /\ Without(r, j).batch \subseteq runner[r].batch \ {j}
           /\ Without(r, j).current = {}
           /\ Without(r, j).pc \in {"idle", "loop"}
           /\ \A i \in Without(r, j).batch : Without(r, j).row[i] = runner[r].row[i]
<1>. DEFINE rest == runner[r].batch \ {j}
            rows == [runner[r].row EXCEPT ![j] = NoRow]
<1>1. /\ rest \subseteq Job
      /\ rows \in [Job -> Snapshot]
      /\ \A i \in rest : rows[i] = runner[r].row[i]
  BY DEF TypeOK, RunnerState, NoRow, Snapshot, Url
<1>2. Without(r, j) = IF rest = {} THEN Idle
                      ELSE [Idle EXCEPT !.pc = "loop", !.batch = rest, !.row = rows]
  BY DEF Without
<1>. HIDE DEF rest, rows
<1>3. CASE rest = {}
  BY <1>2, <1>3, IdleType DEF Idle
<1>4. CASE rest # {}
  <2>. DEFINE next == [Idle EXCEPT !.pc = "loop", !.batch = rest, !.row = rows]
  <2>1. /\ next \in RunnerState
        /\ next.pc = "loop" /\ next.batch = rest /\ next.row = rows
        /\ next.current = Idle.current
    BY <1>1, IdleType DEF RunnerState
  <2>2. Idle.current = {}
    BY DEF Idle
  <2>3. Without(r, j) = next
    BY <1>2, <1>4
  <2>. HIDE DEF next
  <2>. QED  BY <1>1, <2>1, <2>2, <2>3 DEF rest
<1>. QED  BY <1>3, <1>4 DEF rest

LEMMA InvInit == Init => IInv
<1>. SUFFICES ASSUME Init PROVE IInv
  OBVIOUS
<1>1. TypeOK
  BY IdleType DEF Init, TypeOK, JobRow
<1>2. DeadMeansTried
  BY LimitAssumption DEF Init, DeadMeansTried
<1>3. RowsLag /\ AnswersReceived
  BY DEF Init, Idle, RowsLag, AnswersReceived
<1>. QED  BY <1>1, <1>2, <1>3 DEF IInv

\* Only the calls' own steps and what they write can disturb the invariant.
LEMMA InvStep == IInv /\ [Next]_vars => IInv'
<1>. SUFFICES ASSUME IInv, [Next]_vars PROVE IInv'
  OBVIOUS
<1>. USE DEF history
<1>1. /\ TypeOK /\ DeadMeansTried /\ RowsLag /\ AnswersReceived
  BY DEF IInv
<1>2. CASE UNCHANGED vars
  BY <1>1, <1>2 DEF vars, IInv, TypeOK, DeadMeansTried, RowsLag, AnswersReceived
<1>3. CASE Tick
  BY <1>1, <1>3 DEF Tick, IInv, TypeOK, DeadMeansTried, RowsLag, AnswersReceived
<1>4. ASSUME NEW j \in Job, enqueueWebhook(j) PROVE IInv'
  <2>1. job' \in [Job -> JobRow] /\ \A i \in Job : job'[i].attempts = job[i].attempts
    <3>. DEFINE at == now
                row == [job[j] EXCEPT !.state = "queued", !.nextAttemptAt = at]
    <3>1. job' = [job EXCEPT ![j] = row]
      BY <1>4 DEF enqueueWebhook
    <3>2. at \in Int
      BY <1>1 DEF TypeOK
    <3>. HIDE DEF at
    <3>3. row \in JobRow /\ row.attempts = job[j].attempts
      BY <1>1, <3>2 DEF TypeOK, JobRow
    <3>. HIDE DEF row
    <3>. QED  BY <1>1, <3>1, <3>3, RowType
  <2>. QED  BY <1>1, <1>4, <2>1
            DEF enqueueWebhook, IInv, TypeOK, DeadMeansTried, RowsLag, AnswersReceived
<1>5. ASSUME NEW c \in Client, SetUrl(c) PROVE IInv'
  <2>1. client' \in [Client -> Url] /\ edits' \in Nat
    BY <1>1, <1>5 DEF SetUrl, Edit, TypeOK
  <2>. QED  BY <1>1, <1>5, <2>1
            DEF SetUrl, IInv, TypeOK, DeadMeansTried, RowsLag, AnswersReceived
<1>6. ASSUME NEW r \in Runner, Pick(r) PROVE IInv'
  <2>1. PICK B \in SUBSET Due :
          runner' = [runner EXCEPT ![r] =
              [Idle EXCEPT !.pc = "loop", !.batch = B,
                           !.row = [j \in Job |-> IF j \in B THEN Read(j) ELSE NoRow]]]
    BY <1>6 DEF Pick
  <2>. DEFINE rows == [j \in Job |-> IF j \in B THEN Read(j) ELSE NoRow]
              next == [Idle EXCEPT !.pc = "loop", !.batch = B, !.row = rows]
  <2>2. rows \in [Job -> Snapshot] /\ \A j \in B : rows[j].attempts = job[j].attempts
    BY <1>1, JobAssumption DEF Read, NoRow, Snapshot, Url, Due, TypeOK, JobRow
  <2>3. B \subseteq Job /\ \A j \in B : job[j].attempts < MaxAttempts
    BY DEF Due
  <2>. HIDE DEF rows
  <2>4. /\ next \in RunnerState
        /\ next.batch = B /\ next.row = rows /\ next.current = {}
    BY <2>2, <2>3, IdleType DEF Idle, RunnerState
  <2>5. runner' = [runner EXCEPT ![r] = next]
    BY <2>1 DEF rows
  <2>. HIDE DEF next
  <2>6. TypeOK'
    BY <1>1, <1>6, <2>4, <2>5 DEF Pick, TypeOK
  <2>7. RowsLag'
    BY <1>1, <1>6, <2>2, <2>3, <2>4, <2>5 DEF Pick, RowsLag, DeadMeansTried, TypeOK
  <2>8. DeadMeansTried' /\ AnswersReceived'
    BY <1>1, <1>6, <2>4, <2>5 DEF Pick, DeadMeansTried, AnswersReceived, TypeOK
  <2>. QED  BY <2>6, <2>7, <2>8 DEF IInv
<1>7. ASSUME NEW r \in Runner, NEW next \in RunnerState,
             runner' = [runner EXCEPT ![r] = next],
             next.batch \subseteq runner[r].batch,
             next.current = {},
             \A i \in next.batch : next.row[i] = runner[r].row[i],
             UNCHANGED <<posts, accepted>>
      PROVE  /\ runner' \in [Runner -> RunnerState]
             /\ RowsLag'
             /\ AnswersReceived'
  BY <1>1, <1>7 DEF RowsLag, AnswersReceived, TypeOK
<1>8. ASSUME NEW r \in Runner, NEW j \in Job, NextJob(r, j), UNCHANGED <<posts, accepted>>
      PROVE  /\ runner' \in [Runner -> RunnerState]
             /\ RowsLag'
             /\ AnswersReceived'
  <2>. DEFINE next == Without(r, j)
  <2>1. runner' = [runner EXCEPT ![r] = next]
    BY <1>8 DEF NextJob
  <2>2. /\ next \in RunnerState
        /\ next.batch \subseteq runner[r].batch
        /\ next.current = {}
        /\ next.pc \in {"idle", "loop"}
        /\ \A i \in next.batch : next.row[i] = runner[r].row[i]
    BY <1>1, WithoutType
  <2>. HIDE DEF next
  <2>. QED  BY <1>7, <1>8, <2>1, <2>2
<1>9. ASSUME NEW r \in Runner, NEW j \in Job, DropJob(r, j) \/ RecordDelivered(r, j)
      PROVE  IInv'
  <2>1. job' \in [Job -> JobRow] /\ \A i \in Job : job'[i].attempts = job[i].attempts
    <3>. DEFINE row == [job[j] EXCEPT !.state = "delivered"]
    <3>1. job' = [job EXCEPT ![j] = row]
      BY <1>9 DEF DropJob, RecordDelivered
    <3>2. row \in JobRow /\ row.attempts = job[j].attempts
      BY <1>1 DEF TypeOK, JobRow
    <3>. HIDE DEF row
    <3>. QED  BY <1>1, <3>1, <3>2, RowType
  <2>. QED  BY <1>1, <1>8, <1>9, <2>1 DEF DropJob, RecordDelivered, IInv, TypeOK, DeadMeansTried
<1>10. ASSUME NEW r \in Runner, NEW j \in Job, Post(r, j) PROVE IInv'
  <2>. DEFINE next == [runner[r] EXCEPT !.pc = "posting", !.current = {j}]
  <2>1. /\ next \in RunnerState
        /\ next.pc = "posting" /\ next.current = {j}
        /\ next.batch = runner[r].batch /\ next.row = runner[r].row
    BY <1>1 DEF TypeOK, RunnerState
  <2>3. runner' = [runner EXCEPT ![r] = next]
    BY <1>10 DEF Post
  <2>. HIDE DEF next
  <2>4. /\ posts' \in [Job -> Nat]
        /\ posts'[j] = posts[j] + 1
        /\ \A i \in Job : posts'[i] >= posts[i]
    BY <1>1, <1>10 DEF Post, TypeOK
  <2>5. lastPost' \in [Job -> Nat]
    BY <1>1, <1>10 DEF Post, TypeOK, RunnerState, Snapshot
  <2>6. TypeOK'
    BY <1>1, <1>10, <2>1, <2>3, <2>4, <2>5 DEF Post, TypeOK
  <2>7. ASSUME NEW q \in Runner, NEW i \in runner[q].batch
        PROVE  i \in Job /\ runner[q].row[i].attempts \in Nat /\ posts[i] \in Nat
    BY <1>1 DEF TypeOK, RunnerState, Snapshot
  <2>8. RowsLag'
    BY <1>1, <1>10, <2>1, <2>3, <2>4, <2>7 DEF Post, RowsLag, TypeOK
  <2>9. DeadMeansTried' /\ AnswersReceived'
    BY <1>1, <1>10, <2>1, <2>3, <2>4
    DEF Post, DeadMeansTried, AnswersReceived, TypeOK, JobRow
  <2>. QED  BY <2>6, <2>8, <2>9 DEF IInv
<1>11. ASSUME NEW r \in Runner, NEW j \in Job, Accept(r, j) PROVE IInv'
  <2>1. accepted' \in [Job -> Nat] /\ accepted'[j] > 0 /\ \A i \in Job : accepted'[i] >= accepted[i]
    BY <1>1, <1>11 DEF Accept, TypeOK
  <2>. DEFINE next == [runner[r] EXCEPT !.pc = "answered"]
  <2>2. /\ next \in RunnerState
        /\ next.current = runner[r].current
        /\ next.batch = runner[r].batch /\ next.row = runner[r].row
    BY <1>1 DEF TypeOK, RunnerState
  <2>3. runner' = [runner EXCEPT ![r] = next]
    BY <1>11 DEF Accept
  <2>. HIDE DEF next
  <2>4. TypeOK' /\ DeadMeansTried'
    BY <1>1, <1>11, <2>1, <2>2, <2>3 DEF Accept, TypeOK, DeadMeansTried
  <2>5. RowsLag'
    BY <1>1, <1>11, <2>2, <2>3 DEF Accept, RowsLag, TypeOK
  <2>6. \A i \in runner[r].current : i = j
    BY <1>1, <1>11 DEF Accept, Posting, RowsLag
  <2>7. AnswersReceived'
    BY <1>1, <1>11, <2>1, <2>2, <2>3, <2>6 DEF Accept, AnswersReceived, TypeOK, RunnerState
  <2>. QED  BY <2>4, <2>5, <2>7 DEF IInv
<1>12. ASSUME NEW r \in Runner, NEW j \in Job, RecordFailure(r, j) PROVE IInv'
  <2>. DEFINE n == runner[r].row[j].attempts + 1
              at == now + backoff(n)
  <2>1. n \in Nat /\ n <= MaxAttempts /\ n <= posts[j]
    BY <1>1, <1>12, LimitAssumption
    DEF RecordFailure, Posting, RowsLag, TypeOK, RunnerState, Snapshot
  <2>2. at \in Int
    BY <1>1, <2>1, BackoffType DEF TypeOK
  <2>3. job' = [job EXCEPT ![j].attempts = n, ![j].nextAttemptAt = at]
    BY <1>12 DEF RecordFailure, Failed
  <2>. DEFINE row == [job[j] EXCEPT !.attempts = n, !.nextAttemptAt = at]
  <2>4. job' = [job EXCEPT ![j] = row]
    BY <2>3
  <2>. HIDE DEF n, at
  <2>5. row \in JobRow /\ row.attempts = n
    BY <1>1, <2>1, <2>2 DEF TypeOK, JobRow
  <2>. HIDE DEF row
  <2>6. /\ job' \in [Job -> JobRow]
        /\ job'[j] = row
        /\ \A i \in Job \ {j} : job'[i] = job[i]
    BY <1>1, <2>4, <2>5, RowType
  <2>7. DeadMeansTried'
    BY <1>1, <1>12, <2>1, <2>5, <2>6 DEF RecordFailure, DeadMeansTried
  <2>. QED  BY <1>1, <1>8, <1>12, <2>6, <2>7 DEF RecordFailure, IInv, TypeOK
<1>13. ASSUME NEW r \in Runner, CallFails(r) PROVE IInv'
  <2>1. Idle.batch = {} /\ Idle.current = {} /\ Idle.pc = "idle"
    BY DEF Idle
  <2>2. /\ runner' \in [Runner -> RunnerState]
        /\ RowsLag'
        /\ AnswersReceived'
    BY <1>7, <1>13, <2>1, IdleType DEF CallFails
  <2>. QED  BY <1>1, <1>13, <2>2 DEF CallFails, Fault, IInv, TypeOK, DeadMeansTried
<1>14. CASE Restart
  BY <1>1, <1>14, IdleType
  DEF Restart, Fault, Idle, IInv, TypeOK, DeadMeansTried, RowsLag, AnswersReceived
<1>. QED
  BY <1>2, <1>3, <1>4, <1>5, <1>6, <1>9, <1>10, <1>11, <1>12, <1>13, <1>14
  DEF Next, Deliver

\* The strengthening the theorems below rest on.
THEOREM Invariant == Spec => []IInv
BY InvInit, InvStep, PTL DEF Spec

\* Jobs, calls and their snapshots keep their types.
THEOREM TypeCorrect == Spec => []TypeOK
<1>1. IInv => TypeOK
  BY DEF IInv
<1>. QED  BY <1>1, Invariant, PTL

\* Stale snapshots never make a job give up early: it is dead-lettered only after
\* MAX_ATTEMPTS POSTs, however many calls overlap.
THEOREM NoEarlyDeadLetter == Spec => []DeadMeansTried
<1>1. IInv => DeadMeansTried
  BY DEF IInv
<1>. QED  BY <1>1, Invariant, PTL

\* No lost answer, overlap or crash takes a job off the queue that the merchant, having
\* a URL, has not accepted.
THEOREM NoLostDelivery == Spec => DeliveredMeansAccepted
<1>. DEFINE Step == \A j \in Job : job[j].state = "queued" /\ job'[j].state = "delivered" =>
        \/ accepted[j] > 0
        \/ \E r \in Runner : j \in runner[r].batch /\ runner[r].row[j].url = "none"
<1>1. ASSUME IInv, [Next]_vars PROVE Step
  <2>. SUFFICES ASSUME NEW j \in Job, job[j].state = "queued", job'[j].state = "delivered"
                PROVE  \/ accepted[j] > 0
                       \/ \E r \in Runner : j \in runner[r].batch /\ runner[r].row[j].url = "none"
    OBVIOUS
  <2>1. TypeOK /\ AnswersReceived
    BY <1>1 DEF IInv
  <2>2. ASSUME NEW i \in Job, enqueueWebhook(i) PROVE FALSE
    <3>1. i # j
      BY <2>2 DEF enqueueWebhook
    <3>. QED  BY <2>1, <2>2, <3>1 DEF enqueueWebhook, TypeOK
  <2>3. ASSUME NEW r \in Runner, NEW i \in Job,
               DropJob(r, i) \/ RecordDelivered(r, i) \/ RecordFailure(r, i)
        PROVE  i = j /\ ~RecordFailure(r, i)
    <3>1. i = j
      BY <2>1, <2>3 DEF DropJob, RecordDelivered, RecordFailure, Failed, TypeOK
    <3>2. Failed(r, j)[j].state = job[j].state
      <4>. DEFINE n == runner[r].row[j].attempts + 1
                  at == now + backoff(n)
                  row == [job[j] EXCEPT !.attempts = n, !.nextAttemptAt = at]
      <4>1. Failed(r, j) = [job EXCEPT ![j] = row]
        BY DEF Failed
      <4>. HIDE DEF n, at
      <4>2. row.state = job[j].state
        BY <2>1 DEF TypeOK, JobRow
      <4>. HIDE DEF row
      <4>. QED  BY <2>1, <4>1, <4>2 DEF TypeOK
    <3>. QED  BY <3>1, <3>2 DEF RecordFailure
  <2>4. CASE job' = job
    BY <2>4
  <2>5. CASE \E r \in Runner : DropJob(r, j)
    BY <2>5 DEF DropJob
  <2>6. CASE \E r \in Runner : RecordDelivered(r, j)
    BY <2>1, <2>6 DEF RecordDelivered, ResponseOk, Posting, AnswersReceived
  <2>. QED
    BY <1>1, <2>2, <2>3, <2>4, <2>5, <2>6
    DEF Next, vars, Tick, SetUrl, Deliver, Pick, Post, Accept, CallFails, Restart
<1>2. [Next]_vars /\ IInv => [Step]_vars
  BY <1>1
<1>. QED  BY <1>2, Invariant, PTL DEF Spec, DeliveredMeansAccepted

-----------------------------------------------------------------------------
(***************************************************************************)
(* What the queue promises of a job that no two calls have held at once:   *)
(* the call that holds it knows its row, so what is posted is counted and  *)
(* the backoff of the last failure has passed.                             *)
(***************************************************************************)

\* One call at most holds such a job ...
Alone ==
    \A j \in Job \ shared : \A q, r \in Runner :
        j \in runner[q].batch /\ j \in runner[r].batch => q = r

\* ... its row is still the one that was read, and it was due then.
HeldRows ==
    \A r \in Runner : \A j \in runner[r].batch \ shared :
        /\ job[j].state = "queued"
        /\ runner[r].row[j].attempts = job[j].attempts
        /\ job[j].nextAttemptAt <= now

Begun ==
    \A j \in Job :
        job[j].state = "none" => posts[j] = 0 /\ \A r \in Runner : j \notin runner[r].batch

Past == \A j \in Job : lastPost[j] <= now

\* Between POSTs, the next one is due no earlier than the backoff allows.
Spaced ==
    \A j \in Job \ shared :
        /\ faults = 0 /\ posts[j] > 0 /\ job[j].state = "queued"
        /\ \A r \in Runner : ~Posting(r, j)
        => lastPost[j] + backoff(posts[j]) <= job[j].nextAttemptAt

CInv == Alone /\ HeldRows /\ Begun /\ Past /\ PostsAreCounted /\ Spaced

LEMMA Types ==
    ASSUME IInv
    PROVE  /\ now \in Nat /\ faults \in Nat
           /\ job \in [Job -> JobRow] /\ runner \in [Runner -> RunnerState]
           /\ posts \in [Job -> Nat] /\ lastPost \in [Job -> Nat]
           /\ \A j \in Job : /\ posts[j] \in Nat /\ lastPost[j] \in Nat
                             /\ job[j].attempts \in Nat /\ job[j].nextAttemptAt \in Int
                             /\ job[j].state \in {"none", "queued", "delivered"}
                             /\ job[j].attempts <= posts[j]
           /\ \A r \in Runner : /\ runner[r].batch \subseteq Job
                                /\ runner[r].current \subseteq runner[r].batch
                                /\ \A i, j \in runner[r].current : i = j
BY DEF IInv, TypeOK, JobRow, RunnerState, DeadMeansTried, RowsLag

LEMMA CountInit == MCInit => CInv
<1>. SUFFICES ASSUME MCInit PROVE CInv
  OBVIOUS
<1>1. Idle.batch = {} /\ Idle.pc = "idle"
  BY DEF Idle
<1>. QED  BY <1>1 DEF MCInit, Init, CInv, Alone, HeldRows, Begun, Past, PostsAreCounted, Spaced,
                      Posting

\* A step after which a job is in two batches has it in `shared`.
LEMMA StaysAlone == MCNext => Alone' /\ shared \subseteq shared'
BY DEF MCNext, SharedNow, Alone

\* Nothing the calls or the rows know of changes; time may pass.
LEMMA QuietCount ==
    ASSUME IInv, IInv', CInv, Alone', shared \subseteq shared',
           UNCHANGED <<job, runner, posts, lastPost, faults>>, now <= now'
    PROVE  CInv'
<1>0. now' \in Nat
  BY DEF IInv, TypeOK
<1>1. HeldRows'
  <2>. SUFFICES ASSUME NEW r \in Runner, NEW j \in runner[r].batch \ shared
                PROVE  /\ job[j].state = "queued"
                       /\ runner[r].row[j].attempts = job[j].attempts
                       /\ job[j].nextAttemptAt <= now'
    BY DEF HeldRows
  <2>1. job[j].nextAttemptAt \in Int
    BY Types
  <2>. QED  BY <1>0, <2>1, Types DEF CInv, HeldRows
<1>2. Begun' /\ Past'
  BY <1>0, Types DEF CInv, Begun, Past
<1>3. PostsAreCounted' /\ Spaced'
  BY Types DEF CInv, PostsAreCounted, Spaced, Posting
<1>. QED  BY <1>1, <1>2, <1>3 DEF CInv

LEMMA EnqueueCount ==
    ASSUME IInv, IInv', CInv, Alone', shared \subseteq shared', NEW j \in Job, enqueueWebhook(j)
    PROVE  CInv'
<1>1. /\ UNCHANGED <<now, runner, posts, lastPost, faults>>
      /\ job[j].state = "none" /\ \A i \in Job : i # j => job'[i] = job[i]
      /\ job'[j].state = "queued" /\ job'[j].attempts = job[j].attempts
  BY Types DEF enqueueWebhook, history, JobRow
<1>2. posts[j] = 0 /\ \A r \in Runner : j \notin runner[r].batch
  BY <1>1 DEF CInv, Begun
<1>3. HeldRows'
  BY <1>1, <1>2, Types DEF CInv, HeldRows
<1>4. Begun' /\ Past'
  BY <1>1, <1>2, Types DEF CInv, Begun, Past
<1>5. PostsAreCounted' /\ Spaced'
  BY <1>1, <1>2, Types DEF CInv, PostsAreCounted, Spaced, Posting
<1>. QED  BY <1>3, <1>4, <1>5 DEF CInv

LEMMA PickCount ==
    ASSUME IInv, IInv', CInv, Alone', shared \subseteq shared', NEW r \in Runner, Pick(r)
    PROVE  CInv'
<1>1. /\ UNCHANGED <<now, job, posts, lastPost, faults>> /\ runner[r].pc = "idle"
      /\ \A q \in Runner : q # r => runner'[q] = runner[q]
  BY Types DEF Pick, history
<1>2. /\ runner'[r].batch \subseteq Due /\ runner'[r].pc = "loop"
      /\ \A j \in runner'[r].batch : runner'[r].row[j].attempts = job[j].attempts
  <2>1. PICK B \in SUBSET Due :
          runner' = [runner EXCEPT ![r] =
              [Idle EXCEPT !.pc = "loop", !.batch = B,
                           !.row = [j \in Job |-> IF j \in B THEN Read(j) ELSE NoRow]]]
    BY DEF Pick
  <2>. DEFINE rows == [j \in Job |-> IF j \in B THEN Read(j) ELSE NoRow]
              next == [Idle EXCEPT !.pc = "loop", !.batch = B, !.row = rows]
  <2>2. \A j \in B : rows[j].attempts = job[j].attempts
    BY DEF Read, Due
  <2>3. runner'[r] = next
    BY <2>1, Types
  <2>. HIDE DEF rows
  <2>4. next.pc = "loop" /\ next.batch = B /\ next.row = rows
    BY DEF Idle
  <2>. QED  BY <2>2, <2>3, <2>4
<1>3. HeldRows'
  <2>1. ASSUME NEW j \in runner'[r].batch
        PROVE  job[j].state = "queued" /\ job[j].nextAttemptAt <= now
    BY <1>2 DEF Due
  <2>. QED  BY <1>1, <1>2, <2>1 DEF CInv, HeldRows
<1>4. Begun' /\ Past'
  <2>1. \A j \in runner'[r].batch : job[j].state # "none"
    BY <1>2 DEF Due
  <2>. QED  BY <1>1, <2>1 DEF CInv, Begun, Past
<1>5. \A q \in Runner, j \in Job : Posting(q, j)' <=> Posting(q, j)
  BY <1>1, <1>2 DEF Posting
<1>6. PostsAreCounted' /\ Spaced'
  BY <1>1, <1>5, Types DEF CInv, PostsAreCounted, Spaced
<1>. QED  BY <1>3, <1>4, <1>6 DEF CInv

LEMMA PostCount ==
    ASSUME IInv, IInv', CInv, Alone', shared \subseteq shared', NEW r \in Runner, NEW j \in Job,
           Post(r, j)
    PROVE  CInv'
<1>1. /\ UNCHANGED <<now, job, faults>> /\ runner[r].pc = "loop" /\ j \in runner[r].batch
      /\ \A q \in Runner : q # r => runner'[q] = runner[q]
      /\ runner'[r].pc = "posting" /\ runner'[r].current = {j}
      /\ runner'[r].batch = runner[r].batch /\ runner'[r].row = runner[r].row
      /\ posts'[j] = posts[j] + 1 /\ lastPost'[j] = now
      /\ \A i \in Job : i # j => posts'[i] = posts[i] /\ lastPost'[i] = lastPost[i]
  BY Types DEF Post, RunnerState
<1>2. HeldRows'
  BY <1>1 DEF CInv, HeldRows
<1>3. Begun' /\ Past'
  BY <1>1, Types DEF CInv, Begun, Past
<1>4. \A i \in Job : i # j => \A q \in Runner : Posting(q, i)' <=> Posting(q, i)
  BY <1>1 DEF Posting
<1>5. Posting(r, j)'
  BY <1>1 DEF Posting
<1>6. j \notin shared => \A q \in Runner : ~Posting(q, j)
  BY <1>1, Types DEF CInv, Alone, Posting
<1>7. j \notin shared => job[j].state = "queued"
  BY <1>1 DEF CInv, HeldRows
<1>8. PostsAreCounted'
  <2>1. ASSUME NEW i \in Job \ shared', i # j
        PROVE  posts'[i] <= job'[i].attempts + faults'
                   + (IF job'[i].state = "delivered" \/ \E q \in Runner : Posting(q, i)'
                      THEN 1 ELSE 0)
    BY <1>1, <1>4, <2>1 DEF CInv, PostsAreCounted
  <2>2. ASSUME j \notin shared' PROVE posts'[j] <= job'[j].attempts + faults' + 1
    <3>1. posts[j] <= job[j].attempts + faults
      BY <1>6, <1>7, <2>2, Types DEF CInv, PostsAreCounted
    <3>. QED  BY <1>1, <3>1, Types
  <2>. QED  BY <1>5, <2>1, <2>2 DEF PostsAreCounted
<1>9. Spaced'
  BY <1>1, <1>4, <1>5 DEF CInv, Spaced
<1>. QED  BY <1>2, <1>3, <1>8, <1>9 DEF CInv

LEMMA AcceptCount ==
    ASSUME IInv, IInv', CInv, Alone', shared \subseteq shared', NEW r \in Runner, NEW j \in Job,
           Accept(r, j)
    PROVE  CInv'
<1>1. /\ UNCHANGED <<now, job, posts, lastPost, faults>>
      /\ \A q \in Runner : q # r => runner'[q] = runner[q]
      /\ runner[r].pc = "posting" /\ runner'[r].pc = "answered"
      /\ runner'[r].current = runner[r].current
      /\ runner'[r].batch = runner[r].batch /\ runner'[r].row = runner[r].row
  BY Types DEF Accept, RunnerState
<1>2. HeldRows'
  BY <1>1 DEF CInv, HeldRows
<1>3. Begun' /\ Past'
  BY <1>1 DEF CInv, Begun, Past
<1>4. \A q \in Runner, i \in Job : Posting(q, i)' <=> Posting(q, i)
  BY <1>1 DEF Posting
<1>5. PostsAreCounted' /\ Spaced'
  BY <1>1, <1>4, Types DEF CInv, PostsAreCounted, Spaced
<1>. QED  BY <1>2, <1>3, <1>5 DEF CInv

\* A call is done with a job, whose row it has written.
LEMMA DoneCount ==
    ASSUME IInv, IInv', CInv, Alone', shared \subseteq shared', NEW r \in Runner, NEW j \in Job,
           UNCHANGED <<now, posts, lastPost, faults>>, NextJob(r, j), j \in runner[r].batch,
           \A i \in Job : i # j => job'[i] = job[i],
           \A i \in Job : Posting(r, i) => i = j,
           job'[j].state # "none",
           j \notin shared =>
             /\ posts[j] <= job'[j].attempts + faults
                            + (IF job'[j].state = "delivered" THEN 1 ELSE 0)
             /\ job'[j].state = "queued" /\ faults = 0 /\ posts[j] > 0 =>
                    lastPost[j] + backoff(posts[j]) <= job'[j].nextAttemptAt
    PROVE  CInv'
<1>1. /\ \A q \in Runner : q # r => runner'[q] = runner[q]
      /\ runner'[r].batch \subseteq runner[r].batch \ {j}
      /\ \A i \in runner'[r].batch : runner'[r].row[i] = runner[r].row[i]
      /\ runner'[r].current = {}
  <2>1. runner'[r] = Without(r, j) /\ \A q \in Runner : q # r => runner'[q] = runner[q]
    BY Types DEF NextJob
  <2>. QED  BY <2>1, WithoutType DEF IInv
<1>2. j \notin shared => \A q \in Runner : j \notin runner'[q].batch
  BY <1>1 DEF CInv, Alone
<1>3. HeldRows'
  BY <1>1, <1>2, Types DEF CInv, HeldRows
<1>4. Begun' /\ Past'
  BY <1>1, Types DEF CInv, Begun, Past
<1>5. \A i \in Job : i # j => \A q \in Runner : Posting(q, i)' <=> Posting(q, i)
  BY <1>1 DEF Posting
<1>6. PostsAreCounted' /\ Spaced'
  <2>1. ASSUME NEW i \in Job \ shared', i # j
        PROVE  /\ posts'[i] <= job'[i].attempts + faults'
                   + (IF job'[i].state = "delivered" \/ \E q \in Runner : Posting(q, i)'
                      THEN 1 ELSE 0)
               /\ /\ faults' = 0 /\ posts'[i] > 0 /\ job'[i].state = "queued"
                  /\ \A q \in Runner : ~Posting(q, i)'
                  => lastPost'[i] + backoff(posts'[i]) <= job'[i].nextAttemptAt
    BY <1>5, <2>1 DEF CInv, PostsAreCounted, Spaced
  <2>2. ASSUME j \notin shared'
        PROVE  /\ posts'[j] <= job'[j].attempts + faults'
                   + (IF job'[j].state = "delivered" \/ \E q \in Runner : Posting(q, j)'
                      THEN 1 ELSE 0)
               /\ /\ faults' = 0 /\ posts'[j] > 0 /\ job'[j].state = "queued"
                  => lastPost'[j] + backoff(posts'[j]) <= job'[j].nextAttemptAt
    <3>1. job'[j].attempts \in Nat
      BY DEF IInv, TypeOK, JobRow
    <3>. QED  BY <2>2, <3>1, Types
  <2>. QED  BY <2>1, <2>2 DEF PostsAreCounted, Spaced
<1>. QED  BY <1>3, <1>4, <1>6 DEF CInv

LEMMA DeliveredCount ==
    ASSUME IInv, IInv', CInv, Alone', shared \subseteq shared', NEW r \in Runner, NEW j \in Job,
           DropJob(r, j) \/ RecordDelivered(r, j)
    PROVE  CInv'
<1>1. /\ UNCHANGED <<now, posts, lastPost, faults>> /\ NextJob(r, j)
      /\ job' = [job EXCEPT ![j].state = "delivered"]
  BY DEF DropJob, RecordDelivered, history
<1>2. /\ \A i \in Job : i # j => job'[i] = job[i]
      /\ job'[j].state = "delivered" /\ job'[j].attempts = job[j].attempts
  BY <1>1, Types DEF JobRow
<1>3. j \in runner[r].batch /\ \A i \in Job : Posting(r, i) => i = j
  BY Types DEF DropJob, RecordDelivered, Posting
<1>4. j \notin shared => posts[j] <= job[j].attempts + faults + 1
  BY Types DEF CInv, PostsAreCounted
<1>. QED  BY <1>1, <1>2, <1>3, <1>4, DoneCount

LEMMA FailureCount ==
    ASSUME IInv, IInv', CInv, Alone', shared \subseteq shared', NEW r \in Runner, NEW j \in Job,
           RecordFailure(r, j)
    PROVE  CInv'
<1>. DEFINE n == runner[r].row[j].attempts + 1
            at == now + backoff(n)
<1>1. UNCHANGED <<now, posts, lastPost, faults>> /\ NextJob(r, j)
  BY DEF RecordFailure, history
<1>2. /\ j \in runner[r].batch /\ \A i \in Job : Posting(r, i) => i = j
      /\ runner[r].row[j].attempts < posts[j]
  BY Types DEF RecordFailure, Posting, IInv, RowsLag
<1>3. runner[r].row[j].attempts \in Nat /\ n \in Nat /\ at \in Int
  <2>1. runner[r].row[j].attempts \in Nat /\ n \in Nat
    BY Types DEF RunnerState, Snapshot
  <2>. QED  BY <2>1, BackoffType, Types
<1>4. job' = [job EXCEPT ![j].attempts = n, ![j].nextAttemptAt = at]
  BY DEF RecordFailure, Failed
<1>5. /\ \A i \in Job : i # j => job'[i] = job[i]
      /\ job'[j].state = job[j].state /\ job'[j].attempts = n /\ job'[j].nextAttemptAt = at
  <2>. DEFINE row == [job[j] EXCEPT !.attempts = n, !.nextAttemptAt = at]
  <2>1. job' = [job EXCEPT ![j] = row]
    BY <1>4
  <2>. HIDE DEF n, at
  <2>2. row.state = job[j].state /\ row.attempts = n /\ row.nextAttemptAt = at
    BY Types DEF JobRow
  <2>. HIDE DEF row
  <2>. QED  BY <2>1, <2>2, Types
<1>6. ASSUME j \notin shared
      PROVE  /\ job[j].state = "queued" /\ posts[j] <= n + faults
             /\ faults = 0 => posts[j] = n
             /\ lastPost[j] <= now
  <2>1. job[j].state = "queued" /\ n = job[j].attempts + 1
    BY <1>2, <1>6 DEF CInv, HeldRows
  <2>2. posts[j] <= job[j].attempts + faults + 1
    BY <1>6, Types DEF CInv, PostsAreCounted
  <2>. QED  BY <1>2, <1>3, <2>1, <2>2, Types DEF CInv, Past
<1>7. job[j].state # "none"
  BY <1>2 DEF CInv, Begun
<1>8. ASSUME j \notin shared, faults = 0
      PROVE  lastPost[j] + backoff(posts[j]) <= job'[j].nextAttemptAt
  <2>1. posts[j] = n /\ lastPost[j] <= now
    BY <1>6, <1>8
  <2>2. backoff(n) \in Int
    BY <1>3, BackoffType
  <2>. HIDE DEF n
  <2>. QED  BY <1>5, <2>1, <2>2, Types
<1>. HIDE DEF n, at
<1>9. j \notin shared =>
        /\ posts[j] <= job'[j].attempts + faults
                       + (IF job'[j].state = "delivered" THEN 1 ELSE 0)
        /\ job'[j].state = "queued" /\ faults = 0 /\ posts[j] > 0 =>
               lastPost[j] + backoff(posts[j]) <= job'[j].nextAttemptAt
  BY <1>3, <1>5, <1>6, <1>8, Types
<1>. QED  BY <1>1, <1>2, <1>5, <1>7, <1>9, DoneCount

\* What a crash or a failed statement loses is one POST of a job, and one fault is counted.
LEMMA FaultCount ==
    ASSUME IInv, IInv', CInv, Alone', shared \subseteq shared',
           (\E r \in Runner : CallFails(r)) \/ Restart
    PROVE  CInv'
<1>1. /\ UNCHANGED <<now, job, posts, lastPost>> /\ faults' = faults + 1
      /\ \A q \in Runner : runner'[q] = runner[q] \/ runner'[q] = Idle
  BY Types DEF CallFails, Restart, Fault, history
<1>2. Idle.batch = {}
  BY DEF Idle
<1>3. HeldRows'
  BY <1>1, <1>2 DEF CInv, HeldRows
<1>4. Begun' /\ Past'
  BY <1>1, <1>2 DEF CInv, Begun, Past
<1>5. PostsAreCounted'
  BY <1>1, Types DEF CInv, PostsAreCounted
<1>6. Spaced'
  BY <1>1, Types DEF Spaced
<1>. QED  BY <1>3, <1>4, <1>5, <1>6 DEF CInv

LEMMA CountStep ==
    ASSUME IInv, CInv, [MCNext]_mcvars
    PROVE  CInv'
<1>1. CASE UNCHANGED mcvars
  <2>1. UNCHANGED <<job, runner, posts, lastPost, faults, now, shared>> /\ UNCHANGED vars
    BY <1>1 DEF mcvars, vars, history
  <2>2. Alone'
    BY <2>1 DEF CInv, Alone
  <2>3. IInv'
    BY <2>1, InvStep
  <2>. QED  BY <2>1, <2>2, <2>3, QuietCount, Types
<1>2. CASE MCNext
  <2>1. Next /\ Alone' /\ shared \subseteq shared' /\ IInv'
    BY <1>2, StaysAlone, InvStep DEF MCNext
  <2>2. CASE Tick \/ \E c \in Client : SetUrl(c)
    <3>1. UNCHANGED <<job, runner, posts, lastPost, faults>> /\ now <= now'
      BY <2>2, Types DEF Tick, SetUrl, history
    <3>. QED  BY <2>1, <3>1, QuietCount
  <2>3. ASSUME NEW r \in Runner, Deliver(r) PROVE CInv'
    BY <2>1, <2>3, PickCount, PostCount, DeliveredCount, FailureCount DEF Deliver
  <2>. QED  BY <2>1, <2>2, <2>3, EnqueueCount, AcceptCount, FaultCount DEF Next
<1>. QED  BY <1>1, <1>2

LEMMA Counted == MCSpec => [](IInv /\ CInv)
<1>1. MCInit => IInv /\ CInv
  BY InvInit, CountInit DEF MCInit
<1>2. IInv /\ CInv /\ [MCNext]_mcvars => (IInv /\ CInv)'
  <2>1. [MCNext]_mcvars => [Next]_vars
    BY DEF MCNext, mcvars
  <2>. QED  BY <2>1, InvStep, CountStep
<1>. QED  BY <1>1, <1>2, PTL DEF MCSpec

\* While no two calls have held a job at once, the row of the job knows of every POST but
\* the one in hand and those a fault has lost.
THEOREM EveryPostCounted == MCSpec => []PostsAreCounted
<1>1. CInv => PostsAreCounted
  BY DEF CInv
<1>. QED  BY <1>1, Counted, PTL

\* While no two calls have held a job at once and nothing has failed, each POST of it waits
\* for the backoff of the attempts before it, counted from the last one.
THEOREM BackoffKept == MCSpec => RetriesBackOff
<1>. DEFINE Step == \A j \in Job \ shared :
                        faults = 0 /\ posts[j] > 0 /\ posts'[j] > posts[j] =>
                            now >= lastPost[j] + backoff(posts[j])
<1>1. ASSUME IInv, CInv, [MCNext]_mcvars PROVE Step
  <2>. SUFFICES ASSUME NEW j \in Job \ shared, faults = 0, posts[j] > 0, posts'[j] > posts[j]
                PROVE  now >= lastPost[j] + backoff(posts[j])
    OBVIOUS
  <2>1. PICK r \in Runner : Post(r, j)
    <3>1. ASSUME NEW r \in Runner, NEW i \in Job, Post(r, i) PROVE i = j
      BY <1>1, <3>1, Types DEF Post
    <3>2. posts' # posts
      BY <1>1, Types
    <3>. QED
      BY <1>1, <3>1, <3>2
      DEF MCNext, Next, mcvars, vars, history, Tick, enqueueWebhook, SetUrl, Deliver, Pick,
          DropJob, RecordDelivered, RecordFailure, Accept, CallFails, Restart
  <2>2. runner[r].pc = "loop" /\ j \in runner[r].batch
    BY <2>1 DEF Post
  <2>3. job[j].state = "queued" /\ job[j].nextAttemptAt <= now
    BY <1>1, <2>2 DEF CInv, HeldRows
  <2>4. \A q \in Runner : ~Posting(q, j)
    BY <1>1, <2>2, Types DEF CInv, Alone, Posting
  <2>5. lastPost[j] + backoff(posts[j]) <= job[j].nextAttemptAt
    BY <1>1, <2>3, <2>4 DEF CInv, Spaced
  <2>6. /\ lastPost[j] \in Nat /\ job[j].nextAttemptAt \in Int /\ now \in Nat
        /\ backoff(posts[j]) \in Int
    BY <1>1, Types, BackoffType
  <2>. QED  BY <2>3, <2>5, <2>6
<1>2. IInv /\ CInv /\ [MCNext]_mcvars => [Step]_vars
  BY <1>1
<1>. QED  BY <1>2, Counted, PTL DEF MCSpec, RetriesBackOff

=============================================================================
