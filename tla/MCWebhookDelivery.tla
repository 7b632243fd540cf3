------------------------- MODULE MCWebhookDelivery -------------------------
(***************************************************************************)
(* WebhookDelivery for TLC: one merchant, three attempts, the 5 s of the   *)
(* backoff as the clock's unit, and a history of which jobs two calls have *)
(* held at once.  What the queue promises of a job that only one call at a *)
(* time has held is stated with it.                                        *)
(***************************************************************************)
EXTENDS WebhookDelivery

CONSTANTS j1, c1, r1, r2

VARIABLE shared     \* jobs that have been in two batches at once

MCClientId == [j \in Job |-> c1]

SharedNow == {j \in Job : \E q, r \in Runner :
                             q # r /\ j \in runner[q].batch \cap runner[r].batch}

MCInit == Init /\ shared = {}
MCNext == Next /\ shared' = shared \cup SharedNow'
mcvars == <<vars, shared>>

\* The fairness is WebhookDelivery's.
MCSpec ==
    /\ MCInit /\ [][MCNext]_mcvars
    /\ WF_vars(Tick) /\ \A r \in Runner : WF_vars(Deliver(r))

\* While no two calls have held a job at once, every POST of it but the one in hand is
\* counted in its row, unless a fault lost the count.
PostsAreCounted ==
    \A j \in Job \ shared :
        posts[j] <= job[j].attempts + faults
                    + (IF job[j].state = "delivered" \/ \E r \in Runner : Posting(r, j)
                       THEN 1 ELSE 0)

\* While no two calls have held a job at once and nothing has failed, a POST of it
\* follows the one before it by the backoff of the attempts made so far.
RetriesBackOff ==
    [][\A j \in Job \ shared :
        faults = 0 /\ posts[j] > 0 /\ posts'[j] > posts[j] =>
            now >= lastPost[j] + backoff(posts[j])]_vars

=============================================================================
