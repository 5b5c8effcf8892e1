---------------------------- MODULE DeliveryQueue ----------------------------
(***************************************************************************)
(* delivery/queue.rs: the loop that posts assertions and revocations to the *)
(* sites.  A tick claims a batch of due jobs and delivers them one after    *)
(* the other; RETURNING promises no order, so the next job is any of the    *)
(* batch.  After a 200 or 202 for an assertion the worker locks the session *)
(* row ("locked"), commits ASSERTION_DELIVERED, sends the success Result    *)
(* ("send_result") and marks the job ("mark_delivered").                    *)
(***************************************************************************)
EXTENDS RelayDb

CONSTANTS
    MaxAttempts,     \* 8 in tick
    BatchLimit       \* 10 in tick

VARIABLES
    ws,              \* local state of the workers
    accepted,        \* ids of the jobs the site has accepted at least once
    successResults   \* Result messages with success = true sent

deliveryVars == <<ws, accepted, successResults>>

ASSUME DeliveryAssumption == MaxAttempts \in Nat \ {0} /\ BatchLimit \in Nat \ {0}

-----------------------------------------------------------------------------
\* A row that claim_due returned: its id and its attempts at that moment.
Claim == [id : Nat, attempts : Nat]

WorkerState ==
    [pc : {"idle", "deliver", "accepted", "locked", "send_result",
           "mark_delivered", "mark_failed"},
     batch : SUBSET Claim, job : Claim \cup {None}, row : Row \cup {None}]

ASSUME NoneDeliveryAssumption == None \notin Claim

\* The local state of a worker that is at a job, with the batch that is left.
Working(pc, batch, job) == [pc |-> pc, batch |-> batch, job |-> job, row |-> None]
IdleWorker == Working("idle", {}, None)

\* attempt tells the Results of two attempts at one job apart.
SuccessResult == [reg : Registrations, room : Rooms \cup {None}, sub : Subjects,
                  job : Nat, attempt : Nat]

DeliveryTypeOK ==
    /\ ws \in [Workers -> WorkerState]
    /\ accepted \subseteq DOMAIN jobs
    /\ successResults \subseteq SuccessResult

DeliveryInit ==
    /\ ws = [w \in Workers |-> IdleWorker]
    /\ accepted = {}
    /\ successResults = {}

\* The job worker w is at, as claimed and as stored.
CurrentId(w) == ws[w].job.id
Current(w) == jobs[CurrentId(w)]

\* The for loop of tick goes on with the rest of the batch.
Continue(batch) ==
    IF batch = {} THEN IdleWorker ELSE Working("deliver", batch, None)

\* Mutant: the retries end one attempt early.
GivesUpEarly(c) == c.attempts >= MaxAttempts - 1

Exhausted(c) == c.attempts >= MaxAttempts

\* deliver returned Err for claim c: give up, or leave the job pending.
DeliverErr(c, batch) ==
    IF Exhausted(c)
    THEN Working("mark_failed", batch, c)
    ELSE Continue(batch)

-----------------------------------------------------------------------------
(* tick *)

\* Rows that a statement of another loop may have locked at this moment: an idle
\* loop may be inside its own claim_due, which commits later or is rolled back.
LockedByOthers(w) ==
    {j \in DueJobs : \E v \in Workers \ {w} :
        \/ ws[v].pc = "idle"
        \/ ws[v].pc \in {"mark_delivered", "mark_failed"} /\ CurrentId(v) = j}

\* claim_due passes over the rows that are locked (SKIP LOCKED).
ClaimRows(w, S) ==
    /\ ws[w].pc = "idle"
    /\ S # {}
    /\ jobs' = claim_due(S)
    /\ ws' = [ws EXCEPT ![w] =
                Continue({[id |-> j, attempts |-> jobs[j].attempts + 1] : j \in S})]
    /\ UNCHANGED <<sessions, locks, requestEvents, consentEvents, challengeHashes, grants,
                   accepted, successResults>>

ClaimDue(w) ==
    \E skipped \in SUBSET LockedByOthers(w) :
        ClaimRows(w, ClaimSet(DueJobs \ skipped, BatchLimit))

(* deliver, up to the answer of the site *)

AfterPost(c) ==
    IF jobs[c.id].kind = "assertion" THEN "accepted" ELSE "mark_delivered"

\* The site accepts the job and the answer, 202 or 200, arrives.
PostAccepted(w, c) ==
    /\ ws[w].pc = "deliver"
    /\ c \in ws[w].batch
    /\ accepted' = accepted \cup {c.id}
    /\ ws' = [ws EXCEPT ![w] = Working(AfterPost(c), ws[w].batch \ {c}, c)]
    /\ UNCHANGED <<dbVars, successResults>>

\* Mutant: the status of the answer is not looked at.
StatusUnchecked(w, c) ==
    /\ ws[w].pc = "deliver"
    /\ c \in ws[w].batch
    /\ ws' = [ws EXCEPT ![w] = Working(AfterPost(c), ws[w].batch \ {c}, c)]
    /\ UNCHANGED <<dbVars, accepted, successResults>>

\* No answer, another status, or an unusable one.  The site may have accepted
\* the job all the same.
PostFails(w, c) ==
    /\ ws[w].pc = "deliver"
    /\ c \in ws[w].batch
    /\ \/ UNCHANGED accepted
       \/ accepted' = accepted \cup {c.id}
    /\ ws' = [ws EXCEPT ![w] = DeliverErr(c, ws[w].batch \ {c})]
    /\ UNCHANGED <<dbVars, successResults>>

-----------------------------------------------------------------------------
(* after_assertion_accepted *)

\* get_matching finds the row: it was there when the job was enqueued, with a
\* room, and neither ever goes away.
LockAccepted(w, r) ==
    /\ ws[w].pc = "accepted"
    /\ r = Current(w).reg
    /\ RowLockFree(r)
    /\ Lock(w, r)
    /\ ws' = [ws EXCEPT ![w] = [@ EXCEPT !.pc = "locked", !.row = sessions[r]]]
    /\ UNCHANGED <<sessions, requestEvents, consentEvents, challengeHashes, grants, jobs,
                   accepted, successResults>>

\* cas_update whatever the state of the session; its result is not looked at.
CommitDelivered(w) ==
    LET r == Current(w).reg IN
    /\ ws[w].pc = "locked"
    /\ sessions' = cas_state(r, ws[w].row.version, "ASSERTION_DELIVERED")
    /\ Unlock(r)
    /\ ws' = [ws EXCEPT ![w] = [@ EXCEPT !.pc = "send_result"]]
    /\ UNCHANGED <<requestEvents, consentEvents, challengeHashes, grants, jobs,
                   accepted, successResults>>

\* The pool, a statement or the commit fails.
AcceptedDbError(w) ==
    /\ ws[w].pc \in {"accepted", "locked"}
    /\ locks' = IF ws[w].pc = "locked" THEN [locks EXCEPT ![Current(w).reg] = None] ELSE locks
    /\ ws' = [ws EXCEPT ![w] = DeliverErr(ws[w].job, ws[w].batch)]
    /\ UNCHANGED <<sessions, requestEvents, consentEvents, challengeHashes, grants, jobs,
                   accepted, successResults>>

\* send_success_result, to the room stored with the request
ResultOf(w) ==
    [reg |-> Current(w).reg, room |-> ws[w].row.room, sub |-> Current(w).sub,
     job |-> CurrentId(w), attempt |-> ws[w].job.attempts]

SendResult(w) ==
    /\ ws[w].pc = "send_result"
    /\ successResults' = successResults \cup {ResultOf(w)}
    /\ ws' = [ws EXCEPT ![w] = Working("mark_delivered", ws[w].batch, ws[w].job)]
    /\ UNCHANGED <<dbVars, accepted>>

\* The send returns an error, whether or not the Result went out.  It is an error
\* of the delivery: the job is posted again, or given up.
ResultFails(w) ==
    /\ ws[w].pc = "send_result"
    /\ \/ UNCHANGED successResults
       \/ successResults' = successResults \cup {ResultOf(w)}
    /\ ws' = [ws EXCEPT ![w] = DeliverErr(ws[w].job, ws[w].batch)]
    /\ UNCHANGED <<dbVars, accepted>>

-----------------------------------------------------------------------------
(* the end of a job in tick *)

MarkDelivered(w) ==
    /\ ws[w].pc = "mark_delivered"
    /\ jobs' = mark_delivered(CurrentId(w))
    /\ ws' = [ws EXCEPT ![w] = Continue(ws[w].batch)]
    /\ UNCHANGED <<sessions, locks, requestEvents, consentEvents, challengeHashes, grants,
                   accepted, successResults>>

MarkFailed(w) ==
    /\ ws[w].pc = "mark_failed"
    /\ jobs' = mark_failed(CurrentId(w))
    /\ ws' = [ws EXCEPT ![w] = Continue(ws[w].batch)]
    /\ UNCHANGED <<sessions, locks, requestEvents, consentEvents, challengeHashes, grants,
                   accepted, successResults>>

\* mark_delivered or mark_failed fails: the ? ends the tick, and the jobs left
\* in the batch wait for their next claim.
MarkFails(w) ==
    /\ ws[w].pc \in {"mark_delivered", "mark_failed"}
    /\ ws' = [ws EXCEPT ![w] = IdleWorker]
    /\ UNCHANGED <<dbVars, accepted, successResults>>

WorkerStep(w) ==
    \/ ClaimDue(w)
    \/ \E c \in ws[w].batch : PostAccepted(w, c) \/ PostFails(w, c)
    \/ \E r \in Registrations : LockAccepted(w, r)
    \/ CommitDelivered(w)
    \/ AcceptedDbError(w)
    \/ SendResult(w)
    \/ ResultFails(w)
    \/ MarkDelivered(w)
    \/ MarkFailed(w)
=============================================================================
