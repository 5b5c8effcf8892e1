------------------------- MODULE RelayDeliveryProofs -------------------------
(***************************************************************************)
(* The delivery: jobs are settled truthfully, a Result is true, an          *)
(* assertion stays within its windows, and the grants agree with what the   *)
(* sites are told.  DInv is inductive relative to IInv.                     *)
(***************************************************************************)
EXTENDS RelayConsentProofs

-----------------------------------------------------------------------------
(* What a step may do to the jobs *)

\* A job keeps what it was enqueued with.
JobKept(j) ==
    /\ j \in DOMAIN jobs'
    /\ jobs'[j].kind = jobs[j].kind /\ jobs'[j].reg = jobs[j].reg
    /\ jobs'[j].sub = jobs[j].sub /\ jobs'[j].event = jobs[j].event
    /\ jobs'[j].iat = jobs[j].iat /\ jobs'[j].exp = jobs[j].exp

\* Nothing but due may change, and only to TRUE.
JobsRetried ==
    /\ DOMAIN jobs' = DOMAIN jobs
    /\ \A j \in DOMAIN jobs :
          /\ JobKept(j)
          /\ jobs'[j].attempts = jobs[j].attempts /\ jobs'[j].status = jobs[j].status
          /\ jobs'[j].due = jobs[j].due \/ jobs'[j].due = TRUE

\* claim_due with the jobs S.
JobsClaimed(S) ==
    /\ S \subseteq DOMAIN jobs
    /\ DOMAIN jobs' = DOMAIN jobs
    /\ \A j \in DOMAIN jobs :
          /\ JobKept(j) /\ jobs'[j].status = jobs[j].status
          /\ j \in S => jobs'[j].attempts = jobs[j].attempts + 1
          /\ j \notin S => jobs'[j] = jobs[j]

\* mark_delivered or mark_failed with job id.
JobMarked(id, status) ==
    /\ id \in DOMAIN jobs
    /\ DOMAIN jobs' = DOMAIN jobs
    /\ \A j \in DOMAIN jobs :
          /\ JobKept(j)
          /\ jobs'[j].attempts = jobs[j].attempts
          /\ jobs'[j].due = jobs[j].due
    /\ jobs'[id].status = status
    /\ \A j \in DOMAIN jobs : j # id => jobs'[j] = jobs[j]

\* enqueue with this job.
JobEnqueued(job) ==
    /\ job \in Job
    /\ DOMAIN jobs' = DOMAIN jobs \cup {Len(jobs) + 1}
    /\ \A j \in DOMAIN jobs : j < Len(jobs) + 1 /\ jobs'[j] = jobs[j]
    /\ Len(jobs) + 1 \notin DOMAIN jobs
    /\ jobs'[Len(jobs) + 1] = job

\* The fields of a job that is typed.
LEMMA JobFields ==
    ASSUME jobs \in Seq(Job), NEW j \in DOMAIN jobs
    PROVE  /\ jobs[j] \in Job
           /\ jobs[j].attempts \in Nat /\ jobs[j].due \in BOOLEAN
           /\ jobs[j].status \in {"pending", "delivered", "failed"}
           /\ jobs[j].kind \in {"assertion", "revocation"}
           /\ jobs[j].reg \in Registrations /\ jobs[j].sub \in Subjects
           /\ jobs[j].event \in EventIds /\ jobs[j].iat \in Int /\ jobs[j].exp \in Int
           /\ j \in Nat
  <1>1. jobs[j] \in Job /\ j \in Nat
    BY JobTyped
  <1> QED
    BY <1>1 DEF Job

\* A lease that ends sets due.
LEMMA RetryFacts ==
    ASSUME jobs \in Seq(Job), NEW id \in DOMAIN jobs, RetryTime(id)
    PROVE  JobsRetried
  <1>1. jobs' = [jobs EXCEPT ![id] = [jobs[id] EXCEPT !.due = TRUE]]
    BY DEF RetryTime, RetryTimeReached
  <1>2. DOMAIN jobs' = DOMAIN jobs /\ \A j \in DOMAIN jobs : j # id => jobs'[j] = jobs[j]
    BY <1>1
  <1>3. jobs[id] \in Job /\ jobs'[id] = [jobs[id] EXCEPT !.due = TRUE]
    BY <1>1, JobFields
  <1>4. /\ JobKept(id) /\ jobs'[id].attempts = jobs[id].attempts
        /\ jobs'[id].status = jobs[id].status /\ jobs'[id].due = TRUE
    BY <1>2, <1>3 DEF Job, JobKept
  <1> QED
    BY <1>2, <1>4 DEF JobsRetried, JobKept

\* claim_due counts an attempt of each job it claims.
LEMMA ClaimFacts ==
    ASSUME jobs \in Seq(Job), NEW w \in Workers, NEW S \in SUBSET DueJobs, ClaimRows(w, S)
    PROVE  JobsClaimed(S)
  <1>1. S \subseteq DOMAIN jobs /\ jobs' = claim_due(S)
    BY DEF ClaimRows, DueJobs
  <1>2. DOMAIN jobs' = DOMAIN jobs /\ \A j \in DOMAIN jobs : j \notin S => jobs'[j] = jobs[j]
    BY <1>1, Zenon DEF claim_due
  <1>3. ASSUME NEW j \in DOMAIN jobs, j \in S
        PROVE  /\ JobKept(j) /\ jobs'[j].status = jobs[j].status
               /\ jobs'[j].attempts = jobs[j].attempts + 1
    <2>1. jobs[j] \in Job
      BY JobFields
    <2>2. PICK n : n = jobs[j].attempts + 1
      OBVIOUS
    <2>3. jobs'[j] = [jobs[j] EXCEPT !.attempts = n, !.due = FALSE]
      BY <1>1, <1>3, <2>2, Zenon DEF claim_due
    <2> QED
      BY <1>2, <2>1, <2>2, <2>3 DEF Job, JobKept
  <1> QED
    BY <1>1, <1>2, <1>3 DEF JobsClaimed, JobKept

\* mark_delivered and mark_failed set the status of one job.
LEMMA MarkFacts ==
    ASSUME jobs \in Seq(Job), NEW id \in DOMAIN jobs
    PROVE  /\ jobs' = mark_delivered(id) => JobMarked(id, "delivered")
           /\ jobs' = mark_failed(id) => JobMarked(id, "failed")
  <1>0. jobs[id] \in Job
    BY JobFields
  <1>1. ASSUME NEW s, jobs' = [jobs EXCEPT ![id] = [jobs[id] EXCEPT !.status = s]]
        PROVE  JobMarked(id, s)
    <2>1. DOMAIN jobs' = DOMAIN jobs /\ \A j \in DOMAIN jobs : j # id => jobs'[j] = jobs[j]
      BY <1>1
    <2>2. jobs'[id] = [jobs[id] EXCEPT !.status = s]
      BY <1>1
    <2>3. /\ JobKept(id) /\ jobs'[id].attempts = jobs[id].attempts
          /\ jobs'[id].due = jobs[id].due /\ jobs'[id].status = s
      BY <1>0, <2>1, <2>2 DEF Job, JobKept
    <2> QED
      BY <2>1, <2>3 DEF JobMarked, JobKept
  <1> QED
    BY <1>1 DEF mark_delivered, mark_failed

\* enqueue appends one job.
LEMMA EnqueueFacts ==
    ASSUME jobs \in Seq(Job), NEW job \in Job, jobs' = enqueue(job)
    PROVE  JobEnqueued(job)
  <1>1. /\ DOMAIN jobs' = 1 .. Len(jobs) + 1 /\ jobs'[Len(jobs) + 1] = job
        /\ \A j \in DOMAIN jobs : jobs'[j] = jobs[j]
    BY EnqueueTyped
  <1>2. PICK n \in Nat : n = Len(jobs) /\ DOMAIN jobs = 1 .. n
    OBVIOUS
  <1>3. /\ 1 .. n + 1 = (1 .. n) \cup {n + 1} /\ n + 1 \notin 1 .. n
        /\ \A j \in 1 .. n : j < n + 1
    OBVIOUS
  <1> QED
    BY <1>1, <1>2, <1>3 DEF JobEnqueued

\* A job that was never tried.
Fresh(job) == job.attempts = 0 /\ job.due = TRUE /\ job.status = "pending"

\* What the commit of an approval enqueues.
LEMMA ApproveFacts ==
    ASSUME StateOK, NEW h \in Handlers, ApproveConsent(h)
    PROVE  \E job \in Job :
              /\ JobEnqueued(job) /\ Fresh(job)
              /\ job.kind = "assertion" /\ job.reg = hs[h].reg /\ job.event = hs[h].event
              /\ job.sub = derive_pairwise_sub(hs[h].reg.domain, Msg(h).sender)
              /\ job.iat = hs[h].now
              /\ job.exp = assertion_expires_at(hs[h].reg.exp, hs[h].now)
              /\ grants' = [grants EXCEPT ![job.sub] = "active"]
  <1> DEFINE r == hs[h].reg
             sub == derive_pairwise_sub(r.domain, Msg(h).sender)
             exp == assertion_expires_at(r.exp, hs[h].now)
             job == NewJob("assertion", r, sub, hs[h].event, hs[h].now, exp)
  <1>1. jobs \in Seq(Job) /\ hs[h].pc = "locked"
    BY DEF StateOK, TypeOK, DbTypeOK, ApproveConsent, AcceptConsent, InTx
  <1>2. /\ r \in Registrations /\ r \in Registration
        /\ hs[h].event \in EventIds /\ hs[h].now \in Int /\ Msg(h) \in Message
    BY <1>1, InsideTx
  <1>3. sub \in Subjects
    BY <1>2 DEF Subjects, derive_pairwise_sub, Registration, Message
  <1>4. exp \in Int
    BY <1>2, TimeAssumption DEF assertion_expires_at, min, Registration
  <1>5. jobs' = enqueue(job) /\ grants' = [grants EXCEPT ![sub] = "active"]
    BY DEF ApproveConsent, upsert_grant
  <1> HIDE DEF sub, exp
  <1>6. job \in Job
    BY <1>2, <1>3, <1>4 DEF NewJob, Job
  <1>7. /\ Fresh(job) /\ job.kind = "assertion" /\ job.reg = r /\ job.sub = sub
        /\ job.event = hs[h].event /\ job.iat = hs[h].now /\ job.exp = exp
    BY DEF NewJob, Fresh
  <1> HIDE DEF job
  <1>8. JobEnqueued(job)
    BY <1>1, <1>5, <1>6, EnqueueFacts
  <1> QED
    BY <1>5, <1>6, <1>7, <1>8, Zenon DEF sub, exp

\* What the commit of a revocation enqueues.
LEMMA RevokeFacts ==
    ASSUME StateOK, NEW h \in Handlers, RevokeGrant(h)
    PROVE  \E job \in Job :
              /\ JobEnqueued(job) /\ Fresh(job)
              /\ job.kind = "revocation" /\ job.reg = hs[h].reg /\ job.event = hs[h].event
              /\ job.sub = Msg(h).sub
              /\ grants' = [grants EXCEPT ![job.sub] = "revoked"]
  <1> DEFINE job == NewJob("revocation", hs[h].reg, Msg(h).sub, hs[h].event, now, now)
  <1>1. jobs \in Seq(Job) /\ hs[h].pc = "locked" /\ now \in Nat
    BY DEF StateOK, TypeOK, DbTypeOK, RevokeGrant, InTx
  <1>2. hs[h].reg \in Registrations /\ hs[h].event \in EventIds /\ Msg(h) \in Message
    BY <1>1, InsideTx
  <1>3. Msg(h).sub \in Subjects
    <2> HIDE DEF job
    <2> QED
      BY <1>2 DEF Message
  <1>4. jobs' = enqueue(job) /\ grants' = [grants EXCEPT ![Msg(h).sub] = "revoked"]
    BY DEF RevokeGrant, mark_revoked
  <1>5. job \in Job
    BY <1>1, <1>2, <1>3 DEF NewJob, Job
  <1>6. /\ Fresh(job) /\ job.kind = "revocation" /\ job.reg = hs[h].reg
        /\ job.sub = Msg(h).sub /\ job.event = hs[h].event
    BY DEF NewJob, Fresh
  <1> HIDE DEF job
  <1>7. JobEnqueued(job)
    BY <1>1, <1>4, <1>5, EnqueueFacts
  <1> QED
    BY <1>4, <1>5, <1>6, <1>7, Zenon

\* The steps that touch the jobs.
LEMMA JobsStep ==
    ASSUME StateOK, [Next]_vars
    PROVE  \/ JobsRetried /\ UNCHANGED <<grants, ws, accepted, successResults>>
           \/ UNCHANGED <<jobs, grants>>
           \/ \E w \in Workers : Deliver(w) /\ ClaimDue(w) /\ UNCHANGED grants
           \/ \E w \in Workers :
                 Deliver(w) /\ (MarkDelivered(w) \/ MarkFailed(w)) /\ UNCHANGED grants
           \/ \E h \in Handlers : Handle(h) /\ (ApproveConsent(h) \/ RevokeGrant(h))
  <1>0. jobs \in Seq(Job)
    BY DEF StateOK, TypeOK, DbTypeOK
  <1>1. ASSUME NEW h \in Handlers, Handle(h), ~ApproveConsent(h), ~RevokeGrant(h)
        PROVE  UNCHANGED <<jobs, grants>>
    BY <1>1, Zenon
       DEF Handle, HandlerStep, SelectFails, DbError, IssueChallenge, RejectExpiredConsent,
                RefuseConsent, IgnoreRequest, IgnoreConsent, IgnoreRevocation, LeaveTx,
                SendChallenge, SendFailure, NoticeFails, SelectForUpdate, dbVars
  <1>2. ASSUME \/ UNCHANGED vars \/ ClockTick \/ Crash
               \/ \E r \in Registrations : Register(r)
               \/ \E h \in Handlers, e \in EventIds, m \in Messages : Receive(h, e, m)
        PROVE  UNCHANGED <<jobs, grants>>
    BY <1>2 DEF vars, dbVars, ClockTick, Crash, Register, RegistrationStep,
                ValidateRegistration, InsertRegistration, RegistrationFails, Receive,
                HandleInbound
  <1>3. ASSUME NEW j \in DOMAIN jobs, RetryTime(j)
        PROVE  JobsRetried /\ UNCHANGED <<grants, ws, accepted, successResults>>
    BY <1>0, <1>3, RetryFacts, Zenon DEF RetryTime, RetryTimeReached, deliveryVars
  <1>4. ASSUME NEW w \in Workers, Deliver(w) \/ AbortTick(w)
        PROVE  /\ UNCHANGED grants
               /\ \/ UNCHANGED jobs
                  \/ Deliver(w) /\ (ClaimDue(w) \/ MarkDelivered(w) \/ MarkFailed(w))
    BY <1>4, Zenon
       DEF Deliver, AbortTick, WorkerStep, ClaimDue, ClaimRows, PostAccepted, PostFails,
           LockAccepted, CommitDelivered, AcceptedDbError, SendResult, ResultFails,
           MarkDelivered, MarkFailed, MarkFails, dbVars
  <1> QED
    BY <1>1, <1>2, <1>3, <1>4 DEF Next

\* Every step keeps every job.
LEMMA JobsAllKept ==
    ASSUME StateOK, [Next]_vars
    PROVE  \A j \in DOMAIN jobs : JobKept(j) /\ jobs'[j].attempts >= jobs[j].attempts
  <1>0. jobs \in Seq(Job) /\ \A j \in DOMAIN jobs : jobs[j].attempts \in Nat
    BY JobFields DEF StateOK, TypeOK, DbTypeOK
  <1>1. CASE JobsRetried
    BY <1>0, <1>1 DEF JobsRetried
  <1>2. CASE UNCHANGED jobs
    BY <1>0, <1>2 DEF JobKept
  <1>3. ASSUME NEW w \in Workers, ClaimDue(w)
        PROVE  \A j \in DOMAIN jobs : JobKept(j) /\ jobs'[j].attempts >= jobs[j].attempts
    <2>1. PICK S \in SUBSET DueJobs : JobsClaimed(S)
      BY <1>0, <1>3, ClaimsDueJobs, ClaimFacts
    <2> QED
      BY <1>0, <2>1 DEF JobsClaimed
  <1>4. ASSUME NEW w \in Workers, MarkDelivered(w) \/ MarkFailed(w)
        PROVE  \A j \in DOMAIN jobs : JobKept(j) /\ jobs'[j].attempts >= jobs[j].attempts
    <2>1. CurrentId(w) \in DOMAIN jobs
      BY <1>4, AtJob DEF MarkDelivered, MarkFailed
    <2>2. \E s : JobMarked(CurrentId(w), s)
      BY <1>0, <1>4, <2>1, MarkFacts DEF MarkDelivered, MarkFailed
    <2> QED
      BY <1>0, <2>2 DEF JobMarked
  <1>5. ASSUME NEW h \in Handlers, ApproveConsent(h) \/ RevokeGrant(h)
        PROVE  \A j \in DOMAIN jobs : JobKept(j) /\ jobs'[j].attempts >= jobs[j].attempts
    <2>1. \E job : JobEnqueued(job)
      BY <1>5, ApproveFacts, RevokeFacts
    <2> QED
      BY <1>0, <2>1 DEF JobEnqueued, JobKept
  <1> QED
    BY <1>1, <1>2, <1>3, <1>4, <1>5, JobsStep

-----------------------------------------------------------------------------
(* Windows, rooms and accounts of the assertions *)

\* A challenge ends with its session.
LEMMA ChallengeEndsStep ==
    ASSUME StateOK, RowLockGuardsSnapshot, ChallengeEnds, [Next]_vars
    PROVE  ChallengeEnds'
  <1>1. CASE BindingsKept
    BY <1>1 DEF ChallengeEnds, BindingsKept, BindingKept
  <1>2. ASSUME NEW h \in Handlers, IssueChallenge(h), Binds(h)
        PROVE  ChallengeEnds'
    <2>1. hs[h].pc = "locked"
      BY <1>2 DEF IssueChallenge, InTx
    <2>2. PICK r \in Registrations : r = hs[h].reg /\ r \in Registration /\ hs[h].now \in Int
      BY <2>1, InsideTx
    <2>3. r.exp \in Int /\ challenge_expires_at(hs[h].now, r.exp) <= r.exp
      BY <2>2, TimeAssumption DEF Registration, challenge_expires_at, min
    <2>4. /\ sessions'[r].challenge_exp <= r.exp
          /\ \A q \in Registrations : q # r => sessions'[q] = sessions[q]
      BY <1>2, <2>2, <2>3 DEF Binds
    <2> QED
      BY <2>4 DEF ChallengeEnds, SessionBound
  <1> QED
    BY <1>1, <1>2, BindingStep

\* A phone quotes a challenge only after it was sent, and notices stay sent.
LEMMA ConsentsAskedStep ==
    ASSUME StateOK, EventsOK, ConsentsAsked, [Next]_vars
    PROVE  ConsentsAsked' /\ challengeNotices \subseteq challengeNotices'
  <1>1. ASSUME NEW h \in Handlers, NEW e \in EventIds, NEW m \in Messages, Receive(h, e, m)
        PROVE  ConsentsAsked' /\ UNCHANGED challengeNotices
    <2>1. /\ timeline' = [timeline EXCEPT ![e] = m] /\ UNCHANGED challengeNotices
          /\ m.kind = "consent" => \E n \in challengeNotices : n.challenge = m.challenge
          /\ timeline \in [EventIds -> Messages \cup {None}]
      BY <1>1 DEF Receive, HandleInbound, KnownToSender, StateOK, TypeOK, LoginTypeOK
    <2>2. timeline'[e] = m /\ \A f \in EventIds : f # e => timeline'[f] = timeline[f]
      BY <2>1
    <2> QED
      BY <2>1, <2>2 DEF ConsentsAsked
  <1>2. CASE UNCHANGED timeline /\ challengeNotices \subseteq challengeNotices'
    BY <1>2 DEF ConsentsAsked
  <1>3. ASSUME NEW h \in Handlers, Handle(h)
        PROVE  UNCHANGED timeline /\ challengeNotices \subseteq challengeNotices'
    BY <1>3, Zenon
       DEF Handle, HandlerStep, SelectFails, DbError, IssueChallenge, RejectExpiredConsent,
                RefuseConsent, ApproveConsent, AcceptConsent, RevokeGrant, IgnoreRequest,
                IgnoreConsent, IgnoreRevocation, LeaveTx, SendChallenge, SendFailure,
                NoticeFails, SelectForUpdate
  <1> QED
    BY <1>1, <1>2, <1>3, OutsideEvents DEF Next

\* An assertion stays bound when bindings, messages and jobs stay.
LEMMA StaysBound ==
    ASSUME StateOK, EventsOK, BindingStays, EventTablesGrow, AssertionsFollowConsent,
           NEW j \in Assertions, AssertionBound(j), JobKept(j)
    PROVE  AssertionBound(j)'
  <1>1. j \in DOMAIN jobs /\ jobs[j].event \in consentEvents /\ jobs \in Seq(Job)
    BY DEF Assertions, AssertionsFollowConsent, ConsentBehind, StateOK, TypeOK, DbTypeOK
  <1>2. jobs[j].reg \in Registrations /\ jobs[j].event \in EventIds
    BY <1>1, JobFields
  <1>3. timeline'[jobs[j].event] = timeline[jobs[j].event]
    BY <1>1, <1>2 DEF EventsOK, EventTablesGrow, TimelineStays
  <1>4. PICK r \in Registrations, e \in EventIds : r = jobs[j].reg /\ e = jobs[j].event
    BY <1>2
  <1>5. /\ sessions'[r] # None /\ sessions'[r].challenge = sessions[r].challenge
        /\ sessions'[r].challenge_exp = sessions[r].challenge_exp
        /\ sessions'[r].sender = sessions[r].sender /\ sessions'[r].room = sessions[r].room
        /\ sessions[r].challenge # None
    BY <1>4 DEF AssertionBound, SessionBound, BindingStays
  <1>6. /\ jobs'[j].reg = r /\ jobs'[j].event = e /\ jobs'[j].iat = jobs[j].iat
        /\ jobs'[j].exp = jobs[j].exp /\ timeline'[e] = timeline[e]
    BY <1>3, <1>4 DEF JobKept
  <1> QED
    BY <1>4, <1>5, <1>6 DEF AssertionBound, SessionBound

\* The commit of an approval enqueues an assertion that is bound.
LEMMA ApprovalBound ==
    ASSUME StateOK, RowLockGuardsSnapshot, BindingOK, BoundByRequest, EventsOK, ChallengeEnds,
           NEW h \in Handlers, Handle(h), ApproveConsent(h)
    PROVE  \A j : j = Len(jobs) + 1 => AssertionBound(j)'
  <1>1. /\ hs[h].pc = "locked" /\ ~ConsentExpired(h) /\ ConsentMatches(h)
        /\ UNCHANGED timeline /\ UNCHANGED <<registering, deliveryVars, faults>>
    BY DEF ApproveConsent, AcceptConsent, InTx, Handle
  <1>2. PICK r \in Registrations, e \in EventIds, t \in Int :
             /\ r = hs[h].reg /\ e = hs[h].event /\ t = hs[h].now /\ r \in Registration
             /\ sessions[r] # None /\ Msg(h) = timeline[e] /\ Msg(h) \in Message
    BY <1>1, InsideTx
  <1>3. sessions[r] = hs[h].row /\ sessions[r] \in Row
    BY <1>1, <1>2, InsideTx DEF RowLockGuardsSnapshot, HandlerHolds
  <1>4. /\ timeline[e].challenge = sessions[r].challenge
        /\ timeline[e].sender = sessions[r].sender
        /\ timeline[e].room = sessions[r].room
    BY <1>1, <1>2, <1>3 DEF ConsentMatches
  <1>5. SessionBound(r)
    <2>1. timeline[e].challenge \in Nat
      BY <1>2 DEF Message
    <2> QED
      BY <1>2, <1>4, <2>1, NoneAssumption DEF SessionBound
  <1>6. sessions[r].challenge_exp # None /\ sessions[r].challenge_exp <= r.exp
    BY <1>5 DEF BindingOK, ChallengeEnds
  <1>7. sessions[r].challenge_exp \in Int /\ r.exp \in Int
    BY <1>2, <1>3, <1>6 DEF Row, Registration
  <1>8. t <= r.exp /\ t <= sessions[r].challenge_exp
    BY <1>1, <1>2, <1>3, <1>6, <1>7 DEF ConsentExpired
  <1>9. PICK x : x = assertion_expires_at(r.exp, t)
    OBVIOUS
  <1>10. t <= x /\ x <= r.exp /\ x <= t + MAX_TTL_MS
    BY <1>7, <1>8, <1>9, TimeAssumption DEF assertion_expires_at, min
  <1>11. BindingKept(r) /\ OnlyRowChanges(r)
    BY <1>1, <1>2, ApproveConsentTyped
  <1>12. PICK job \in Job : /\ jobs'[Len(jobs) + 1] = job /\ job.reg = r /\ job.event = e
                            /\ job.iat = t /\ job.exp = x
    BY <1>2, <1>9, ApproveFacts DEF JobEnqueued
  <1>13. ASSUME NEW j, j = Len(jobs) + 1
         PROVE  AssertionBound(j)'
    <2>1. SessionBound(r)' /\ sessions'[r].challenge_exp = sessions[r].challenge_exp
          /\ sessions'[r].room = sessions[r].room /\ sessions'[r].sender = sessions[r].sender
      BY <1>5, <1>11 DEF SessionBound, BindingKept, OnlyRowChanges
    <2>2. /\ jobs'[j].reg = r /\ jobs'[j].event = e /\ jobs'[j].iat = t /\ jobs'[j].exp = x
          /\ timeline'[e] = timeline[e]
      BY <1>1, <1>12, <1>13
    <2> QED
      BY <1>4, <1>8, <1>10, <2>1, <2>2 DEF AssertionBound, SessionBound
  <1> QED
    BY <1>13

\* Every assertion is bound.
LEMMA AssertionsBoundStep ==
    ASSUME IInv, ChallengeEnds, AssertionsBound, [Next]_vars
    PROVE  AssertionsBound'
  <1>1. /\ StateOK /\ RowLockGuardsSnapshot /\ BindingOK /\ BoundByRequest /\ EventsOK
        /\ AssertionsFollowConsent
    BY DEF IInv
  <1>2. BindingStays /\ EventTablesGrow
    BY <1>1, BindingStaysStep, EventsStep
  <1>3. \A j \in Assertions : AssertionBound(j)'
    BY <1>1, <1>2, JobsAllKept, StaysBound DEF Assertions, AssertionsBound
  <1>4. CASE AssertionsKept
    BY <1>3, <1>4 DEF AssertionsKept, AssertionsBound
  <1>5. ASSUME NEW h \in Handlers, Handle(h), ApproveConsent(h)
        PROVE  AssertionsBound'
    <2>1. Assertions' = Assertions \cup {Len(jobs) + 1}
      BY <1>1, <1>5, ApprovalBehind
    <2>2. \A j : j = Len(jobs) + 1 => AssertionBound(j)'
      BY <1>1, <1>5, ApprovalBound
    <2> QED
      BY <1>3, <2>1, <2>2 DEF AssertionsBound
  <1> QED
    BY <1>1, <1>4, <1>5, AssertionStep

-----------------------------------------------------------------------------
(* What a worker knows of its job *)

\* What sites accepted stays accepted, and Results stay sent.
DeliveryGrows == accepted \subseteq accepted' /\ successResults \subseteq successResults'

\* A claim stays counted, since attempts only grow.
LEMMA StaysCounted ==
    ASSUME StateOK, StateOK', NEW c \in Claim, c.id \in DOMAIN jobs, Counted(c),
           \A j \in DOMAIN jobs : JobKept(j) /\ jobs'[j].attempts >= jobs[j].attempts
    PROVE  Counted(c)'
  <1>1. jobs \in Seq(Job)
    BY DEF StateOK, TypeOK, DbTypeOK
  <1>2. PICK j \in DOMAIN jobs : j = c.id
    OBVIOUS
  <1>3. jobs[j].attempts \in Nat /\ c.attempts \in Nat
    BY <1>1, JobFields DEF Claim
  <1>4. jobs'[j].attempts \in Nat
    <2>1. jobs' \in Seq(Job) /\ j \in DOMAIN jobs'
      BY DEF StateOK, TypeOK, DbTypeOK, JobKept
    <2>2. jobs'[j] \in Job
      BY <2>1
    <2> QED
      BY <2>2 DEF Job
  <1>5. jobs'[j].attempts >= jobs[j].attempts /\ jobs[j].attempts >= c.attempts
    BY <1>2 DEF Counted
  <1> QED
    BY <1>2, <1>3, <1>4, <1>5 DEF Counted

\* A worker that does not move still knows what it knew.
LEMMA TruthStays ==
    ASSUME IInv, StateOK', AssertionsBound, BindingStays, DeliveryGrows,
           NEW w \in Workers, WorkerTruth(w), ws'[w] = ws[w],
           \A j \in DOMAIN jobs : JobKept(j) /\ jobs'[j].attempts >= jobs[j].attempts
    PROVE  WorkerTruth(w)'
  <1>0. StateOK /\ WorkerOK(w)
    BY DEF IInv, StateOK
  <1>1. \A c \in ws'[w].batch : Counted(c)'
    BY <1>0, AtJob, StaysCounted DEF WorkerTruth
  <1>2. ASSUME ws[w].pc \notin {"idle", "deliver"}
        PROVE  /\ Counted(ws[w].job)' /\ CurrentId(w)' = CurrentId(w)
               /\ CurrentId(w) \in DOMAIN jobs
               /\ Current(w).reg' = Current(w).reg /\ Current(w).reg \in Registrations
               /\ CurrentId(w) \in Assertions' => CurrentId(w) \in Assertions
    <2>1. /\ ws[w].job \in Claim /\ CurrentId(w) \in DOMAIN jobs
          /\ Current(w).reg \in Registrations
      BY <1>0, <1>2, AtJob
    <2>2. PICK c \in Claim : c = ws[w].job /\ c.id \in DOMAIN jobs /\ Counted(c)
      BY <1>2, <2>1 DEF CurrentId, WorkerTruth
    <2>3. Counted(c)'
      BY <1>0, <2>2, StaysCounted
    <2>4. JobKept(c.id)
      BY <2>2
    <2> QED
      BY <2>1, <2>2, <2>3, <2>4 DEF Counted, CurrentId, Current, JobKept, Assertions
  <1>3. ws[w].pc = "send_result" => ws[w].row.room = sessions'[Current(w).reg].room
    <2> SUFFICES ASSUME ws[w].pc = "send_result"
                 PROVE  ws[w].row.room = sessions'[Current(w).reg].room
      OBVIOUS
    <2>1. CurrentId(w) \in Assertions /\ ws[w].row.room = sessions[Current(w).reg].room
      BY <1>0 DEF WorkerOK, WorkerTruth
    <2>2. SessionBound(Current(w).reg)
      BY <2>1 DEF AssertionsBound, AssertionBound, Current
    <2> QED
      BY <1>2, <2>1, <2>2 DEF SessionBound, BindingStays
  <1> QED
    BY <1>1, <1>2, <1>3 DEF WorkerTruth, DeliveryGrows, Exhausted

\* A worker that goes on with its batch claims nothing of a job.
LEMMA GoesOn ==
    ASSUME NEW w \in Workers, NEW b, \A c \in b : Counted(c)', ws'[w] = Continue(b)
    PROVE  WorkerTruth(w)'
  <1>1. ws'[w].pc \in {"idle", "deliver"} /\ ws'[w].batch \subseteq b
    BY DEF Continue, IdleWorker, Working
  <1> QED
    BY <1>1 DEF WorkerTruth

\* A worker whose delivery failed gives a job up only after the last attempt.
LEMMA FailsTruly ==
    ASSUME NEW w \in Workers, NEW b, \A c \in b : Counted(c)', NEW c, Counted(c)',
           ws'[w] = DeliverErr(c, b)
    PROVE  WorkerTruth(w)'
  <1>1. CASE Exhausted(c)
    <2>1. ws'[w] = Working("mark_failed", b, c)
      BY <1>1 DEF DeliverErr
    <2>2. ws'[w].pc = "mark_failed" /\ ws'[w].batch = b /\ ws'[w].job = c
      BY <2>1 DEF Working
    <2> QED
      BY <1>1, <2>2 DEF WorkerTruth, Exhausted
  <1>2. CASE ~Exhausted(c)
    BY <1>2, GoesOn DEF DeliverErr
  <1> QED
    BY <1>1, <1>2

\* What a worker knows after a step of its own.
LEMMA MoverTruth ==
    ASSUME IInv, StateOK', AssertionsBound, BindingStays,
           NEW w \in Workers, WorkerTruth(w), Deliver(w) \/ AbortTick(w),
           \A j \in DOMAIN jobs : JobKept(j) /\ jobs'[j].attempts >= jobs[j].attempts
    PROVE  DeliveryGrows /\ WorkerTruth(w)'
  <1>a. PICK batch, job : batch = ws[w].batch /\ job = ws[w].job
    OBVIOUS
  <1>0. StateOK /\ WorkerOK(w) /\ ws \in [Workers -> WorkerState] /\ jobs \in Seq(Job)
    BY Zenon DEF IInv, StateOK, TypeOK, DeliveryTypeOK, DbTypeOK
  <1>1. DeliveryGrows
    BY Zenon DEF DeliveryGrows, Deliver, AbortTick, WorkerStep, ClaimDue, ClaimRows,
                 PostAccepted, PostFails, LockAccepted, CommitDelivered, AcceptedDbError,
                 SendResult, ResultFails, MarkDelivered, MarkFailed, MarkFails
  <1>2. \A c \in batch : c \in Claim /\ c.id \in DOMAIN jobs /\ Counted(c)'
    BY <1>a, <1>0, AtJob, StaysCounted, Zenon DEF WorkerTruth
  <1>3. ASSUME ws[w].pc \notin {"idle", "deliver"}
        PROVE  /\ job \in Claim /\ CurrentId(w) = job.id /\ CurrentId(w) \in DOMAIN jobs
               /\ Counted(job)'
    <2>1. job \in Claim /\ CurrentId(w) \in DOMAIN jobs /\ Counted(job)
      BY <1>a, <1>0, <1>3, AtJob DEF WorkerTruth
    <2> QED
      BY <1>a, <1>0, <2>1, StaysCounted DEF CurrentId
  <1>4. CASE ClaimDue(w)
    <2>0. PICK S \in SUBSET DueJobs : ClaimRows(w, S)
      BY <1>4, ClaimsDueJobs
    <2> DEFINE b == {[id |-> j, attempts |-> jobs[j].attempts + 1] : j \in S}
    <2>1. JobsClaimed(S) /\ ws'[w] = Continue(b)
      BY <1>0, <2>0, ClaimFacts DEF ClaimRows
    <2>2. \A c \in b : \E j \in S : c = [id |-> j, attempts |-> jobs[j].attempts + 1]
      OBVIOUS
    <2> HIDE DEF b
    <2>3. ASSUME NEW c \in b PROVE Counted(c)'
      <3>1. PICK j \in S : c = [id |-> j, attempts |-> jobs[j].attempts + 1]
        BY <2>2
      <3>2. PICK n \in Nat : n = jobs[j].attempts
        BY <1>0, <2>1, JobFields DEF JobsClaimed
      <3>3. c.id = j /\ c.attempts = n + 1
        BY <3>1, <3>2
      <3>4. jobs'[j].attempts = n + 1
        BY <2>1, <3>2 DEF JobsClaimed
      <3>5. c.attempts > 0 /\ jobs'[c.id].attempts >= c.attempts
        BY <3>3, <3>4
      <3> QED
        BY <3>5 DEF Counted
    <2> QED
      BY <2>1, <2>3, GoesOn, <1>1
  <1>5. ASSUME NEW c \in batch, PostAccepted(w, c)
        PROVE  WorkerTruth(w)'
    <2>1. /\ ws'[w] = Working(AfterPost(c), batch \ {c}, c) /\ UNCHANGED jobs
          /\ c.id \in accepted'
      BY <1>a, <1>0, <1>5, Zenon DEF PostAccepted, dbVars
    <2>2. /\ ws'[w].pc = AfterPost(c) /\ ws'[w].batch = batch \ {c} /\ ws'[w].job = c
      <3>1. PICK pc, left : pc = AfterPost(c) /\ left = batch \ {c}
        BY Zenon
      <3>2. ws'[w] = Working(pc, left, c)
        BY <2>1, <3>1
      <3>3. ws'[w].pc = pc /\ ws'[w].batch = left /\ ws'[w].job = c
        BY <3>2 DEF Working
      <3> QED
        BY <3>1, <3>3
    <2>3. AfterPost(c) = "accepted" \/ (AfterPost(c) = "mark_delivered" /\ c.id \notin Assertions')
      BY <2>1 DEF AfterPost, Assertions
    <2> QED
      BY <1>2, <2>1, <2>2, <2>3, Zenon DEF WorkerTruth, CurrentId
  <1>6. ASSUME NEW c \in batch, PostFails(w, c)
        PROVE  WorkerTruth(w)'
    <2>1. ws'[w] = DeliverErr(c, batch \ {c})
      BY <1>a, <1>0, <1>6 DEF PostFails
    <2> QED
      BY <1>2, <2>1, FailsTruly
  <1>7. ASSUME NEW r \in Registrations, LockAccepted(w, r)
        PROVE  WorkerTruth(w)'
    <2>1. /\ ws'[w] = [ws[w] EXCEPT !.pc = "locked", !.row = sessions[r]]
          /\ ws[w].pc = "accepted"
      BY <1>0, <1>7 DEF LockAccepted
    <2>2. ws'[w].pc = "locked" /\ ws'[w].batch = batch /\ ws'[w].job = job
      BY <1>a, <1>0, <2>1 DEF WorkerState
    <2> QED
      BY <1>a, <1>1, <1>2, <1>3, <2>1, <2>2 DEF WorkerTruth, CurrentId, DeliveryGrows
  <1>8. CASE CommitDelivered(w)
    <2>1. /\ ws'[w] = [ws[w] EXCEPT !.pc = "send_result"]
          /\ ws[w].pc = "locked" /\ UNCHANGED jobs
      BY <1>0, <1>8 DEF CommitDelivered
    <2>2. /\ ws'[w].pc = "send_result" /\ ws'[w].batch = batch /\ ws'[w].job = job
          /\ ws'[w].row = ws[w].row
      BY <1>a, <1>0, <2>1 DEF WorkerState
    <2>3. PICK r \in Registrations : r = Current(w).reg
      BY <1>0, <2>1, AtJob
    <2>4. sessions[r] = ws[w].row /\ SessionBound(r)
      BY <1>0, <2>1, <2>3 DEF IInv, RowLockGuardsSnapshot, WorkerHolds, WorkerOK,
                              AssertionsBound, AssertionBound, Current
    <2>5. sessions'[r].room = ws[w].row.room
      BY <2>4 DEF BindingStays, SessionBound
    <2>6. CurrentId(w)' = CurrentId(w) /\ Current(w).reg' = r
      BY <1>a, <2>1, <2>2, <2>3 DEF CurrentId, Current
    <2>7. CurrentId(w) \in accepted' /\ Counted(job)'
      BY <1>1, <1>3, <2>1 DEF WorkerTruth, DeliveryGrows
    <2> QED
      BY <1>1, <1>2, <2>2, <2>5, <2>6, <2>7, Zenon DEF WorkerTruth
  <1>9. CASE AcceptedDbError(w) \/ ResultFails(w)
    <2>1. ws'[w] = DeliverErr(job, batch) /\ ws[w].pc \notin {"idle", "deliver"}
      BY <1>a, <1>0, <1>9 DEF AcceptedDbError, ResultFails
    <2>2. (\A c \in batch : Counted(c)') /\ Counted(job)'
      BY <1>2, <1>3, <2>1
    <2>3. WorkerTruth(w)'
      BY <2>1, <2>2, FailsTruly
    <2> QED
      BY <1>1, <2>3, Zenon
  <1>10. CASE SendResult(w)
    <2>1. ws'[w] = Working("mark_delivered", batch, job) /\ ws[w].pc = "send_result"
      BY <1>a, <1>0, <1>10, Zenon DEF SendResult
    <2>2. ws'[w].pc = "mark_delivered" /\ ws'[w].batch = batch /\ ws'[w].job = job
      BY <2>1 DEF Working
    <2>3. \E n \in successResults' : n.job = CurrentId(w)
      <3>1. ResultOf(w) \in successResults'
        BY <1>10 DEF SendResult
      <3>2. ResultOf(w).job = CurrentId(w)
        BY DEF ResultOf
      <3> QED
        BY <3>1, <3>2
    <2>4. CurrentId(w) \in accepted' /\ Counted(job)' /\ CurrentId(w)' = CurrentId(w)
      BY <1>a, <1>1, <1>3, <2>1, <2>2, Zenon DEF WorkerTruth, DeliveryGrows, CurrentId
    <2> QED
      BY <1>1, <1>2, <2>2, <2>3, <2>4, Zenon DEF WorkerTruth
  <1>11. CASE MarkDelivered(w) \/ MarkFailed(w)
    <2>1. ws'[w] = Continue(batch)
      BY <1>a, <1>0, <1>11 DEF MarkDelivered, MarkFailed
    <2> QED
      BY <1>1, <1>2, <2>1, GoesOn
  <1>12. CASE MarkFails(w)
    <2>1. PICK none : none = {} /\ ws'[w] = Continue(none)
      BY <1>0, <1>12, Zenon DEF MarkFails, Continue
    <2>2. \A c \in none : Counted(c)'
      BY <2>1
    <2>3. WorkerTruth(w)'
      BY <2>1, <2>2, GoesOn
    <2> QED
      BY <1>1, <2>3, Zenon
  <1> QED
    BY <1>a, <1>1, <1>4, <1>5, <1>6, <1>7, <1>8, <1>9, <1>10, <1>11, <1>12
       DEF Deliver, AbortTick, WorkerStep

\* A step that is not a worker's moves no worker, or is a crash.
LEMMA WorkersIdleOrStay ==
    ASSUME StateOK, [Next]_vars
    PROVE  \/ \E w \in Workers : Deliver(w) \/ AbortTick(w)
           \/ UNCHANGED deliveryVars
           \/ /\ UNCHANGED <<accepted, successResults>>
              /\ ws' = [w \in Workers |-> IdleWorker]
  BY DEF Next, vars, ClockTick, Register, Receive, Handle, RetryTime, Crash, deliveryVars

\* Every worker knows the truth of its job.
LEMMA WorkersTrueStep ==
    ASSUME IInv, AssertionsBound, WorkersTrue, [Next]_vars
    PROVE  WorkersTrue' /\ DeliveryGrows
  <1>1. /\ StateOK /\ StateOK' /\ RowLockGuardsSnapshot
        /\ ws \in [Workers -> WorkerState]
    BY NextTyped DEF IInv, StateOK, TypeOK, DeliveryTypeOK
  <1>2. BindingStays
    BY <1>1, BindingStaysStep
  <1>3. \A j \in DOMAIN jobs : JobKept(j) /\ jobs'[j].attempts >= jobs[j].attempts
    BY <1>1, JobsAllKept
  <1>4. ASSUME NEW w \in Workers, Deliver(w) \/ AbortTick(w)
        PROVE  WorkersTrue' /\ DeliveryGrows
    <2>1. DeliveryGrows /\ WorkerTruth(w)'
      BY <1>1, <1>2, <1>3, <1>4, MoverTruth DEF WorkersTrue
    <2>2. \A v \in Workers : v # w => ws'[v] = ws[v]
      BY <1>1, <1>4, Zenon DEF Deliver, AbortTick, WorkerStep, ClaimDue, ClaimRows,
                               PostAccepted, PostFails, LockAccepted, CommitDelivered,
                               AcceptedDbError, SendResult, ResultFails, MarkDelivered,
                               MarkFailed, MarkFails
    <2>3. \A v \in Workers : v # w => WorkerTruth(v)'
      BY <1>1, <1>2, <1>3, <2>1, <2>2, TruthStays DEF WorkersTrue
    <2> QED
      BY <2>1, <2>3 DEF WorkersTrue
  <1>5. CASE UNCHANGED deliveryVars
    <2>1. DeliveryGrows /\ UNCHANGED ws
      BY <1>5 DEF deliveryVars, DeliveryGrows
    <2> QED
      BY <1>1, <1>2, <1>3, <2>1, TruthStays DEF WorkersTrue
  <1>6. CASE /\ UNCHANGED <<accepted, successResults>>
             /\ ws' = [w \in Workers |-> IdleWorker]
    <2>1. \A w \in Workers : ws'[w] = Continue({})
      BY <1>6 DEF Continue
    <2>2. \A w \in Workers : WorkerTruth(w)'
      BY <2>1, GoesOn
    <2> QED
      BY <1>6, <2>2 DEF WorkersTrue, DeliveryGrows
  <1> QED
    BY <1>1, <1>4, <1>5, <1>6, WorkersIdleOrStay

-----------------------------------------------------------------------------
(* Results and settled jobs *)

\* A Result stays true, and a new one is.
LEMMA ResultsTrueStep ==
    ASSUME IInv, AssertionsBound, WorkersTrue, ResultsTrue, [Next]_vars
    PROVE  ResultsTrue'
  <1>1. StateOK /\ RowLockGuardsSnapshot /\ jobs \in Seq(Job)
    BY DEF IInv, StateOK, TypeOK, DbTypeOK
  <1>2. BindingStays /\ DeliveryGrows /\ \A j \in DOMAIN jobs : JobKept(j)
    BY <1>1, BindingStaysStep, WorkersTrueStep, JobsAllKept
  <1>3. ASSUME NEW j \in Assertions
        PROVE  /\ j \in Assertions' /\ jobs'[j].sub = jobs[j].sub
               /\ sessions'[jobs'[j].reg].room = sessions[jobs[j].reg].room
    <2>1. j \in DOMAIN jobs /\ JobKept(j)
      BY <1>2 DEF Assertions
    <2>2. PICK r \in Registrations : r = jobs[j].reg
      BY <1>1, <2>1, JobFields
    <2>3. SessionBound(r)
      BY <2>2, Zenon DEF AssertionsBound, AssertionBound
    <2>4. sessions'[r].room = sessions[r].room
      BY <1>2, <2>3 DEF BindingStays, SessionBound
    <2> QED
      BY <2>1, <2>2, <2>4 DEF JobKept, Assertions
  <1>4. \A n \in successResults :
            /\ n.job \in accepted' /\ n.job \in Assertions'
            /\ jobs'[n.job].sub = n.sub
            /\ n.room = sessions'[jobs'[n.job].reg].room
    BY <1>2, <1>3 DEF ResultsTrue, DeliveryGrows
  <1>5. ASSUME NEW w \in Workers, SendResult(w) \/ ResultFails(w),
               successResults' # successResults
        PROVE  ResultsTrue'
    <2>1. ws[w].pc = "send_result" /\ UNCHANGED <<jobs, accepted, sessions>>
      BY <1>5 DEF SendResult, ResultFails, dbVars
    <2>2. /\ CurrentId(w) \in Assertions /\ CurrentId(w) \in accepted
          /\ ws[w].row.room = sessions[Current(w).reg].room
      BY <1>1, <2>1, Zenon DEF StateOK, WorkerOK, WorkersTrue, WorkerTruth
    <2>3. PICK n : n = ResultOf(w) /\ successResults' = successResults \cup {n}
      BY <1>5 DEF SendResult, ResultFails
    <2>4. n.job = CurrentId(w) /\ n.sub = Current(w).sub /\ n.room = ws[w].row.room
      BY <2>3 DEF ResultOf
    <2>5. /\ n.job \in accepted' /\ n.job \in Assertions'
          /\ jobs'[n.job].sub = n.sub
          /\ n.room = sessions'[jobs'[n.job].reg].room
      BY <2>1, <2>2, <2>4 DEF Current, Assertions
    <2> QED
      BY <1>4, <2>3, <2>5 DEF ResultsTrue
  <1>6. CASE UNCHANGED successResults
    BY <1>4, <1>6 DEF ResultsTrue
  <1>7. ASSUME NEW w \in Workers, Deliver(w) \/ AbortTick(w), ~SendResult(w), ~ResultFails(w)
        PROVE  UNCHANGED successResults
    BY <1>7, Zenon
       DEF Deliver, AbortTick, WorkerStep, ClaimDue, ClaimRows, PostAccepted, PostFails,
           LockAccepted, CommitDelivered, AcceptedDbError, MarkDelivered, MarkFailed, MarkFails
  <1> QED
    BY <1>1, <1>5, <1>6, <1>7, WorkersIdleOrStay DEF deliveryVars

\* What makes the status of one job true.
SettledTruly(j) ==
    /\ jobs[j].status = "delivered" => j \in accepted
    /\ jobs[j].status = "delivered" /\ j \in Assertions =>
          \E n \in successResults : n.job = j
    /\ jobs[j].status = "failed" => jobs[j].attempts >= MaxAttempts

\* A job that is settled stays truly so, and mark_delivered and mark_failed
\* settle jobs truly.
LEMMA SettledStep ==
    ASSUME IInv, AssertionsBound, WorkersTrue, SettledJobsAreTrue, [Next]_vars
    PROVE  SettledJobsAreTrue'
  <1>1. /\ StateOK /\ StateOK' /\ jobs \in Seq(Job)
        /\ \A j \in DOMAIN jobs : jobs[j].attempts \in Nat
    BY NextTyped, JobFields, Zenon DEF IInv, StateOK, TypeOK, DbTypeOK
  <1>2. DeliveryGrows /\ \A j \in DOMAIN jobs : JobKept(j) /\ jobs'[j].attempts >= jobs[j].attempts
    BY <1>1, WorkersTrueStep, JobsAllKept
  <1>3. \A j \in DOMAIN jobs : SettledTruly(j)
    BY DEF SettledJobsAreTrue, SettledTruly
  <1>4. \A j \in DOMAIN jobs : jobs'[j].attempts \in Nat
    <2>1. jobs' \in Seq(Job)
      BY <1>1 DEF StateOK, TypeOK, DbTypeOK
    <2>2. \A j \in DOMAIN jobs' : jobs'[j] \in Job
      BY <2>1
    <2> QED
      BY <1>2, <2>2 DEF JobKept, Job
  <1>5. ASSUME NEW j \in DOMAIN jobs, jobs'[j].status = jobs[j].status
        PROVE  SettledTruly(j)'
    <2>1. /\ SettledTruly(j) /\ JobKept(j) /\ jobs'[j].attempts >= jobs[j].attempts
          /\ jobs[j].attempts \in Nat /\ jobs'[j].attempts \in Nat /\ MaxAttempts \in Nat
      BY <1>1, <1>2, <1>3, <1>4, DeliveryAssumption
    <2>2. jobs[j].attempts >= MaxAttempts => jobs'[j].attempts >= MaxAttempts
      BY <2>1
    <2>3. j \in Assertions' => j \in Assertions
      BY <2>1 DEF Assertions, JobKept
    <2> QED
      BY <1>2, <1>5, <2>1, <2>2, <2>3 DEF SettledTruly, DeliveryGrows
  <1>6. ASSUME DOMAIN jobs' = DOMAIN jobs, \A j \in DOMAIN jobs : SettledTruly(j)'
        PROVE  SettledJobsAreTrue'
    BY <1>6 DEF SettledJobsAreTrue, SettledTruly
  <1>7. ASSUME DOMAIN jobs' = DOMAIN jobs,
               \A j \in DOMAIN jobs : jobs'[j].status = jobs[j].status
        PROVE  SettledJobsAreTrue'
    BY <1>5, <1>6, <1>7
  <1>8. CASE JobsRetried \/ UNCHANGED jobs
    BY <1>7, <1>8 DEF JobsRetried
  <1>9. ASSUME NEW w \in Workers, ClaimDue(w)
        PROVE  SettledJobsAreTrue'
    <2>1. PICK S \in SUBSET DueJobs : JobsClaimed(S)
      BY <1>1, <1>9, ClaimsDueJobs, ClaimFacts
    <2> QED
      BY <1>7, <2>1 DEF JobsClaimed
  <1>10. ASSUME NEW w \in Workers, MarkDelivered(w) \/ MarkFailed(w)
         PROVE  SettledJobsAreTrue'
    <2>1. /\ CurrentId(w) \in DOMAIN jobs /\ ws[w].job \in Claim /\ WorkerTruth(w)
          /\ UNCHANGED <<accepted, successResults>>
      BY <1>1, <1>10, AtJob, Zenon DEF MarkDelivered, MarkFailed, WorkersTrue
    <2>2. PICK id \in DOMAIN jobs : id = CurrentId(w)
      BY <2>1
    <2>3. CASE MarkDelivered(w)
      <3>1. JobMarked(id, "delivered") /\ ws[w].pc = "mark_delivered"
        BY <1>1, <2>2, <2>3, MarkFacts DEF MarkDelivered
      <3>2. id \in Assertions' => id \in Assertions
        BY <3>1 DEF JobMarked, JobKept, Assertions
      <3>3. SettledTruly(id)'
        BY <2>1, <2>2, <3>1, <3>2, Zenon DEF WorkerTruth, JobMarked, SettledTruly
      <3> QED
        BY <1>5, <1>6, <3>1, <3>3, Zenon DEF JobMarked
    <2>4. CASE MarkFailed(w)
      <3>1. JobMarked(id, "failed") /\ ws[w].pc = "mark_failed"
        BY <1>1, <2>2, <2>4, MarkFacts DEF MarkFailed
      <3>2. jobs'[id].attempts >= MaxAttempts
        <4>1. /\ ws[w].job.attempts >= MaxAttempts
              /\ jobs[id].attempts >= ws[w].job.attempts
              /\ jobs'[id].attempts = jobs[id].attempts
          BY <2>1, <2>2, <3>1, Zenon DEF WorkerTruth, Exhausted, Counted, CurrentId, JobMarked
        <4>2. ws[w].job.attempts \in Nat /\ jobs[id].attempts \in Nat /\ MaxAttempts \in Nat
          BY <1>1, <2>1, DeliveryAssumption DEF Claim
        <4> QED
          BY <4>1, <4>2
      <3>3. SettledTruly(id)'
        BY <3>1, <3>2 DEF JobMarked, SettledTruly
      <3> QED
        BY <1>5, <1>6, <3>1, <3>3, Zenon DEF JobMarked
    <2> QED
      BY <1>10, <2>3, <2>4
  <1>11. ASSUME NEW h \in Handlers, ApproveConsent(h) \/ RevokeGrant(h)
         PROVE  SettledJobsAreTrue'
    <2>1. PICK job : JobEnqueued(job) /\ Fresh(job)
      BY <1>11, <1>1, ApproveFacts, RevokeFacts
    <2>2. \A j \in DOMAIN jobs' : j \in DOMAIN jobs \/ jobs'[j].status = "pending"
      BY <2>1 DEF JobEnqueued, Fresh
    <2>3. \A j \in DOMAIN jobs : SettledTruly(j)'
      BY <1>5, <2>1 DEF JobEnqueued
    <2> QED
      BY <2>2, <2>3 DEF SettledJobsAreTrue, SettledTruly
  <1> QED
    BY <1>1, <1>8, <1>9, <1>10, <1>11, JobsStep

-----------------------------------------------------------------------------
(* Grants *)

\* The commit that changes a grant enqueues the job that tells the site.
LEMMA GrantsStep ==
    ASSUME StateOK, GrantMatchesLastJob, [Next]_vars
    PROVE  GrantMatchesLastJob'
  <1>1. /\ jobs \in Seq(Job) /\ grants \in [Subjects -> GrantStates]
        /\ \A j \in DOMAIN jobs : j \in Nat /\ jobs[j].sub \in Subjects
    BY JobFields DEF StateOK, TypeOK, DbTypeOK
  <1>2. ASSUME UNCHANGED grants, DOMAIN jobs' = DOMAIN jobs, \A j \in DOMAIN jobs : JobKept(j)
        PROVE  GrantMatchesLastJob'
    BY <1>2 DEF GrantMatchesLastJob, JobKept
  <1>3. ASSUME NEW w \in Workers, ClaimDue(w) \/ MarkDelivered(w) \/ MarkFailed(w), UNCHANGED grants
        PROVE  GrantMatchesLastJob'
    <2>1. DOMAIN jobs' = DOMAIN jobs
      BY <1>3, Zenon DEF ClaimDue, ClaimRows, claim_due, MarkDelivered, MarkFailed, mark_delivered, mark_failed
    <2> QED
      BY <1>2, <1>3, <2>1, JobsAllKept
  <1>4. ASSUME NEW job \in Job, JobEnqueued(job), NEW g \in {"active", "revoked"},
               grants' = [grants EXCEPT ![job.sub] = g],
               job.kind = IF g = "active" THEN "assertion" ELSE "revocation"
        PROVE  GrantMatchesLastJob'
    <2>1. PICK n \in Nat, s \in Subjects : n = Len(jobs) + 1 /\ s = job.sub
      BY <1>1 DEF Job
    <2>2. /\ DOMAIN jobs' = DOMAIN jobs \cup {n} /\ jobs'[n] = job
          /\ \A j \in DOMAIN jobs : j < n /\ j <= n /\ jobs'[j] = jobs[j]
      BY <1>1, <1>4, <2>1 DEF JobEnqueued
    <2>3. grants'[s] = g /\ \A t \in Subjects : t # s => grants'[t] = grants[t]
      BY <1>1, <1>4, <2>1
    <2>4. ASSUME NEW t \in Subjects, t # s
          PROVE  \A j \in DOMAIN jobs' : jobs'[j].sub = t =>
                    j \in DOMAIN jobs /\ jobs'[j] = jobs[j]
      BY <2>1, <2>2, <2>4
    <2>5. /\ n \in DOMAIN jobs' /\ jobs'[n].sub = s
          /\ \A k \in DOMAIN jobs' : jobs'[k].sub = s => k <= n
          /\ jobs'[n].kind = (IF grants'[s] = "active" THEN "assertion" ELSE "revocation")
      BY <1>4, <2>1, <2>2, <2>3
    <2>6. ASSUME NEW t \in Subjects, t # s
          PROVE  /\ grants'[t] = "none" => \A j \in DOMAIN jobs' : jobs'[j].sub # t
                 /\ grants'[t] # "none" =>
                       \E j \in DOMAIN jobs' :
                          /\ jobs'[j].sub = t
                          /\ \A k \in DOMAIN jobs' : jobs'[k].sub = t => k <= j
                          /\ jobs'[j].kind =
                               (IF grants'[t] = "active" THEN "assertion" ELSE "revocation")
      BY <2>2, <2>3, <2>4, <2>6 DEF GrantMatchesLastJob
    <2>7. grants'[s] # "none"
      BY <1>4, <2>3
    <2> QED
      BY <2>5, <2>6, <2>7 DEF GrantMatchesLastJob
  <1>5. ASSUME NEW h \in Handlers, ApproveConsent(h) \/ RevokeGrant(h)
        PROVE  GrantMatchesLastJob'
    BY <1>4, <1>5, ApproveFacts, RevokeFacts, Zenon
  <1>6. CASE UNCHANGED <<jobs, grants>>
    BY <1>6 DEF GrantMatchesLastJob
  <1> QED
    BY <1>2, <1>3, <1>5, <1>6, JobsStep, Zenon DEF JobsRetried

-----------------------------------------------------------------------------
(* The theorems *)

\* The initial state satisfies the invariant.
LEMMA InitDInv == Init => DInv
  <1> SUFFICES ASSUME Init PROVE DInv
    OBVIOUS
  <1>1. /\ \A r \in Registrations : ~SessionBound(r)
        /\ jobs = <<>> /\ DOMAIN jobs = {} /\ \A s \in Subjects : grants[s] = "none"
    BY DEF Init, DbInit, SessionBound
  <1>2. /\ \A e \in EventIds : timeline[e] = None
        /\ successResults = {} /\ accepted = {}
        /\ \A w \in Workers : ws[w].pc = "idle" /\ ws[w].batch = {}
    BY DEF Init, LoginInit, DeliveryInit, IdleWorker, Working
  <1> QED
    BY <1>1, <1>2, Zenon
       DEF DInv, ChallengeEnds, AssertionsBound, ConsentsAsked, WorkersTrue,
           WorkerTruth, ResultsTrue, SettledJobsAreTrue, GrantMatchesLastJob, Assertions

\* Every step keeps the invariant.
LEMMA NextDInv == IInv /\ DInv /\ [Next]_vars => DInv'
  BY ChallengeEndsStep, AssertionsBoundStep, ConsentsAskedStep,
     WorkersTrueStep, ResultsTrueStep, SettledStep, GrantsStep
     DEF IInv, DInv

\* DInv is an invariant of the relay.
THEOREM DeliveryInvariant == Spec => []DInv
  BY InitIInv, NextIInv, InitDInv, NextDInv, PTL DEF Spec

\* AssertionWithinWindow: an assertion is signed while its challenge lives, and
\* ends with its session and within MAX_TTL_MS.
THEOREM AssertionsInTime == Spec => []AssertionWithinWindow
  <1>1. StateOK /\ DInv => AssertionWithinWindow
    <2> SUFFICES ASSUME StateOK, DInv, NEW j \in Assertions
                 PROVE  /\ jobs[j].iat <= jobs[j].exp
                        /\ jobs[j].exp <= jobs[j].reg.exp
                        /\ jobs[j].exp <= jobs[j].iat + MAX_TTL_MS
                        /\ jobs[j].iat <= sessions[jobs[j].reg].challenge_exp
                        /\ sessions[jobs[j].reg].challenge_exp <= jobs[j].reg.exp
      BY DEF AssertionWithinWindow
    <2>1. AssertionBound(j) /\ jobs[j].reg \in Registrations
      BY JobFields DEF DInv, AssertionsBound, Assertions, StateOK, TypeOK, DbTypeOK
    <2> QED
      BY <2>1, Zenon DEF AssertionBound, DInv, ChallengeEnds
  <1>2. IInv => StateOK
    BY DEF IInv
  <1> QED
    BY <1>1, <1>2, Inductive, DeliveryInvariant, PTL

\* SettledJobsAreTrue: delivered means accepted and, for an assertion, reported;
\* failed means that all attempts were made.
THEOREM SettledTruthfully == Spec => []SettledJobsAreTrue
  <1>1. DInv => SettledJobsAreTrue
    BY DEF DInv
  <1> QED
    BY <1>1, DeliveryInvariant, PTL

\* SuccessIsTrue: a phone hears of a success only after the site accepted it,
\* in the room that asked, with the subject the site was given.
THEOREM ResultsAreTrue == Spec => []SuccessIsTrue
  <1>1. DInv => SuccessIsTrue
    BY Zenon DEF DInv, ResultsTrue, AssertionsBound, AssertionBound, SuccessIsTrue
  <1> QED
    BY <1>1, DeliveryInvariant, PTL

\* GrantMatchesLastJob: the grant of a subject is what the last job enqueued
\* for it tells the site.
THEOREM GrantsAgree == Spec => []GrantMatchesLastJob
  <1>1. DInv => GrantMatchesLastJob
    BY DEF DInv
  <1> QED
    BY <1>1, DeliveryInvariant, PTL
=============================================================================
