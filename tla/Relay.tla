-------------------------------- MODULE Relay --------------------------------
(***************************************************************************)
(* The relay: registration, login handlers and delivery workers over one    *)
(* database, with a clock, the sites, the phones, and crashes.              *)
(***************************************************************************)
EXTENDS RegistrationService, LoginService, DeliveryQueue

CONSTANTS
    MaxNow,          \* bound: the clock stops here
    MaxFaults        \* bound: crashes and failed mark_* statements

ASSUME BoundAssumption == MaxNow \in Nat /\ MaxFaults \in Nat

VARIABLE faults      \* how many of those faults have happened

vars == <<now, dbVars, registering, loginVars, deliveryVars, faults>>

\* The tables hold what the columns of 0001_init.sql may hold, and every task is
\* at a point of its handler with the local state it has there.
TypeOK ==
    /\ DbTypeOK
    /\ registering \subseteq Registrations
    /\ LoginTypeOK
    /\ DeliveryTypeOK
    /\ faults \in Nat

Init ==
    /\ DbInit
    /\ registering = {}
    /\ LoginInit
    /\ DeliveryInit
    /\ faults = 0

-----------------------------------------------------------------------------
\* Challenges are random, and a phone learns one from the relay's notice only.
\* It learns a subject (siteAccountId) from a successful Result only.
KnownToSender(m) ==
    /\ m.kind = "consent" => \E n \in challengeNotices : n.challenge = m.challenge
    /\ m.kind = "revocation" => \E n \in successResults : n.sub = m.sub

ClockTick ==
    /\ now < MaxNow
    /\ now' = now + 1
    /\ UNCHANGED <<dbVars, registering, loginVars, deliveryVars, faults>>

Register(r) ==
    /\ RegistrationStep(r)
    /\ UNCHANGED <<loginVars, deliveryVars, faults>>

Receive(h, e, m) ==
    /\ KnownToSender(m)
    /\ HandleInbound(h, e, m)
    /\ UNCHANGED <<registering, deliveryVars, faults>>

Handle(h) ==
    /\ HandlerStep(h)
    /\ UNCHANGED <<registering, deliveryVars, faults>>

Deliver(w) ==
    /\ WorkerStep(w)
    /\ UNCHANGED <<now, registering, loginVars, faults>>

AbortTick(w) ==
    /\ faults < MaxFaults
    /\ faults' = faults + 1
    /\ MarkFails(w)
    /\ UNCHANGED <<now, registering, loginVars>>

RetryTime(j) ==
    /\ RetryTimeReached(j)
    /\ UNCHANGED <<now, registering, loginVars, deliveryVars, faults>>

\* The process dies: transactions are rolled back, local state is lost.
Crash ==
    /\ faults < MaxFaults
    /\ faults' = faults + 1
    /\ registering' = {}
    /\ hs' = [h \in Handlers |-> IdleHandler]
    /\ ws' = [w \in Workers |-> IdleWorker]
    /\ locks' = [r \in Registrations |-> None]
    /\ UNCHANGED <<now, sessions, requestEvents, consentEvents, challengeHashes, grants, jobs,
                   timeline, challengeNotices, failureResults, accepted, successResults>>

Next ==
    \/ ClockTick
    \/ \E r \in Registrations : Register(r)
    \/ \E h \in Handlers, e \in EventIds, m \in Messages : Receive(h, e, m)
    \/ \E h \in Handlers : Handle(h)
    \/ \E w \in Workers : Deliver(w) \/ AbortTick(w)
    \/ \E j \in DOMAIN jobs : RetryTime(j)
    \/ Crash

Spec == Init /\ [][Next]_vars

-----------------------------------------------------------------------------
(* Safety *)

Assertions == {j \in DOMAIN jobs : jobs[j].kind = "assertion"}

\* Inside a transaction the process has the lock of its row, and the row is as
\* the transaction read it.
HandlerHolds(h) ==
    hs[h].pc = "locked" => locks[hs[h].reg] = h /\ sessions[hs[h].reg] = hs[h].row

WorkerHolds(w) ==
    ws[w].pc = "locked" => locks[Current(w).reg] = w /\ sessions[Current(w).reg] = ws[w].row

\* A lock belongs to a process that is inside a transaction on that very row.
LockOwned(r) ==
    \/ locks[r] = None
    \/ /\ locks[r] \in Handlers
       /\ hs[locks[r]].pc = "locked" /\ hs[locks[r]].reg = r
    \/ /\ locks[r] \in Workers
       /\ ws[locks[r]].pc = "locked" /\ Current(locks[r]).reg = r

\* The row lock taken by SELECT ... FOR UPDATE (sessions.rs) keeps every row
\* a transaction has read as it was read until that transaction ends.  The
\* cas_update results that login.rs and queue.rs ignore rely on it: the update
\* always matches.  And no lock outlives its transaction: whatever early
\* return, error or crash ends it, the row is free for the next event.
RowLockGuardsSnapshot ==
    /\ \A h \in Handlers : HandlerHolds(h)
    /\ \A w \in Workers : WorkerHolds(w)
    /\ \A r \in Registrations : LockOwned(r)

\* Every Challenge sent (process_request) is the only one of its session, and
\* its challenge, room and expiry are those process_consent will compare with,
\* whatever duplicates, crashes and lost notices came in between.
ChallengeNoticeStaysValid ==
    \A n \in challengeNotices :
        /\ sessions[n.reg] # None
        /\ sessions[n.reg].challenge = n.challenge
        /\ sessions[n.reg].room = n.room
        /\ sessions[n.reg].challenge_exp = n.expires_at
        /\ \A n2 \in challengeNotices :
              n2.reg = n.reg \/ n2.challenge = n.challenge => n2 = n

\* The consent behind an assertion job: signed, approved, reserved against
\* replay, and from the account and the room whose request got the challenge
\* that it quotes.
ConsentBehind(j) ==
    LET m == timeline[jobs[j].event]
        row == sessions[jobs[j].reg]
    IN
    /\ jobs[j].event \in consentEvents
    /\ m.kind = "consent" /\ m.signed /\ m.approved
    /\ jobs[j].sub = derive_pairwise_sub(jobs[j].reg.domain, m.sender)
    /\ row # None /\ m.challenge = row.challenge
    /\ \E e \in requestEvents :
          LET q == timeline[e] IN
          /\ q.kind = "request"
          /\ q.sender = m.sender /\ q.room = m.room
          /\ q.qr.domain = jobs[j].reg.domain
          /\ q.qr.session_id = jobs[j].reg.session_id
          /\ q.qr.nonce = jobs[j].reg.nonce

\* An assertion is enqueued (process_consent) only for a login that the same
\* account requested and approved from the same room.
AssertionsFollowConsent == \A j \in Assertions : ConsentBehind(j)

\* A reserved approval has exactly one assertion job: none is lost, and a
\* consent delivered twice or handled by two tasks yields one (replay.rs).
ConsentYieldsOneAssertion ==
    /\ \A e \in consentEvents : timeline[e].approved =>
          \E j \in Assertions : jobs[j].event = e
    /\ \A i, j \in Assertions : jobs[i].event = jobs[j].event => i = j

\* An assertion lives at most MAX_TTL_MS, not past its session, and is signed
\* while its challenge lives, which itself ends with the session.
AssertionWithinWindow ==
    \A j \in Assertions :
        /\ jobs[j].iat <= jobs[j].exp
        /\ jobs[j].exp <= jobs[j].reg.exp
        /\ jobs[j].exp <= jobs[j].iat + MAX_TTL_MS
        /\ jobs[j].iat <= sessions[jobs[j].reg].challenge_exp
        /\ sessions[jobs[j].reg].challenge_exp <= jobs[j].reg.exp

\* The last job enqueued for a subject agrees with its grant: a revoked grant
\* has told the site last, and an active one has not (grants.rs, login.rs).
GrantMatchesLastJob ==
    \A s \in Subjects :
        /\ grants[s] = "none" => \A j \in DOMAIN jobs : jobs[j].sub # s
        /\ grants[s] # "none" =>
              \E j \in DOMAIN jobs :
                  /\ jobs[j].sub = s
                  /\ \A k \in DOMAIN jobs : jobs[k].sub = s => k <= j
                  /\ jobs[j].kind = (IF grants[s] = "active" THEN "assertion" ELSE "revocation")

\* A job is delivered only if the site accepted it, and an assertion only if
\* its Result reached the phone too; a job fails only after MaxAttempts claims.
SettledJobsAreTrue ==
    \A j \in DOMAIN jobs :
        /\ jobs[j].status = "delivered" => j \in accepted
        /\ jobs[j].status = "delivered" /\ j \in Assertions =>
              \E n \in successResults : n.job = j
        /\ jobs[j].status = "failed" => jobs[j].attempts >= MaxAttempts

\* A phone is told of a success only after the site accepted its assertion, in
\* the room that asked for the login, with the subject the site was given.
SuccessIsTrue ==
    \A n \in successResults :
        /\ n.job \in accepted /\ n.job \in Assertions
        /\ jobs[n.job].sub = n.sub
        /\ timeline[jobs[n.job].event].room = n.room

\* A site is asked to forget a subject only after it accepted a login with it:
\* behind every revocation job is an earlier assertion for the same subject at
\* the same site that the site has accepted, and the account that revokes is
\* the one that approved it (process_revocation).  Nothing orders the delivery
\* of the two jobs.
RevocationFollowsLogin ==
    \A j \in DOMAIN jobs : jobs[j].kind = "revocation" =>
        \E i \in Assertions \cap accepted :
            /\ i < j
            /\ jobs[i].sub = jobs[j].sub
            /\ jobs[i].reg.domain = jobs[j].reg.domain
            /\ timeline[jobs[i].event].sender = timeline[jobs[j].event].sender

\* A step keeps every row, its version does not go back, and a binding stays.
BindingStays ==
    \A r \in Registrations : sessions[r] # None =>
        /\ sessions'[r] # None
        /\ sessions'[r].version >= sessions[r].version
        /\ sessions[r].challenge # None =>
              /\ sessions'[r].challenge = sessions[r].challenge
              /\ sessions'[r].challenge_exp = sessions[r].challenge_exp
              /\ sessions'[r].sender = sessions[r].sender
              /\ sessions'[r].room = sessions[r].room

\* Once a request is bound to a session (cas_update in process_request), the
\* account, the room, the challenge and its expiry never change, the row never
\* goes away, and its version only grows: what a phone was asked to approve
\* cannot be swapped under it.
BindingNeverChanges == [][BindingStays]_sessions

-----------------------------------------------------------------------------
(* The inductive invariant behind the safety properties *)

\* A busy handler works on an event it has received; inside a transaction it
\* has a row that exists and that its message names.
HandlerOK(h) ==
    /\ hs[h].pc \in {"received", "locked"} => hs[h].event \in EventIds /\ Msg(h) # None
    /\ hs[h].pc = "locked" =>
          /\ hs[h].reg \in Registrations
          /\ hs[h].row \in Row
          /\ sessions[hs[h].reg] # None
          /\ Msg(h).kind = "request" =>
                /\ Msg(h).qr.domain = hs[h].reg.domain
                /\ Msg(h).qr.session_id = hs[h].reg.session_id
                /\ Msg(h).qr.nonce = hs[h].reg.nonce
    /\ hs[h].pc = "send_challenge" => hs[h].out \in ChallengeNotice
    /\ hs[h].pc = "send_failure" => hs[h].out \in FailureResult

\* A worker has claims on jobs that exist; it takes the way of an accepted
\* assertion with an assertion only.
WorkerOK(w) ==
    /\ \A c \in ws[w].batch : c.id \in DOMAIN jobs
    /\ ws[w].pc \notin {"idle", "deliver"} =>
          ws[w].job \in Claim /\ ws[w].job.id \in DOMAIN jobs
    /\ ws[w].pc \in {"accepted", "locked", "send_result"} => CurrentId(w) \in Assertions
    /\ ws[w].pc \in {"locked", "send_result"} => ws[w].row \in Row

JobsHaveRows == \A j \in DOMAIN jobs : sessions[jobs[j].reg] # None

StateOK ==
    /\ TypeOK
    /\ \A h \in Handlers : HandlerOK(h)
    /\ \A w \in Workers : WorkerOK(w)
    /\ JobsHaveRows

\* The columns cas_update coalesces are set together, and challenges are drawn
\* once.
SessionBound(r) == sessions[r] # None /\ sessions[r].challenge # None

BindingOK ==
    \A r \in Registrations : SessionBound(r) =>
        /\ sessions[r].challenge <= challengeHashes
        /\ sessions[r].sender # None
        /\ sessions[r].room # None
        /\ sessions[r].challenge_exp # None
        /\ \A q \in Registrations :
              SessionBound(q) /\ sessions[q].challenge = sessions[r].challenge => q = r

\* The request that bound a session, in the replay table and the timeline.
RequestBehind(r, e) ==
    /\ timeline[e] # None
    /\ timeline[e].kind = "request"
    /\ timeline[e].sender = sessions[r].sender
    /\ timeline[e].room = sessions[r].room
    /\ timeline[e].qr.domain = r.domain
    /\ timeline[e].qr.session_id = r.session_id
    /\ timeline[e].qr.nonce = r.nonce

BoundByRequest ==
    \A r \in Registrations : SessionBound(r) => \E e \in requestEvents : RequestBehind(r, e)

\* A Challenge that is committed and not yet sent.
NoticeMatches(n) ==
    /\ SessionBound(n.reg)
    /\ sessions[n.reg].challenge = n.challenge
    /\ sessions[n.reg].room = n.room
    /\ sessions[n.reg].challenge_exp = n.expires_at

NoticesOK ==
    /\ \A n \in challengeNotices : NoticeMatches(n)
    /\ \A m, n \in challengeNotices : m.challenge = n.challenge => m = n
    /\ \A h \in Handlers : hs[h].pc = "send_challenge" =>
          /\ NoticeMatches(hs[h].out)
          /\ \A n \in challengeNotices : n.challenge # hs[h].out.challenge
          /\ \A g \in Handlers : hs[g].pc = "send_challenge" /\ g # h =>
                hs[g].out.challenge # hs[h].out.challenge

\* What the replay tables hold has been received, and a consent was received
\* signed.
EventsOK ==
    /\ \A e \in requestEvents : timeline[e] # None
    /\ \A e \in consentEvents : timeline[e] # None /\ timeline[e].kind = "consent"
    /\ \A e \in EventIds : timeline[e] # None => AcceptedBeforeTx(timeline[e])

\* What the steps of handlers, workers and crashes preserve together: the rows,
\* the replay tables, the notices in flight and the jobs agree (login.rs).
IInv ==
    /\ StateOK
    /\ RowLockGuardsSnapshot
    /\ BindingOK
    /\ BoundByRequest
    /\ NoticesOK
    /\ EventsOK
    /\ AssertionsFollowConsent
    /\ ConsentYieldsOneAssertion

-----------------------------------------------------------------------------
(* The inductive invariant behind the delivery *)

\* A challenge ends with its session; an assertion is about the account and the
\* room its session is bound to, and lives within its windows.
ChallengeEnds ==
    \A r \in Registrations : SessionBound(r) => sessions[r].challenge_exp <= r.exp

AssertionBound(j) ==
    /\ SessionBound(jobs[j].reg)
    /\ timeline[jobs[j].event].room = sessions[jobs[j].reg].room
    /\ timeline[jobs[j].event].sender = sessions[jobs[j].reg].sender
    /\ jobs[j].iat <= jobs[j].exp
    /\ jobs[j].exp <= jobs[j].reg.exp
    /\ jobs[j].exp <= jobs[j].iat + MAX_TTL_MS
    /\ jobs[j].iat <= sessions[jobs[j].reg].challenge_exp

AssertionsBound == \A j \in Assertions : AssertionBound(j)

\* A consent quotes a challenge that was sent.
ConsentsAsked ==
    \A e \in EventIds :
        timeline[e] # None /\ timeline[e].kind = "consent" =>
            \E n \in challengeNotices : n.challenge = timeline[e].challenge

\* A claim counts as an attempt of its job.
Counted(c) == c.attempts > 0 /\ jobs[c.id].attempts >= c.attempts

\* What the local state of a worker says of the job it is at.
WorkerTruth(w) ==
    /\ ws[w].pc \notin {"idle", "deliver"} => Counted(ws[w].job)
    /\ \A c \in ws[w].batch : Counted(c)
    /\ ws[w].pc \in {"accepted", "locked", "send_result", "mark_delivered"} =>
          CurrentId(w) \in accepted
    /\ ws[w].pc = "send_result" => ws[w].row.room = sessions[Current(w).reg].room
    /\ ws[w].pc = "mark_delivered" /\ CurrentId(w) \in Assertions =>
          \E n \in successResults : n.job = CurrentId(w)
    /\ ws[w].pc = "mark_failed" => Exhausted(ws[w].job)

WorkersTrue == \A w \in Workers : WorkerTruth(w)

\* A Result names the room and the subject of an assertion the site accepted.
ResultsTrue ==
    \A n \in successResults :
        /\ n.job \in accepted /\ n.job \in Assertions
        /\ jobs[n.job].sub = n.sub
        /\ n.room = sessions[jobs[n.job].reg].room

\* What claims, answers, commits, Results and marks preserve together, on top
\* of IInv (queue.rs, db/delivery.rs).
DInv ==
    /\ ChallengeEnds
    /\ AssertionsBound
    /\ ConsentsAsked
    /\ WorkersTrue
    /\ ResultsTrue
    /\ SettledJobsAreTrue
    /\ GrantMatchesLastJob

\* A revocation that was received names a subject that a Result had told, and
\* every revocation job comes from one that was received.
RevocationsKnown ==
    /\ \A e \in EventIds : timeline[e] # None /\ timeline[e].kind = "revocation" =>
          \E n \in successResults : n.sub = timeline[e].sub
    /\ \A j \in DOMAIN jobs : jobs[j].kind = "revocation" => timeline[jobs[j].event] # None

-----------------------------------------------------------------------------
(* Liveness *)

\* A handler inside a transaction ends it.
EndTx(h) ==
    /\ \/ IgnoreRequest(h) \/ IssueChallenge(h)
       \/ RejectExpiredConsent(h) \/ IgnoreConsent(h) \/ RefuseConsent(h) \/ ApproveConsent(h)
       \/ IgnoreRevocation(h) \/ RevokeGrant(h)
    /\ UNCHANGED <<registering, deliveryVars, faults>>

\* The delivery loop goes on: it ticks every second, every POST ends within its
\* timeouts, every other statement or send returns.
LoopGoesOn(w) ==
    /\ \/ ClaimDue(w)
       \/ \E c \in ws[w].batch : PostAccepted(w, c) \/ PostFails(w, c)
       \/ CommitDelivered(w)
       \/ SendResult(w) \/ ResultFails(w)
       \/ MarkDelivered(w) \/ MarkFailed(w)
    /\ UNCHANGED <<now, registering, loginVars, faults>>

\* PostgreSQL grants a row lock to the transactions that wait for it in turn.
GetsRowLock(w) ==
    /\ \E r \in Registrations : LockAccepted(w, r)
    /\ UNCHANGED <<now, registering, loginVars, faults>>

Fairness ==
    /\ \A h \in Handlers : WF_vars(EndTx(h))
    /\ \A w \in Workers : WF_vars(LoopGoesOn(w)) /\ SF_vars(GetsRowLock(w))
    /\ WF_vars(\E j \in DOMAIN jobs : RetryTime(j))

FairSpec == Spec /\ Fairness

\* Every job that is enqueued is one day delivered or given up, whatever the
\* site answers and however often the process crashes, if finitely often: again
\* and again there is a moment at which no job is left.  (Of finitely many
\* events; that each job settles is what this says of the loop in queue.rs.)
JobsSettle == []<>(\A j \in DOMAIN jobs : jobs[j].status # "pending")

-----------------------------------------------------------------------------
(* What the documents say and the code does not do *)

\* docs/web-login-relay-spec.md:207 "one consent per challenge".
OneConsentPerChallenge ==
    \A e1, e2 \in consentEvents :
        timeline[e1].challenge = timeline[e2].challenge => e1 = e2
=============================================================================
