------------------------- MODULE RelayPromiseProofs -------------------------
(***************************************************************************)
(* Relay implements LoginPromise, and a revocation follows a login.         *)
(***************************************************************************)
EXTENDS RelayDeliveryProofs, RelayPromise

-----------------------------------------------------------------------------
(* The mapped state *)

LoginSide == <<OpenedRows, Bindings, AskedBindings>>
DeliverySide == <<Statements, Outcomes, accepted, ToldAccounts>>

\* No row appears or goes away.
SameRows == \A q \in Registrations : sessions'[q] # None <=> sessions[q] # None

\* A notice is about a session that is bound.
LEMMA NoticeBound ==
    ASSUME StateOK, NoticesOK, NEW n \in challengeNotices
    PROVE  n \in ChallengeNotice /\ n.reg \in Registrations /\ SessionBound(n.reg)
  BY DEF StateOK, TypeOK, LoginTypeOK, ChallengeNotice, NoticesOK, NoticeMatches

\* The promise sees nothing of a step that keeps the bindings and the notices.
LEMMA BindingsSideKept ==
    ASSUME StateOK, NoticesOK, BindingsKept
    PROVE  /\ UNCHANGED Bindings
           /\ \A n \in challengeNotices : BindingOf(n.reg)' = BindingOf(n.reg)
           /\ UNCHANGED challengeNotices => UNCHANGED AskedBindings
  <1>2. ASSUME NEW q \in Registrations, SessionBound(q) PROVE BindingOf(q)' = BindingOf(q)
    BY <1>2 DEF BindingsKept, BindingKept, BindingOf
  <1>3. \A q \in Registrations : SessionBound(q)' <=> SessionBound(q)
    BY DEF BindingsKept
  <1>4. UNCHANGED Bindings
    BY <1>2, <1>3 DEF Bindings
  <1>5. \A n \in challengeNotices : BindingOf(n.reg)' = BindingOf(n.reg)
    BY <1>2, NoticeBound
  <1>6. UNCHANGED challengeNotices => UNCHANGED AskedBindings
    BY <1>5 DEF AskedBindings
  <1> QED
    BY <1>4, <1>5, <1>6

\* ... and nothing at all if no row appears either.
LEMMA LoginSideKept ==
    ASSUME StateOK, NoticesOK, BindingsKept, SameRows, UNCHANGED challengeNotices
    PROVE  UNCHANGED LoginSide
  BY BindingsSideKept DEF SameRows, OpenedRows, LoginSide

\* The promise sees nothing of a step that keeps the jobs and their statuses.
LEMMA StatementsKept ==
    ASSUME DOMAIN jobs' = DOMAIN jobs, \A j \in DOMAIN jobs : JobKept(j)
    PROVE  /\ UNCHANGED Statements
           /\ (\A j \in DOMAIN jobs : jobs'[j].status = jobs[j].status) => UNCHANGED Outcomes
  <1>1. \A j \in DOMAIN jobs : StatementOf(jobs'[j]) = StatementOf(jobs[j])
    BY DEF JobKept, StatementOf
  <1> QED
    BY <1>1 DEF Statements, Outcomes

\* Two sequences with the same elements are equal.
LEMMA SameElements ==
    ASSUME NEW S, NEW s \in Seq(S), NEW t \in Seq(S), Len(s) = Len(t),
           \A i \in 1 .. Len(s) : s[i] = t[i]
    PROVE  s = t
  OBVIOUS

\* Appending to a sequence that is given as a function.
LEMMA AppendedTo ==
    ASSUME NEW n \in Nat, NEW S, NEW f \in [1 .. n -> S], NEW x \in S,
           NEW g \in [1 .. n + 1 -> S],
           g[n + 1] = x, \A i \in 1 .. n : g[i] = f[i]
    PROVE  g = Append(f, x)
  <1>1. f \in Seq(S) /\ Len(f) = n
    OBVIOUS
  <1>2. g \in Seq(S) /\ Len(g) = n + 1
    OBVIOUS
  <1>3. Append(f, x) \in Seq(S) /\ Len(Append(f, x)) = n + 1
    BY <1>1
  <1>4. \A i \in 1 .. n + 1 : Append(f, x)[i] = g[i]
    BY <1>1
  <1> QED
    BY <1>2, <1>3, <1>4, SameElements

\* enqueue makes one statement, which is pending.
LEMMA StatementMade ==
    ASSUME jobs \in Seq(Job), NEW job \in Job, JobEnqueued(job), Fresh(job)
    PROVE  /\ Statements' = Append(Statements, StatementOf(job))
           /\ Outcomes' = Append(Outcomes, "pending")
  <1>1. PICK n \in Nat : n = Len(jobs) /\ DOMAIN jobs = 1 .. n
    OBVIOUS
  <1>2. /\ DOMAIN jobs' = 1 .. n + 1 /\ jobs'[n + 1] = job
        /\ \A j \in 1 .. n : jobs'[j] = jobs[j]
    BY <1>1 DEF JobEnqueued
  <1> DEFINE S == {StatementOf(jobs[j]) : j \in 1 .. n} \cup {StatementOf(job)}
             T == {jobs[j].status : j \in 1 .. n} \cup {"pending"}
  <1>3. Statements \in [1 .. n -> S] /\ Outcomes \in [1 .. n -> T]
    BY <1>1 DEF Statements, Outcomes
  <1>4. StatementOf(job) \in S /\ "pending" \in T
    OBVIOUS
  <1> HIDE DEF S, T
  <1>5. Statements' = [j \in 1 .. n + 1 |-> StatementOf(jobs'[j])]
        /\ Outcomes' = [j \in 1 .. n + 1 |-> jobs'[j].status]
    BY <1>2 DEF Statements, Outcomes
  <1>6. /\ DOMAIN Statements' = 1 .. n + 1 /\ Statements'[n + 1] = StatementOf(job)
        /\ \A i \in 1 .. n : Statements'[i] = Statements[i]
    BY <1>1, <1>2, <1>5 DEF Statements
  <1>7. /\ DOMAIN Outcomes' = 1 .. n + 1 /\ Outcomes'[n + 1] = "pending"
        /\ \A i \in 1 .. n : Outcomes'[i] = Outcomes[i]
    BY <1>1, <1>2, <1>5 DEF Outcomes, Fresh
  <1>8. Statements' \in [1 .. n + 1 -> S] /\ Outcomes' \in [1 .. n + 1 -> T]
    <2>1. \A i \in 1 .. n : Statements[i] \in S /\ Outcomes[i] \in T
      BY <1>3
    <2>2. \A i \in 1 .. n + 1 : Statements'[i] \in S /\ Outcomes'[i] \in T
      BY <1>4, <1>6, <1>7, <2>1
    <2> QED
      BY <1>5, <2>2
  <1>9. PICK f, g, x, o, p : f = Statements /\ g = Statements' /\ x = StatementOf(job)
                             /\ o = Outcomes /\ p = Outcomes'
    OBVIOUS
  <1>10. g = Append(f, x)
    BY <1>3, <1>4, <1>6, <1>8, <1>9, AppendedTo
  <1>11. p = Append(o, "pending")
    BY <1>3, <1>4, <1>7, <1>8, <1>9, AppendedTo
  <1> QED
    BY <1>9, <1>10, <1>11

-----------------------------------------------------------------------------
(* Which steps the promise sees *)

\* Rows appear in insert_registered only.
LEMMA RowsStep ==
    ASSUME StateOK, RowLockGuardsSnapshot, [Next]_vars
    PROVE  SameRows \/ \E r \in Registrations : Register(r) /\ InsertRegistration(r)
  <1> DEFINE NoneStays == \A q \in Registrations : sessions[q] = None => sessions'[q] = None
  <1>1. VersionsGrow /\ sessions \in [Registrations -> Row \cup {None}]
    BY BindingStep DEF StateOK, TypeOK, DbTypeOK
  <1>2. SUFFICES NoneStays \/ \E r \in Registrations : Register(r) /\ InsertRegistration(r)
    BY <1>1 DEF VersionsGrow, SameRows
  <1>3. CASE UNCHANGED sessions
    BY <1>3
  <1>4. ASSUME NEW r \in Registrations, sessions[r] # None,
               \E v, st, a, b, c, d : sessions' = cas_update(r, v, st, a, b, c, d)
        PROVE  NoneStays
    BY <1>1, <1>4 DEF cas_update
  <1>5. ASSUME NEW h \in Handlers, Handle(h)
        PROVE  NoneStays
    <2>1. CASE IssueChallenge(h) \/ RefuseConsent(h) \/ ApproveConsent(h) \/ RevokeGrant(h)
      <3>1. hs[h].pc = "locked"
        BY <2>1 DEF IssueChallenge, RefuseConsent, ApproveConsent, AcceptConsent, RevokeGrant, InTx
      <3>2. PICK r \in Registrations : r = hs[h].reg /\ sessions[r] # None
        BY <3>1, InsideTx
      <3>3. \E v, st, a, b, c, d : sessions' = cas_update(r, v, st, a, b, c, d)
        BY <2>1, <3>2 DEF IssueChallenge, RefuseConsent, ApproveConsent, RevokeGrant, cas_state
      <3> QED
        BY <1>4, <3>2, <3>3
    <2>2. CASE ~(IssueChallenge(h) \/ RefuseConsent(h) \/ ApproveConsent(h) \/ RevokeGrant(h))
      BY <1>3, <1>5, <2>2, Zenon
         DEF Handle, HandlerStep, SelectFails, DbError, RejectExpiredConsent, IgnoreRequest,
             IgnoreConsent, IgnoreRevocation, LeaveTx, SendChallenge, SendFailure, NoticeFails,
             SelectForUpdate, dbVars
    <2> QED
      BY <2>1, <2>2
  <1>6. ASSUME NEW w \in Workers, Deliver(w) \/ AbortTick(w)
        PROVE  NoneStays
    <2>1. CASE CommitDelivered(w)
      <3>1. PICK r \in Registrations : r = Current(w).reg /\ sessions[r] # None
        BY <2>1, AtJob DEF CommitDelivered
      <3>2. \E v, st, a, b, c, d : sessions' = cas_update(r, v, st, a, b, c, d)
        BY <2>1, <3>1 DEF CommitDelivered, cas_state
      <3> QED
        BY <1>4, <3>1, <3>2
    <2>2. CASE ~CommitDelivered(w)
      BY <1>3, <1>6, <2>2, Zenon
         DEF Deliver, AbortTick, WorkerStep, ClaimDue, ClaimRows, PostAccepted, PostFails,
             LockAccepted, AcceptedDbError, SendResult, ResultFails, MarkDelivered,
             MarkFailed, MarkFails, dbVars
    <2> QED
      BY <2>1, <2>2
  <1>7. CASE \/ UNCHANGED vars \/ ClockTick \/ Crash
             \/ \E h \in Handlers, e \in EventIds, m \in Messages : Receive(h, e, m)
             \/ \E j \in DOMAIN jobs : RetryTime(j)
    BY <1>3, <1>7 DEF vars, ClockTick, Crash, Receive, HandleInbound, RetryTime,
                      RetryTimeReached, dbVars
  <1>8. CASE \E r \in Registrations : Register(r)
    BY <1>3, <1>8 DEF Register, RegistrationStep, ValidateRegistration, RegistrationFails, dbVars
  <1> HIDE DEF NoneStays
  <1> QED
    BY <1>5, <1>6, <1>7, <1>8 DEF Next

\* The login side moves in three kinds of steps only.
LEMMA LoginSideStep ==
    ASSUME StateOK, RowLockGuardsSnapshot, NoticesOK, [Next]_vars
    PROVE  \/ UNCHANGED LoginSide
           \/ \E r \in Registrations : Register(r) /\ InsertRegistration(r)
           \/ \E h \in Handlers : Handle(h) /\ (SendChallenge(h) \/ IssueChallenge(h))
  BY BindingStep, QuietStep, RowsStep, LoginSideKept DEF NoticesQuiet

\* The delivery side moves in five kinds of steps only.
LEMMA DeliverySideStep ==
    ASSUME StateOK, [Next]_vars
    PROVE  \/ UNCHANGED DeliverySide
           \/ \E h \in Handlers : Handle(h) /\ (ApproveConsent(h) \/ RevokeGrant(h))
           \/ \E w \in Workers :
                 /\ Deliver(w)
                 /\ \/ \E c \in ws[w].batch : PostAccepted(w, c) \/ PostFails(w, c)
                    \/ SendResult(w) \/ ResultFails(w) \/ MarkDelivered(w) \/ MarkFailed(w)
  <1>1. ASSUME DOMAIN jobs' = DOMAIN jobs,
               \A j \in DOMAIN jobs : JobKept(j) /\ jobs'[j].status = jobs[j].status
        PROVE  UNCHANGED <<Statements, Outcomes>>
    BY <1>1, StatementsKept
  <1>2. UNCHANGED jobs => UNCHANGED <<Statements, Outcomes>>
    BY DEF Statements, Outcomes
  <1>3. UNCHANGED successResults => UNCHANGED ToldAccounts
    BY DEF ToldAccounts, Told
  <1>4. CASE JobsRetried /\ UNCHANGED <<grants, ws, accepted, successResults>>
    BY <1>1, <1>3, <1>4 DEF JobsRetried, DeliverySide
  <1>5. ASSUME NEW w \in Workers, Deliver(w), ClaimDue(w)
        PROVE  UNCHANGED DeliverySide
    <2>1. jobs \in Seq(Job)
      BY DEF StateOK, TypeOK, DbTypeOK
    <2>2. PICK S \in SUBSET DueJobs : JobsClaimed(S)
      BY <1>5, <2>1, ClaimsDueJobs, ClaimFacts
    <2>3. UNCHANGED <<Statements, Outcomes>>
      BY <1>1, <2>2 DEF JobsClaimed, JobKept
    <2> QED
      BY <1>3, <1>5, <2>3 DEF ClaimDue, ClaimRows, DeliverySide
  <1>6. CASE UNCHANGED jobs
    <2>1. UNCHANGED <<accepted, successResults>> => UNCHANGED DeliverySide
      BY <1>2, <1>3, <1>6 DEF DeliverySide
    <2>2. ASSUME NEW w \in Workers, Deliver(w) \/ AbortTick(w)
          PROVE  \/ UNCHANGED <<accepted, successResults>>
                 \/ /\ Deliver(w)
                    /\ \/ \E c \in ws[w].batch : PostAccepted(w, c) \/ PostFails(w, c)
                       \/ SendResult(w) \/ ResultFails(w)
      BY <2>2, Zenon DEF Deliver, AbortTick, WorkerStep, ClaimDue, ClaimRows, LockAccepted,
                         CommitDelivered, AcceptedDbError, ResultFails, MarkDelivered,
                         MarkFailed, MarkFails
    <2> QED
      BY <2>1, <2>2, WorkersIdleOrStay DEF deliveryVars
  <1> QED
    BY <1>4, <1>5, <1>6, JobsStep

-----------------------------------------------------------------------------
(* The steps of the login side *)

PromiseStep == Promise!Next \/ UNCHANGED Promise!promiseVars

\* A step that neither side sees.
LEMMA Stutters ==
    ASSUME UNCHANGED LoginSide, UNCHANGED DeliverySide
    PROVE  PromiseStep
  BY DEF LoginSide, DeliverySide, PromiseStep, Promise!promiseVars

\* insert_registered opens a login, or does nothing.
LEMMA InsertOpens ==
    ASSUME StateOK, NoticesOK, NEW r \in Registrations, Register(r), InsertRegistration(r),
           UNCHANGED DeliverySide
    PROVE  PromiseStep
  <1>1. BindingsKept /\ UNCHANGED challengeNotices
    BY InsertKeeps DEF Register, loginVars
  <1>2. UNCHANGED <<Bindings, AskedBindings>>
    BY <1>1, BindingsSideKept
  <1>3. CASE UniqueViolation(r)
    BY <1>2, <1>3, Stutters DEF InsertRegistration, insert_registered, OpenedRows, LoginSide
  <1>4. CASE ~UniqueViolation(r)
    <2>1. RegisteredRow \in Row /\ RegisteredRow # None
      BY NoneAssumption DEF RegisteredRow, Row, SessionStates
    <2>2. OpenedRows' = OpenedRows \cup {r}
      BY <1>4, <2>1 DEF OpenedRows, InsertRegistration, insert_registered, StateOK, TypeOK, DbTypeOK
    <2>3. OpenedRows \cap ClashingRows[r] = {}
      BY <1>4 DEF OpenedRows, ClashingRows, UniqueViolation
    <2>4. Promise!Open(r)
      BY <1>2, <2>2, <2>3 DEF Promise!Open, DeliverySide
    <2> QED
      BY <2>4 DEF PromiseStep, Promise!Next
  <1> QED
    BY <1>3, <1>4

\* The commit of a challenge binds a login that was not bound.
LEMMA IssueIsBind ==
    ASSUME StateOK, RowLockGuardsSnapshot, NoticesOK, NEW h \in Handlers, Handle(h),
           IssueChallenge(h), UNCHANGED DeliverySide
    PROVE  PromiseStep
  <1>1. Binds(h)
    BY IssueBinds DEF Handle
  <1>2. PICK r, a, p : r = hs[h].reg /\ a = Msg(h).sender /\ p = Msg(h).room
    OBVIOUS
  <1>3. /\ r \in Registrations /\ ~SessionBound(r) /\ a \in Users /\ p \in Rooms
        /\ sessions'[r] # None /\ sessions'[r].challenge # None
        /\ sessions'[r].sender = a /\ sessions'[r].room = p
        /\ \A q \in Registrations : q # r => sessions'[q] = sessions[q]
    BY <1>1, <1>2 DEF Binds
  <1>4. sessions[r] # None /\ UNCHANGED challengeNotices
    BY <1>2, InsideTx DEF IssueChallenge, InTx
  <1>5. UNCHANGED OpenedRows /\ r \in OpenedRows
    BY <1>3, <1>4 DEF OpenedRows
  <1>6. /\ \A q \in Registrations : q # r =>
              (SessionBound(q)' <=> SessionBound(q)) /\ BindingOf(q)' = BindingOf(q)
        /\ SessionBound(r)' /\ BindingOf(r)' = [login |-> r, account |-> a, room |-> p]
    BY <1>3 DEF SessionBound, BindingOf
  <1>7. Bindings' = Bindings \cup {[login |-> r, account |-> a, room |-> p]}
    BY <1>3, <1>6 DEF Bindings
  <1>8. \A b \in Bindings : b.login # r
    BY <1>3 DEF Bindings, BindingOf
  <1>9. \A n \in challengeNotices : BindingOf(n.reg)' = BindingOf(n.reg)
    BY <1>3, <1>6, NoticeBound
  <1>10. UNCHANGED AskedBindings
    BY <1>4, <1>9 DEF AskedBindings
  <1>11. Promise!Bind(r, a, p)
    BY <1>5, <1>7, <1>8, <1>10 DEF Promise!Bind, DeliverySide
  <1> QED
    BY <1>3, <1>11 DEF PromiseStep, Promise!Next

\* The Challenge is sent to a login that is bound.
LEMMA SendIsAsk ==
    ASSUME StateOK, NoticesOK, NEW h \in Handlers, Handle(h),
           SendChallenge(h), UNCHANGED DeliverySide
    PROVE  PromiseStep
  <1>1. PICK n : n = hs[h].out
    OBVIOUS
  <1>2. n \in ChallengeNotice /\ SessionBound(n.reg) /\ n.reg \in Registrations
    BY <1>1, Zenon DEF SendChallenge, StateOK, HandlerOK, NoticesOK, NoticeMatches, ChallengeNotice
  <1>3. UNCHANGED sessions /\ challengeNotices' = challengeNotices \cup {n}
    BY <1>1 DEF SendChallenge, dbVars
  <1>4. UNCHANGED <<OpenedRows, Bindings>>
    BY <1>3 DEF OpenedRows, Bindings, SessionBound, BindingOf
  <1>5. PICK b : b = BindingOf(n.reg)
    OBVIOUS
  <1>6. b \in Bindings
    BY <1>2, <1>5 DEF Bindings
  <1>7. AskedBindings' = AskedBindings \cup {b}
    BY <1>3, <1>5 DEF AskedBindings, BindingOf
  <1>8. Promise!Ask(b)
    BY <1>4, <1>7 DEF Promise!Ask, DeliverySide
  <1> QED
    BY <1>6, <1>8 DEF PromiseStep, Promise!Next

-----------------------------------------------------------------------------
(* The steps of the delivery side *)

\* An approved consent comes from an account that was asked.
LEMMA ApprovalAsked ==
    ASSUME IInv, DInv, NEW h \in Handlers, ApproveConsent(h)
    PROVE  /\ hs[h].reg \in Registrations
           /\ BindingOf(hs[h].reg) \in AskedBindings
           /\ sessions[hs[h].reg].sender = Msg(h).sender
           /\ hs[h].event \in EventIds /\ hs[h].event \notin consentEvents
  <1>1. StateOK /\ RowLockGuardsSnapshot /\ BindingOK /\ NoticesOK /\ ConsentsAsked
    BY DEF IInv, DInv
  <1>2. /\ hs[h].pc = "locked" /\ Msg(h).kind = "consent" /\ hs[h].event \notin consentEvents
        /\ Msg(h).challenge = hs[h].row.challenge /\ Msg(h).sender = hs[h].row.sender
    BY Zenon DEF ApproveConsent, AcceptConsent, InTx, ConsentMatches, ConsentReplayed
  <1>3. PICK r, e : r = hs[h].reg /\ e = hs[h].event
    OBVIOUS
  <1>4. r \in Registrations /\ sessions[r] # None /\ e \in EventIds /\ timeline[e] # None
    BY <1>1, <1>2, <1>3, InsideTx DEF Msg
  <1>5. sessions[r] = hs[h].row
    BY <1>1, <1>2, <1>3 DEF RowLockGuardsSnapshot, HandlerHolds
  <1>6. PICK n \in challengeNotices : n.challenge = sessions[r].challenge
    BY <1>1, <1>2, <1>3, <1>4, <1>5 DEF ConsentsAsked, Msg
  <1>7. n \in ChallengeNotice /\ n.reg \in Registrations /\ SessionBound(n.reg)
        /\ sessions[n.reg].challenge = n.challenge
    BY <1>1, NoticeBound, Zenon DEF NoticesOK, NoticeMatches
  <1>8. n.challenge # None
    BY <1>7, NoneAssumption DEF ChallengeNotice
  <1>9. SessionBound(r)
    BY <1>4, <1>6, <1>8 DEF SessionBound
  <1>10. n.reg = r
    BY <1>1, <1>4, <1>6, <1>7, <1>9 DEF BindingOK
  <1> QED
    BY <1>2, <1>3, <1>4, <1>5, <1>10 DEF AskedBindings

\* The commit of an approval is an assertion about the account that was asked.
LEMMA ApproveIsApprove ==
    ASSUME IInv, DInv, NEW h \in Handlers, Handle(h), ApproveConsent(h), UNCHANGED LoginSide
    PROVE  PromiseStep
  <1>1. StateOK /\ jobs \in Seq(Job) /\ AssertionsFollowConsent
    BY DEF IInv, StateOK, TypeOK, DbTypeOK
  <1>2. PICK job \in Job :
          /\ JobEnqueued(job) /\ Fresh(job)
          /\ job.kind = "assertion" /\ job.reg = hs[h].reg /\ job.event = hs[h].event
          /\ job.sub = derive_pairwise_sub(hs[h].reg.domain, Msg(h).sender)
    BY <1>1, ApproveFacts
  <1>3. PICK r, t, b : r = hs[h].reg /\ t = hs[h].event /\ b = BindingOf(r)
    OBVIOUS
  <1>4. /\ r \in Registrations /\ b \in AskedBindings /\ t \in EventIds /\ t \notin consentEvents
        /\ sessions[r].sender = Msg(h).sender
    BY <1>3, ApprovalAsked
  <1>5. b.login = r /\ b.account = Msg(h).sender
    BY <1>3, <1>4 DEF BindingOf
  <1>6. Promise!Subject(b.login, b.account) = job.sub
    BY <1>2, <1>3, <1>4, <1>5 DEF Promise!Subject, SiteOfRow, derive_pairwise_sub
  <1>7. Promise!State("assertion", b.login, Promise!Subject(b.login, b.account), t)
    <2>1. StatementOf(job) = [kind |-> "assertion", login |-> b.login,
                              sub |-> Promise!Subject(b.login, b.account), ticket |-> t]
      BY <1>2, <1>3, <1>5, <1>6 DEF StatementOf
    <2>2. /\ Statements' = Append(Statements, StatementOf(job))
          /\ Outcomes' = Append(Outcomes, "pending")
      BY <1>1, <1>2, StatementMade
    <2> QED
      BY <2>1, <2>2 DEF Promise!State
  <1>8. \A i \in DOMAIN Statements : Statements[i].kind = "assertion" => Statements[i].ticket # t
    BY <1>1, <1>4, Zenon
       DEF Statements, StatementOf, AssertionsFollowConsent, Assertions, ConsentBehind
  <1>9. UNCHANGED <<accepted, ToldAccounts>>
    BY DEF Handle, deliveryVars, ToldAccounts, Told
  <1>10. Promise!Approve(b, t)
    BY <1>7, <1>8, <1>9, Zenon DEF Promise!Approve, LoginSide
  <1> QED
    BY <1>4, <1>10 DEF PromiseStep, Promise!Next

\* A grant is revoked only while the last statement about it is an assertion.
LEMMA RevokeIsRevoke ==
    ASSUME IInv, DInv, NEW h \in Handlers, Handle(h), RevokeGrant(h), UNCHANGED LoginSide
    PROVE  PromiseStep
  <1>1. StateOK /\ jobs \in Seq(Job) /\ GrantMatchesLastJob
    BY DEF IInv, DInv, StateOK, TypeOK, DbTypeOK
  <1>2. PICK job \in Job :
          /\ JobEnqueued(job) /\ Fresh(job)
          /\ job.kind = "revocation" /\ job.reg = hs[h].reg /\ job.event = hs[h].event
          /\ job.sub = Msg(h).sub
    BY <1>1, RevokeFacts, Zenon
  <1>3. PICK l, a, t : l = hs[h].reg /\ a = Msg(h).sender /\ t = hs[h].event
    OBVIOUS
  <1>4. /\ hs[h].pc = "locked" /\ Msg(h).sub[1] = l.domain /\ Msg(h).sub[2] = a
        /\ grants[Msg(h).sub] = "active"
    BY <1>3 DEF RevokeGrant, InTx, RevocationApplies
  <1>5. l \in Registrations /\ l \in OpenedRows /\ t \in EventIds /\ Msg(h) \in Message
    BY <1>1, <1>3, <1>4, InsideTx DEF OpenedRows
  <1>6. a \in Users /\ Msg(h).sub \in Subjects
    BY <1>3, <1>5 DEF Message
  <1>7. Promise!Subject(l, a) = job.sub
    BY <1>2, <1>4, <1>5, <1>6 DEF Promise!Subject, SiteOfRow, Subjects
  <1>8. Promise!State("revocation", l, Promise!Subject(l, a), t)
    <2>1. StatementOf(job) = [kind |-> "revocation", login |-> l,
                              sub |-> Promise!Subject(l, a), ticket |-> t]
      BY <1>2, <1>3, <1>7 DEF StatementOf
    <2>2. /\ Statements' = Append(Statements, StatementOf(job))
          /\ Outcomes' = Append(Outcomes, "pending")
      BY <1>1, <1>2, StatementMade
    <2> QED
      BY <2>1, <2>2 DEF Promise!State
  <1>9. Promise!HasAccess(Promise!Subject(l, a))
    <2>1. PICK j \in DOMAIN jobs :
            /\ jobs[j].sub = job.sub /\ jobs[j].kind = "assertion"
            /\ \A k \in DOMAIN jobs : jobs[k].sub = job.sub => k <= j
      BY <1>1, <1>2, <1>4, <1>6 DEF GrantMatchesLastJob
    <2> QED
      BY <1>7, <2>1 DEF Promise!HasAccess, Statements, StatementOf
  <1>10. UNCHANGED <<accepted, ToldAccounts>>
    BY DEF Handle, deliveryVars, ToldAccounts, Told
  <1>11. Promise!Revoke(l, a, t)
    BY <1>8, <1>9, <1>10 DEF Promise!Revoke, LoginSide
  <1> QED
    BY <1>5, <1>6, <1>11 DEF PromiseStep, Promise!Next

\* The answer of a site: accepted, or not known to be.
LEMMA PostIsAccept ==
    ASSUME IInv, NEW w \in Workers, NEW c \in ws[w].batch,
           PostAccepted(w, c) \/ PostFails(w, c), UNCHANGED LoginSide
    PROVE  PromiseStep
  <1>1. c.id \in DOMAIN jobs
    BY DEF IInv, StateOK, WorkerOK
  <1>2. UNCHANGED <<Statements, Outcomes, ToldAccounts>>
    BY Zenon DEF PostAccepted, PostFails, dbVars, Statements, Outcomes, ToldAccounts, Told
  <1>3. CASE UNCHANGED accepted
    BY <1>2, <1>3, Stutters DEF DeliverySide
  <1>4. CASE accepted' = accepted \cup {c.id}
    <2>1. Promise!Accept(c.id)
      BY <1>2, <1>4 DEF Promise!Accept, LoginSide
    <2>2. c.id \in DOMAIN Statements
      BY <1>1 DEF Statements
    <2> QED
      BY <2>1, <2>2 DEF PromiseStep, Promise!Next
  <1> QED
    BY <1>3, <1>4 DEF PostAccepted, PostFails

\* A success is told, in its room, to the account of an accepted assertion,
\* whether or not the send is acknowledged.
LEMMA ResultIsTell ==
    ASSUME IInv, DInv, NEW w \in Workers, SendResult(w) \/ ResultFails(w), UNCHANGED LoginSide
    PROVE  PromiseStep
  <1>1. StateOK /\ jobs \in Seq(Job) /\ WorkerTruth(w) /\ AssertionsBound
        /\ AssertionsFollowConsent /\ ConsentsAsked /\ NoticesOK /\ BindingOK /\ EventsOK
    BY DEF IInv, DInv, WorkersTrue, StateOK, TypeOK, DbTypeOK
  <1>2. PICK i : i = CurrentId(w)
    OBVIOUS
  <1>3. ws[w].pc = "send_result" /\ WorkerOK(w)
    BY <1>1 DEF SendResult, ResultFails, StateOK
  <1>4. i \in accepted /\ i \in Assertions /\ i \in DOMAIN jobs
        /\ ws[w].row.room = sessions[jobs[i].reg].room
    BY <1>1, <1>2, <1>3 DEF WorkerTruth, WorkerOK, Current, Assertions
  <1>5. PICK r, e : r = jobs[i].reg /\ e = jobs[i].event
    OBVIOUS
  <1>6. r \in Registrations /\ e \in EventIds
    BY <1>1, <1>4, <1>5, JobFields
  <1>7. /\ e \in consentEvents /\ timeline[e].challenge = sessions[r].challenge
        /\ timeline[e].kind = "consent" /\ timeline[e] # None
        /\ jobs[i].sub = derive_pairwise_sub(r.domain, timeline[e].sender)
    BY <1>1, <1>4, <1>5 DEF AssertionsFollowConsent, ConsentBehind, EventsOK
  <1>8. SessionBound(r) /\ timeline[e].sender = sessions[r].sender
    BY <1>1, <1>4, <1>5, Zenon DEF AssertionsBound, AssertionBound
  <1>9. PICK n \in challengeNotices : n.challenge = sessions[r].challenge
    BY <1>1, <1>6, <1>7 DEF ConsentsAsked
  <1>10. n.reg \in Registrations /\ SessionBound(n.reg) /\ sessions[n.reg].challenge = n.challenge
    BY <1>1, NoticeBound, Zenon DEF NoticesOK, NoticeMatches
  <1>11. n.reg = r
    BY <1>1, <1>6, <1>8, <1>9, <1>10 DEF BindingOK
  <1>12. PICK b : b = BindingOf(r)
    OBVIOUS
  <1>13. b \in AskedBindings /\ b.login = r /\ b.account = sessions[r].sender
         /\ b.room = sessions[r].room
    BY <1>11, <1>12 DEF AskedBindings, BindingOf
  <1>14. /\ Statements[i].kind = "assertion" /\ Statements[i].login = b.login
         /\ Statements[i].sub = Promise!Subject(b.login, b.account)
    BY <1>4, <1>5, <1>6, <1>7, <1>8, <1>13, Zenon
       DEF Statements, StatementOf, Assertions, Promise!Subject, SiteOfRow, derive_pairwise_sub
  <1>15. UNCHANGED <<Statements, Outcomes, accepted>>
    BY DEF SendResult, ResultFails, dbVars, Statements, Outcomes
  <1>16. CASE UNCHANGED successResults
    <2>1. UNCHANGED ToldAccounts
      BY <1>16 DEF ToldAccounts, Told
    <2> QED
      BY <1>15, <2>1, Stutters DEF DeliverySide
  <1>17. CASE successResults' = successResults \cup {ResultOf(w)}
    <2>1. Told(ResultOf(w)) = [statement |-> i, room |-> b.room]
      BY <1>2, <1>4, <1>5, <1>13 DEF ResultOf, Told
    <2>2. ToldAccounts' = ToldAccounts \cup {[statement |-> i, room |-> b.room]}
      <3>1. PICK m : m = ResultOf(w)
        OBVIOUS
      <3>2. Told(m) = [statement |-> i, room |-> b.room] /\ successResults' = successResults \cup {m}
        BY <1>17, <2>1, <3>1
      <3> QED
        BY <3>2 DEF ToldAccounts, Told
    <2>3. Promise!Tell(i, b)
      BY <1>4, <1>14, <1>15, <2>2, Zenon DEF Promise!Tell, LoginSide
    <2> QED
      BY <1>4, <1>13, <2>3, Zenon DEF PromiseStep, Promise!Next
  <1> QED
    BY <1>16, <1>17 DEF SendResult, ResultFails

\* A job is settled as its statement is.
LEMMA MarkIsOutcome ==
    ASSUME IInv, DInv, NEW w \in Workers, MarkDelivered(w) \/ MarkFailed(w),
           UNCHANGED LoginSide
    PROVE  PromiseStep
  <1>1. StateOK /\ jobs \in Seq(Job) /\ WorkerTruth(w)
    BY DEF IInv, DInv, WorkersTrue, StateOK, TypeOK, DbTypeOK
  <1>2. PICK i \in DOMAIN jobs : i = CurrentId(w)
    BY <1>1, AtJob DEF MarkDelivered, MarkFailed
  <1>3. ASSUME NEW s, JobMarked(i, s)
        PROVE  UNCHANGED Statements /\ Outcomes' = [Outcomes EXCEPT ![i] = s]
    BY <1>3, StatementsKept, Zenon DEF JobMarked, Outcomes
  <1>4. UNCHANGED <<accepted, ToldAccounts>> /\ i \in DOMAIN Statements
    BY DEF MarkDelivered, MarkFailed, ToldAccounts, Told, Statements
  <1>5. CASE MarkDelivered(w)
    <2>1. JobMarked(i, "delivered")
      BY <1>1, <1>2, <1>5, MarkFacts DEF MarkDelivered
    <2>2. i \in accepted /\ (i \in Assertions => \E n \in successResults : n.job = i)
      BY <1>1, <1>2, <1>5, Zenon DEF MarkDelivered, WorkerTruth
    <2>3. Statements[i].kind = "assertion" => \E t \in ToldAccounts : t.statement = i
      <3>1. Statements[i].kind = "assertion" => i \in Assertions
        BY DEF Statements, StatementOf, Assertions
      <3>2. \A n \in successResults : Told(n) \in ToldAccounts /\ Told(n).statement = n.job
        BY DEF ToldAccounts, Told
      <3> QED
        BY <2>2, <3>1, <3>2
    <2>4. Promise!Deliver(i)
      BY <1>3, <1>4, <2>1, <2>2, <2>3 DEF Promise!Deliver, LoginSide
    <2> QED
      BY <1>4, <2>4, Zenon DEF PromiseStep, Promise!Next
  <1>6. CASE MarkFailed(w)
    <2>1. JobMarked(i, "failed")
      BY <1>1, <1>2, <1>6, MarkFacts DEF MarkFailed
    <2>2. Promise!GiveUp(i)
      BY <1>3, <1>4, <2>1 DEF Promise!GiveUp, LoginSide
    <2> QED
      BY <1>4, <2>2, Zenon DEF PromiseStep, Promise!Next
  <1> QED
    BY <1>5, <1>6

-----------------------------------------------------------------------------
(* The refinement *)

\* Every step of the relay is a step of the promise, or none.
LEMMA NextKeepsPromise ==
    ASSUME IInv, DInv, [Next]_vars
    PROVE  PromiseStep
  <1>1. StateOK /\ RowLockGuardsSnapshot /\ NoticesOK
    BY DEF IInv
  <1>2. CASE UNCHANGED DeliverySide
    BY <1>1, <1>2, LoginSideStep, Stutters, InsertOpens, IssueIsBind, SendIsAsk
  <1>3. ASSUME NEW h \in Handlers, Handle(h), ApproveConsent(h) \/ RevokeGrant(h)
        PROVE  PromiseStep
    <2>1. PICK job \in Job : JobEnqueued(job)
      BY <1>1, <1>3, ApproveFacts, RevokeFacts
    <2>2. jobs' # jobs /\ UNCHANGED registering
      BY <1>3, <2>1 DEF JobEnqueued, Handle
    <2>3. UNCHANGED LoginSide
      BY <1>1, <2>2, LoginSideStep, Zenon
         DEF InsertRegistration, IssueChallenge, SendChallenge, dbVars
    <2> QED
      BY <1>3, <2>3, ApproveIsApprove, RevokeIsRevoke
  <1>4. ASSUME NEW w \in Workers, Deliver(w),
               \/ \E c \in ws[w].batch : PostAccepted(w, c) \/ PostFails(w, c)
               \/ SendResult(w) \/ ResultFails(w) \/ MarkDelivered(w) \/ MarkFailed(w)
        PROVE  PromiseStep
    <2>1. UNCHANGED <<registering, hs>> /\ hs \in [Handlers -> HandlerState]
      BY <1>1, <1>4, Zenon DEF Deliver, loginVars, StateOK, TypeOK, LoginTypeOK
    <2>2. ASSUME NEW g \in Handlers, SendChallenge(g) \/ IssueChallenge(g)
          PROVE  FALSE
      BY <2>1, <2>2 DEF SendChallenge, IssueChallenge, InTx, Return, IdleHandler, Sending
    <2>3. UNCHANGED LoginSide
      BY <1>1, <2>1, <2>2, LoginSideStep DEF InsertRegistration
    <2> QED
      BY <1>4, <2>3, PostIsAccept, ResultIsTell, MarkIsOutcome, Zenon
  <1> QED
    BY <1>1, <1>2, <1>3, <1>4, DeliverySideStep

\* The relay starts as the promise starts.
LEMMA InitKeepsPromise == Init => Promise!Init
  <1> SUFFICES ASSUME Init PROVE Promise!Init
    OBVIOUS
  <1>1. /\ \A r \in Registrations : sessions[r] = None
        /\ jobs = <<>> /\ challengeNotices = {} /\ accepted = {} /\ successResults = {}
    BY DEF Init, DbInit, LoginInit, DeliveryInit
  <1>2. OpenedRows = {} /\ Bindings = {} /\ AskedBindings = {} /\ ToldAccounts = {}
    BY <1>1 DEF OpenedRows, Bindings, AskedBindings, ToldAccounts, SessionBound
  <1>3. DOMAIN jobs = {}
    BY <1>1
  <1>4. Statements = <<>> /\ Outcomes = <<>>
    BY <1>3 DEF Statements, Outcomes
  <1> QED
    BY <1>1, <1>2, <1>4 DEF Promise!Init

\* KeepsPromise: for every number of handlers and workers, and whatever they do
\* to each other, the relay implements LoginPromise.
THEOREM RelayKeepsPromise == Spec => KeepsPromise
  <1>1. IInv /\ DInv /\ [Next]_vars => [Promise!Next]_Promise!promiseVars
    BY NextKeepsPromise DEF PromiseStep
  <1> QED
    BY <1>1, InitKeepsPromise, InitIInv, NextIInv, DeliveryInvariant, PTL
       DEF Spec, KeepsPromise, Promise!Spec

-----------------------------------------------------------------------------
(* Revocations *)

\* A revocation job that appears is the one that process_revocation enqueues.
LEMMA RevocationAppears ==
    ASSUME StateOK, [Next]_vars, NEW j \in DOMAIN jobs', j \notin DOMAIN jobs,
           jobs'[j].kind = "revocation"
    PROVE  \E h \in Handlers :
              /\ RevokeGrant(h)
              /\ jobs'[j].reg = hs[h].reg /\ jobs'[j].event = hs[h].event
              /\ jobs'[j].sub = Msg(h).sub
              /\ \A i \in DOMAIN jobs : i < j
  <1>1. jobs \in Seq(Job)
    BY DEF StateOK, TypeOK, DbTypeOK
  <1>2. ~JobsRetried /\ ~UNCHANGED jobs
    BY DEF JobsRetried
  <1>3. ASSUME NEW w \in Workers, ClaimDue(w) \/ MarkDelivered(w) \/ MarkFailed(w)
        PROVE  FALSE
    BY <1>3, Zenon DEF ClaimDue, ClaimRows, claim_due, MarkDelivered, MarkFailed, mark_delivered,
                       mark_failed
  <1>4. PICK h \in Handlers : ApproveConsent(h) \/ RevokeGrant(h)
    BY <1>2, <1>3, JobsStep
  <1>5. ASSUME NEW job, JobEnqueued(job)
        PROVE  jobs'[j] = job /\ \A i \in DOMAIN jobs : i < j
    BY <1>5 DEF JobEnqueued
  <1>6. ~ApproveConsent(h)
    <2>1. ApproveConsent(h) => \E job : JobEnqueued(job) /\ job.kind = "assertion"
      BY ApproveFacts
    <2> QED
      BY <1>5, <2>1
  <1>7. PICK job : /\ JobEnqueued(job) /\ job.reg = hs[h].reg /\ job.event = hs[h].event
                   /\ job.sub = Msg(h).sub
    BY <1>4, <1>6, RevokeFacts
  <1> QED
    BY <1>4, <1>5, <1>6, <1>7

\* A phone learns the subject that it revokes from a Result.
LEMMA KnownStep ==
    ASSUME IInv, DInv, RevocationsKnown, [Next]_vars
    PROVE  RevocationsKnown'
  <1>1. /\ StateOK /\ jobs \in Seq(Job) /\ timeline \in [EventIds -> Messages \cup {None}]
        /\ DeliveryGrows /\ TimelineStays /\ \A j \in DOMAIN jobs : JobKept(j)
    BY WorkersTrueStep, EventsStep, JobsAllKept
       DEF IInv, DInv, StateOK, TypeOK, DbTypeOK, LoginTypeOK, EventTablesGrow
  <1>2. ASSUME NEW e \in EventIds, timeline'[e] # None, timeline'[e].kind = "revocation"
        PROVE  \E n \in successResults' : n.sub = timeline'[e].sub
    <2>1. CASE timeline'[e] = timeline[e]
      BY <1>1, <1>2, <2>1 DEF RevocationsKnown, DeliveryGrows
    <2>2. ASSUME NEW h \in Handlers, NEW f \in EventIds, NEW m \in Messages, Receive(h, f, m)
          PROVE  \E n \in successResults' : n.sub = timeline'[e].sub
      <3>1. timeline' = [timeline EXCEPT ![f] = m] /\ KnownToSender(m)
            /\ UNCHANGED successResults
        BY <2>2 DEF Receive, HandleInbound, deliveryVars
      <3>2. CASE e = f
        BY <1>1, <1>2, <3>1, <3>2 DEF KnownToSender
      <3>3. CASE e # f
        BY <1>1, <2>1, <3>1, <3>3
      <3> QED
        BY <3>2, <3>3
    <2>3. ASSUME NEW h \in Handlers, Handle(h)
          PROVE  UNCHANGED timeline
      BY <2>3, Zenon
         DEF Handle, HandlerStep, SelectFails, DbError, IssueChallenge, RejectExpiredConsent,
             RefuseConsent, ApproveConsent, AcceptConsent, RevokeGrant, IgnoreRequest,
             IgnoreConsent, IgnoreRevocation, LeaveTx, SendChallenge, SendFailure, NoticeFails,
             SelectForUpdate
    <2> QED
      BY <2>1, <2>2, <2>3, OutsideEvents DEF Next
  <1>3. ASSUME NEW j \in DOMAIN jobs', jobs'[j].kind = "revocation"
        PROVE  timeline'[jobs'[j].event] # None
    <2>1. CASE j \in DOMAIN jobs
      <3>1. jobs[j].event \in EventIds /\ JobKept(j)
        BY <1>1, <2>1, JobFields
      <3> QED
        BY <1>1, <1>3, <2>1, <3>1 DEF RevocationsKnown, TimelineStays, JobKept
    <2>2. CASE j \notin DOMAIN jobs
      <3>1. PICK h \in Handlers : RevokeGrant(h) /\ jobs'[j].event = hs[h].event
        BY <1>1, <1>3, <2>2, RevocationAppears
      <3>2. hs[h].event \in EventIds /\ timeline[hs[h].event] # None
        BY <1>1, <3>1, InsideTx DEF RevokeGrant, InTx
      <3> QED
        BY <1>1, <3>1, <3>2 DEF TimelineStays
    <2> QED
      BY <2>1, <2>2
  <1> QED
    BY <1>2, <1>3 DEF RevocationsKnown

\* What a revocation follows stays behind it, and a new one follows a login.
LEMMA FollowsStep ==
    ASSUME IInv, DInv, RevocationsKnown, RevocationFollowsLogin, [Next]_vars
    PROVE  RevocationFollowsLogin'
  <1>1. /\ StateOK /\ jobs \in Seq(Job) /\ EventsOK /\ ResultsTrue /\ AssertionsFollowConsent
        /\ DeliveryGrows /\ TimelineStays /\ \A j \in DOMAIN jobs : JobKept(j)
    BY WorkersTrueStep, EventsStep, JobsAllKept
       DEF IInv, DInv, StateOK, TypeOK, DbTypeOK, EventTablesGrow
  <1>2. ASSUME NEW i \in Assertions \cap accepted
        PROVE  /\ i \in DOMAIN jobs /\ i \in Assertions' \cap accepted'
               /\ jobs'[i].sub = jobs[i].sub /\ jobs'[i].reg = jobs[i].reg
               /\ timeline'[jobs'[i].event] = timeline[jobs[i].event]
               /\ jobs[i].sub = <<jobs[i].reg.domain, timeline[jobs[i].event].sender>>
    <2>1. i \in DOMAIN jobs /\ JobKept(i) /\ jobs[i].event \in EventIds
      BY <1>1, JobFields DEF Assertions
    <2>2. /\ jobs[i].event \in consentEvents
          /\ jobs[i].sub = derive_pairwise_sub(jobs[i].reg.domain, timeline[jobs[i].event].sender)
      BY <1>1 DEF AssertionsFollowConsent, ConsentBehind
    <2>3. timeline[jobs[i].event] # None
      BY <1>1, <2>2 DEF EventsOK
    <2> QED
      BY <1>1, <2>1, <2>2, <2>3
         DEF JobKept, Assertions, DeliveryGrows, TimelineStays, derive_pairwise_sub
  <1>3. ASSUME NEW j \in DOMAIN jobs', jobs'[j].kind = "revocation"
        PROVE  \E i \in Assertions' \cap accepted' :
                  /\ i < j
                  /\ jobs'[i].sub = jobs'[j].sub
                  /\ jobs'[i].reg.domain = jobs'[j].reg.domain
                  /\ timeline'[jobs'[i].event].sender = timeline'[jobs'[j].event].sender
    <2>1. CASE j \in DOMAIN jobs
      <3>1. JobKept(j) /\ jobs[j].event \in EventIds
        BY <1>1, <2>1, JobFields
      <3>2. timeline'[jobs'[j].event] = timeline[jobs[j].event]
        BY <1>1, <1>3, <2>1, <3>1 DEF JobKept, RevocationsKnown, TimelineStays
      <3>3. PICK i \in Assertions \cap accepted :
              /\ i < j /\ jobs[i].sub = jobs[j].sub /\ jobs[i].reg.domain = jobs[j].reg.domain
              /\ timeline[jobs[i].event].sender = timeline[jobs[j].event].sender
        BY <1>3, <2>1, <3>1, Zenon DEF RevocationFollowsLogin, JobKept
      <3> QED
        BY <1>2, <3>1, <3>2, <3>3 DEF JobKept
    <2>2. CASE j \notin DOMAIN jobs
      <3>1. PICK h \in Handlers :
              /\ RevokeGrant(h)
              /\ jobs'[j].reg = hs[h].reg /\ jobs'[j].event = hs[h].event
              /\ jobs'[j].sub = Msg(h).sub
              /\ \A i \in DOMAIN jobs : i < j
        BY <1>1, <1>3, <2>2, RevocationAppears
      <3>2. PICK e, m : /\ e \in EventIds /\ e = hs[h].event
                        /\ m = timeline[e] /\ m = Msg(h) /\ m # None
        BY <1>1, <3>1, InsideTx DEF RevokeGrant, InTx
      <3>3. /\ m.kind = "revocation" /\ m.sub[1] = hs[h].reg.domain /\ m.sub[2] = m.sender
        BY <3>1, <3>2 DEF RevokeGrant, InTx, RevocationApplies
      <3>4. PICK n \in successResults : n.sub = m.sub
        BY <3>2, <3>3, Zenon DEF RevocationsKnown
      <3>5. n.job \in Assertions \cap accepted /\ jobs[n.job].sub = m.sub
        BY <1>1, <3>4 DEF ResultsTrue
      <3>6. timeline'[e] = m
        BY <1>1, <3>2, Zenon DEF TimelineStays
      <3> QED
        BY <1>2, <3>1, <3>2, <3>3, <3>5, <3>6
    <2> QED
      BY <2>1, <2>2
  <1> QED
    BY <1>3 DEF RevocationFollowsLogin

\* RevocationFollowsLogin: a site is asked to forget only a subject of a login
\* that it accepted before, by the account that approved that login.
THEOREM RevocationsFollowLogins == Spec => []RevocationFollowsLogin
  <1>1. Init => RevocationsKnown /\ RevocationFollowsLogin
    <2>1. Init => DOMAIN jobs = {} /\ \A e \in EventIds : timeline[e] = None
      BY DEF Init, DbInit, LoginInit
    <2> QED
      BY <2>1 DEF RevocationsKnown, RevocationFollowsLogin
  <1>2. IInv /\ DInv /\ RevocationsKnown /\ RevocationFollowsLogin /\ [Next]_vars
        => RevocationsKnown' /\ RevocationFollowsLogin'
    BY KnownStep, FollowsStep
  <1> QED
    BY <1>1, <1>2, InitIInv, NextIInv, DeliveryInvariant, PTL DEF Spec
=============================================================================
