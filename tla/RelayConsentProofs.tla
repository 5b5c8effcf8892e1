-------------------------- MODULE RelayConsentProofs --------------------------
(***************************************************************************)
(* What a Challenge promises, and what stands behind an assertion: the      *)
(* invariant IInv of Relay is inductive.                                    *)
(***************************************************************************)
EXTENDS RelayProofs

-----------------------------------------------------------------------------
(* The tables and the timeline only grow *)

EventTablesGrow ==
    /\ TimelineStays
    /\ requestEvents \subseteq requestEvents'
    /\ consentEvents \subseteq consentEvents'

\* The steps of a handler that reserve no event.
LEMMA QuietEvents ==
    ASSUME NEW h \in Handlers,
           \/ SelectFails(h) \/ DbError(h) \/ RejectExpiredConsent(h)
           \/ IgnoreRequest(h) \/ IgnoreConsent(h) \/ IgnoreRevocation(h) \/ RevokeGrant(h)
           \/ SendChallenge(h) \/ SendFailure(h) \/ NoticeFails(h)
           \/ \E r \in Registrations : SelectForUpdate(h, r)
    PROVE  UNCHANGED <<timeline, requestEvents, consentEvents>>
  BY Zenon DEF SelectFails, DbError, RejectExpiredConsent, IgnoreRequest, IgnoreConsent,
         IgnoreRevocation, RevokeGrant, LeaveTx, SendChallenge, SendFailure, NoticeFails,
         SelectForUpdate, dbVars

\* The steps of the environment and of the workers reserve no event.
LEMMA OutsideEvents ==
    ASSUME \/ UNCHANGED vars \/ ClockTick \/ Crash
           \/ \E r \in Registrations : Register(r)
           \/ \E j \in DOMAIN jobs : RetryTime(j)
           \/ \E w \in Workers : Deliver(w) \/ AbortTick(w)
    PROVE  UNCHANGED <<timeline, requestEvents, consentEvents, challengeNotices>>
  BY Zenon DEF vars, dbVars, loginVars, ClockTick, Crash, Register, RegistrationStep,
         ValidateRegistration, InsertRegistration, RegistrationFails, RetryTime,
         RetryTimeReached, Deliver, AbortTick, WorkerStep, ClaimDue, ClaimRows, PostAccepted,
         PostFails, LockAccepted, CommitDelivered, AcceptedDbError, SendResult, ResultFails,
         MarkDelivered, MarkFailed, MarkFails

\* Events that were reserved stay reserved, and messages stay what they are;
\* what is reserved has been received.
LEMMA EventsStep ==
    ASSUME StateOK, EventsOK, [Next]_vars
    PROVE  EventTablesGrow /\ EventsOK'
  <1>1. CASE UNCHANGED <<timeline, requestEvents, consentEvents>>
    BY <1>1 DEF EventTablesGrow, TimelineStays, EventsOK
  <1>2. ASSUME NEW h \in Handlers, NEW e \in EventIds, NEW m \in Messages, Receive(h, e, m)
        PROVE  EventTablesGrow /\ EventsOK'
    <2>1. TimelineStays
      BY <1>2, ReceiveTyped
    <2>2. /\ timeline \in [EventIds -> Messages \cup {None}]
          /\ timeline' = [timeline EXCEPT ![e] = m]
          /\ AcceptedBeforeTx(m) /\ UNCHANGED <<requestEvents, consentEvents>>
          /\ requestEvents \subseteq EventIds /\ consentEvents \subseteq EventIds
      BY <1>2 DEF StateOK, TypeOK, LoginTypeOK, DbTypeOK, Receive, HandleInbound, dbVars
    <2>3. \A f \in EventIds : timeline'[f] # None => AcceptedBeforeTx(timeline'[f])
      BY <2>2 DEF EventsOK
    <2> QED
      BY <2>1, <2>2, <2>3 DEF EventTablesGrow, TimelineStays, EventsOK
  <1>3. ASSUME NEW h \in Handlers, Handle(h)
        PROVE  EventTablesGrow /\ EventsOK'
    <2>1. ASSUME IssueChallenge(h) \/ RefuseConsent(h) \/ ApproveConsent(h)
          PROVE  /\ UNCHANGED timeline
                 /\ timeline[hs[h].event] # None
                 /\ requestEvents \subseteq requestEvents'
                 /\ requestEvents' \subseteq requestEvents \cup {hs[h].event}
                 /\ consentEvents \subseteq consentEvents'
                 /\ consentEvents' \subseteq consentEvents \cup {hs[h].event}
                 /\ timeline[hs[h].event].kind # "consent" => consentEvents' = consentEvents
      <3>1. hs[h].pc = "locked"
        BY <2>1 DEF IssueChallenge, RefuseConsent, ApproveConsent, AcceptConsent, InTx
      <3> QED
        BY <2>1, <3>1, InsideTx
           DEF IssueChallenge, RefuseConsent, ApproveConsent, AcceptConsent, InTx, Msg
    <2>2. CASE IssueChallenge(h) \/ RefuseConsent(h) \/ ApproveConsent(h)
      BY <2>1, <2>2 DEF EventTablesGrow, TimelineStays, EventsOK
    <2> QED
      BY <1>1, <1>3, <2>2, QuietEvents DEF Handle, HandlerStep
  <1> QED
    BY <1>1, <1>2, <1>3, OutsideEvents DEF Next

\* The request that bound a session stays on record.
LEMMA BoundByRequestStep ==
    ASSUME StateOK, RowLockGuardsSnapshot, EventsOK, BoundByRequest, [Next]_vars
    PROVE  BoundByRequest'
  <1>0. EventTablesGrow /\ requestEvents \subseteq EventIds
    BY EventsStep DEF StateOK, TypeOK, DbTypeOK
  <1>1. ASSUME NEW q \in Registrations, SessionBound(q), BindingKept(q)
        PROVE  \E e \in requestEvents' : RequestBehind(q, e)'
    <2>1. PICK e \in requestEvents : RequestBehind(q, e)
      BY <1>1 DEF BoundByRequest
    <2>2. e \in requestEvents' /\ timeline'[e] = timeline[e]
      BY <1>0, <2>1 DEF EventTablesGrow, TimelineStays, RequestBehind
    <2>3. RequestBehind(q, e)'
      BY <1>1, <2>1, <2>2 DEF RequestBehind, BindingKept
    <2> QED
      BY <2>2, <2>3
  <1>2. CASE BindingsKept
    BY <1>1, <1>2 DEF BindingsKept, BoundByRequest
  <1>3. ASSUME NEW h \in Handlers, IssueChallenge(h), Binds(h)
        PROVE  BoundByRequest'
    <2>1. hs[h].pc = "locked" /\ Msg(h).kind = "request" /\ HandlerOK(h)
      BY <1>3 DEF IssueChallenge, InTx, StateOK
    <2>0. PICK r \in Registrations, e \in EventIds : r = hs[h].reg /\ e = hs[h].event
      BY <2>1, InsideTx
    <2>2. e \in requestEvents' /\ UNCHANGED timeline
      BY <1>3, <2>0 DEF IssueChallenge
    <2>3. /\ timeline'[e] # None /\ timeline'[e].kind = "request"
          /\ timeline'[e].sender = sessions'[r].sender
          /\ timeline'[e].room = sessions'[r].room
          /\ timeline'[e].qr.domain = r.domain
          /\ timeline'[e].qr.session_id = r.session_id
          /\ timeline'[e].qr.nonce = r.nonce
      BY <1>3, <2>0, <2>1, <2>2 DEF Binds, HandlerOK, Msg
    <2>4. \A q \in Registrations : q # r /\ SessionBound(q)' => SessionBound(q) /\ BindingKept(q)
      BY <1>3, <2>0 DEF Binds, SessionBound, BindingKept
    <2>5. RequestBehind(r, e)'
      BY <2>3 DEF RequestBehind
    <2> QED
      BY <1>1, <2>2, <2>4, <2>5 DEF BoundByRequest
  <1> QED
    BY <1>2, <1>3, BindingStep

-----------------------------------------------------------------------------
(* Challenges *)

\* No notice is sent, and no handler comes to have one to send.
NoticesQuiet ==
    /\ UNCHANGED challengeNotices
    /\ \A h \in Handlers : hs'[h].pc = "send_challenge" => hs'[h] = hs[h]

\* A step other than the commit and the sending of a challenge.
LEMMA QuietStep ==
    ASSUME StateOK, [Next]_vars
    PROVE  \/ NoticesQuiet
           \/ \E h \in Handlers : Handle(h) /\ (SendChallenge(h) \/ IssueChallenge(h))
  <1>0. hs \in [Handlers -> HandlerState] /\ IdleHandler.pc = "idle"
    BY DEF StateOK, TypeOK, LoginTypeOK, IdleHandler
  <1>1. ASSUME NEW h \in Handlers, NEW s, s.pc # "send_challenge", hs' = [hs EXCEPT ![h] = s],
               UNCHANGED challengeNotices
        PROVE  NoticesQuiet
    BY <1>0, <1>1 DEF NoticesQuiet
  <1>2. ASSUME NEW h \in Handlers, NEW e \in EventIds, NEW m \in Messages, Receive(h, e, m)
        PROVE  NoticesQuiet
    BY <1>1, <1>2, Zenon DEF Receive, HandleInbound, Received
  <1>3. ASSUME NEW h \in Handlers,
               \/ SelectFails(h) \/ DbError(h)
               \/ IgnoreRequest(h) \/ IgnoreConsent(h) \/ IgnoreRevocation(h) \/ RevokeGrant(h)
               \/ ApproveConsent(h) \/ SendFailure(h) \/ NoticeFails(h)
        PROVE  NoticesQuiet
    <2>1. hs' = [hs EXCEPT ![h] = IdleHandler] /\ UNCHANGED challengeNotices
      BY <1>3 DEF SelectFails, DbError, IgnoreRequest, IgnoreConsent, IgnoreRevocation,
                  RevokeGrant, ApproveConsent, AcceptConsent, LeaveTx, SendFailure, NoticeFails,
                  Return
    <2> QED
      BY <1>0, <1>1, <2>1, Zenon
  <1>4. ASSUME NEW h \in Handlers, RejectExpiredConsent(h) \/ RefuseConsent(h)
        PROVE  NoticesQuiet
    <2>1. UNCHANGED challengeNotices
          /\ \E out : hs' = [hs EXCEPT ![h] = Sending("send_failure", out)]
      BY <1>4 DEF RejectExpiredConsent, RefuseConsent, AcceptConsent
    <2> QED
      BY <1>1, <2>1, Zenon DEF Sending
  <1>5. ASSUME NEW h \in Handlers, NEW r \in Registrations, SelectForUpdate(h, r)
        PROVE  NoticesQuiet
    <2>1. /\ hs' = [hs EXCEPT ![h] =
                      [@ EXCEPT !.pc = "locked", !.reg = r, !.row = sessions[r]]]
          /\ UNCHANGED challengeNotices
      BY <1>5 DEF SelectForUpdate
    <2>2. hs'[h].pc = "locked"
      BY <1>0, <2>1 DEF HandlerState
    <2> QED
      BY <1>0, <2>1, <2>2 DEF NoticesQuiet
  <1>6. CASE Crash
    BY <1>0, <1>6 DEF Crash, NoticesQuiet
  <1>7. CASE UNCHANGED <<hs, challengeNotices>>
    BY <1>7 DEF NoticesQuiet
  <1>8. ASSUME \/ UNCHANGED vars \/ ClockTick
               \/ \E r \in Registrations : Register(r)
               \/ \E j \in DOMAIN jobs : RetryTime(j)
               \/ \E w \in Workers : Deliver(w) \/ AbortTick(w)
        PROVE  UNCHANGED <<hs, challengeNotices>>
    BY <1>8 DEF vars, loginVars, ClockTick, Register, RetryTime, Deliver, AbortTick
  <1> QED
    BY <1>2, <1>3, <1>4, <1>5, <1>6, <1>7, <1>8 DEF Next, Handle, HandlerStep

\* A notice that matches its session still does when the bindings are kept.
LEMMA NoticeStillMatches ==
    ASSUME NEW n \in ChallengeNotice, NoticeMatches(n), BindingsKept
    PROVE  NoticeMatches(n)'
  <1>1. n.reg \in Registrations
    BY DEF ChallengeNotice
  <1> QED
    BY <1>1 DEF NoticeMatches, BindingsKept, BindingKept

\* Every notice, sent or about to be, is the only one of its challenge.
LEMMA NoticesStep ==
    ASSUME StateOK, RowLockGuardsSnapshot, BindingOK, NoticesOK, [Next]_vars
    PROVE  NoticesOK'
  <1>0. /\ challengeNotices \subseteq ChallengeNotice
        /\ hs \in [Handlers -> HandlerState]
        /\ \A h \in Handlers : hs[h].pc = "send_challenge" => hs[h].out \in ChallengeNotice
        /\ challengeHashes \in Nat
    BY DEF StateOK, TypeOK, LoginTypeOK, DbTypeOK, HandlerOK
  <1>1. CASE NoticesQuiet /\ BindingsKept
    <2>1. \A n \in challengeNotices' : n \in challengeNotices /\ NoticeMatches(n)'
      BY <1>0, <1>1, NoticeStillMatches DEF NoticesQuiet, NoticesOK
    <2>2. ASSUME NEW h \in Handlers, hs'[h].pc = "send_challenge"
          PROVE  hs'[h] = hs[h] /\ NoticeMatches(hs[h].out)'
      <3>1. PICK n \in ChallengeNotice : n = hs[h].out
        BY <1>0, <1>1, <2>2 DEF NoticesQuiet
      <3>2. NoticeMatches(n)'
        BY <1>1, <2>2, <3>1, NoticeStillMatches DEF NoticesQuiet, NoticesOK
      <3>3. hs'[h] = hs[h]
        BY <1>1, <2>2 DEF NoticesQuiet
      <3> QED
        BY <3>1, <3>2, <3>3 DEF NoticeMatches
    <2> QED
      BY <2>1, <2>2 DEF NoticesOK
  <1>2. ASSUME NEW h \in Handlers, SendChallenge(h)
        PROVE  NoticesOK'
    <2>1. UNCHANGED sessions /\ hs' = [hs EXCEPT ![h] = IdleHandler] /\ hs[h].pc = "send_challenge"
      BY <1>2 DEF SendChallenge, Return, dbVars
    <2>2. PICK m \in ChallengeNotice : m = hs[h].out
      BY <1>0, <2>1
    <2>3. challengeNotices' = challengeNotices \cup {m}
      BY <1>2, <2>2 DEF SendChallenge
    <2>4. /\ \A g \in Handlers : g # h => hs'[g] = hs[g]
          /\ hs'[h].pc # "send_challenge"
      BY <1>0, <2>1 DEF IdleHandler
    <2>5. NoticeMatches(m) /\ \A n \in challengeNotices : n.challenge # m.challenge
      BY <2>1, <2>2 DEF NoticesOK
    <2>6. \A n \in challengeNotices' : NoticeMatches(n)'
      BY <2>1, <2>3, <2>5 DEF NoticesOK, NoticeMatches, SessionBound
    <2>7. \A l, n \in challengeNotices' : l.challenge = n.challenge => l = n
      BY <2>3, <2>5 DEF NoticesOK
    <2>8. ASSUME NEW g \in Handlers, hs'[g].pc = "send_challenge"
          PROVE  /\ NoticeMatches(hs[g].out)'
                 /\ \A n \in challengeNotices' : n.challenge # hs'[g].out.challenge
                 /\ \A f \in Handlers : hs'[f].pc = "send_challenge" /\ f # g =>
                       hs'[f].out.challenge # hs'[g].out.challenge
      <3>1. g # h /\ hs'[g] = hs[g] /\ hs[g].pc = "send_challenge"
        BY <2>4, <2>8
      <3>2. NoticeMatches(hs[g].out)'
        BY <2>1, <3>1 DEF NoticesOK, NoticeMatches, SessionBound
      <3>3. \A n \in challengeNotices' : n.challenge # hs'[g].out.challenge
        BY <2>1, <2>2, <2>3, <3>1 DEF NoticesOK
      <3> QED
        BY <2>4, <3>1, <3>2, <3>3 DEF NoticesOK
    <2> QED
      BY <2>6, <2>7, <2>8 DEF NoticesOK
  <1>3. ASSUME NEW h \in Handlers, IssueChallenge(h), Binds(h)
        PROVE  NoticesOK'
    <2> DEFINE c == challengeHashes + 1
               out == [reg |-> hs[h].reg, room |-> Msg(h).room, challenge |-> c,
                       sent_at |-> hs[h].now,
                       expires_at |-> challenge_expires_at(hs[h].now, hs[h].reg.exp)]
    <2>1. hs' = [hs EXCEPT ![h] = Sending("send_challenge", out)] /\ UNCHANGED challengeNotices
      BY <1>3 DEF IssueChallenge
    <2>2. hs'[h].out = out /\ \A g \in Handlers : g # h => hs'[g] = hs[g]
      BY <1>0, <2>1 DEF Sending
    <2>3. NoticeMatches(hs[h].out)'
      BY <1>3, <2>2 DEF Binds, NoticeMatches, SessionBound
    <2>4. hs'[h].out.challenge = c
      BY <2>2
    <2> HIDE DEF out
    <2>5. ASSUME NEW n \in ChallengeNotice, NoticeMatches(n)
          PROVE  n.challenge # c /\ NoticeMatches(n)'
      <3>1. n.reg \in Registrations /\ SessionBound(n.reg) /\ n.challenge \in Nat
            /\ sessions[n.reg].challenge = n.challenge
        BY <2>5 DEF ChallengeNotice, NoticeMatches
      <3>2. n.challenge <= challengeHashes
        BY <3>1 DEF BindingOK
      <3>3. n.reg # hs[h].reg
        BY <1>3, <3>1 DEF Binds
      <3>4. n.challenge # c
        BY <1>0, <3>1, <3>2
      <3>5. sessions'[n.reg] = sessions[n.reg]
        BY <1>3, <3>1, <3>3 DEF Binds
      <3> QED
        BY <2>5, <3>4, <3>5 DEF NoticeMatches, SessionBound
    <2>6. \A n \in challengeNotices' : n.challenge # c /\ NoticeMatches(n)'
      BY <1>0, <2>1, <2>5 DEF NoticesOK
    <2>7. ASSUME NEW g \in Handlers, hs'[g].pc = "send_challenge", g # h
          PROVE  /\ hs'[g] = hs[g] /\ NoticeMatches(hs[g].out)'
                 /\ hs'[g].out.challenge # c
      <3>1. hs'[g] = hs[g] /\ hs[g].pc = "send_challenge"
        BY <2>2, <2>7
      <3>2. PICK n \in ChallengeNotice : n = hs[g].out
        BY <1>0, <3>1
      <3>3. n.challenge # c /\ NoticeMatches(n)'
        BY <2>5, <3>1, <3>2 DEF NoticesOK
      <3> QED
        BY <3>1, <3>2, <3>3 DEF NoticeMatches
    <2> HIDE DEF c
    <2>8. ASSUME NEW g \in Handlers, hs'[g].pc = "send_challenge"
          PROVE  /\ NoticeMatches(hs[g].out)'
                 /\ \A n \in challengeNotices' : n.challenge # hs'[g].out.challenge
                 /\ \A f \in Handlers : hs'[f].pc = "send_challenge" /\ f # g =>
                       hs'[f].out.challenge # hs'[g].out.challenge
      <3>1. CASE g = h
        BY <2>3, <2>4, <2>6, <2>7, <3>1
      <3>2. CASE g # h
        <4>1. hs'[g] = hs[g] /\ NoticeMatches(hs[g].out)' /\ hs'[g].out.challenge # c
          BY <2>7, <2>8, <3>2
        <4>2. \A n \in challengeNotices' : n.challenge # hs'[g].out.challenge
          BY <2>1, <2>8, <4>1 DEF NoticesOK
        <4>3. ASSUME NEW f \in Handlers, hs'[f].pc = "send_challenge", f # g
              PROVE  hs'[f].out.challenge # hs'[g].out.challenge
          <5>1. CASE f = h
            BY <2>4, <4>1, <5>1
          <5>2. CASE f # h
            BY <2>2, <2>8, <3>2, <4>3, <5>2 DEF NoticesOK
          <5> QED
            BY <5>1, <5>2
        <4> QED
          BY <4>1, <4>2, <4>3
      <3> QED
        BY <3>1, <3>2
    <2> QED
      BY <2>1, <2>6, <2>8 DEF NoticesOK
  <1> QED
    BY <1>1, <1>2, <1>3, BindingStep, QuietStep, IssueBinds DEF Handle

\* What the notices promise follows.
LEMMA NoticesImply == NoticesOK => ChallengeNoticeStaysValid
  BY DEF NoticesOK, NoticeMatches, SessionBound, ChallengeNoticeStaysValid

-----------------------------------------------------------------------------
(* Consents *)

\* Every step but the commit of an approval leaves the assertions as they are.
AssertionsKept ==
    /\ JobsStay
    /\ Assertions' = Assertions

\* Only the commit of an approval makes an assertion.
LEMMA AssertionStep ==
    ASSUME StateOK, [Next]_vars
    PROVE  \/ AssertionsKept
           \/ \E h \in Handlers : Handle(h) /\ ApproveConsent(h)
  <1>0. jobs \in Seq(Job) /\ DOMAIN jobs = 1 .. Len(jobs) /\ Len(jobs) \in Nat
    BY DEF StateOK, TypeOK, DbTypeOK
  <1>1. CASE UNCHANGED jobs
    BY <1>1 DEF AssertionsKept, JobsStay, Assertions
  <1>2. ASSUME JobsStay, DOMAIN jobs' = DOMAIN jobs
        PROVE  AssertionsKept
    BY <1>2 DEF AssertionsKept, JobsStay, Assertions
  <1>3. ASSUME NEW h \in Handlers, Handle(h), RevokeGrant(h)
        PROVE  AssertionsKept
    <2>1. /\ JobsStay /\ DOMAIN jobs' = 1 .. Len(jobs) + 1
          /\ jobs'[Len(jobs) + 1].kind = "revocation"
      BY <1>3, RevokeGrantTyped DEF Handle
    <2>2. \A j \in DOMAIN jobs' : j \in DOMAIN jobs \/ j = Len(jobs) + 1
      BY <1>0, <2>1
    <2> QED
      BY <2>1, <2>2 DEF AssertionsKept, JobsStay, Assertions
  <1>4. ASSUME NEW h \in Handlers,
               \/ SelectFails(h) \/ DbError(h) \/ IssueChallenge(h)
               \/ IgnoreRequest(h) \/ IgnoreConsent(h) \/ IgnoreRevocation(h)
               \/ RejectExpiredConsent(h) \/ RefuseConsent(h)
               \/ SendChallenge(h) \/ SendFailure(h) \/ NoticeFails(h)
               \/ \E r \in Registrations : SelectForUpdate(h, r)
        PROVE  UNCHANGED jobs
    BY <1>4, Zenon DEF SelectFails, DbError, IssueChallenge, RejectExpiredConsent, RefuseConsent,
                IgnoreRequest, IgnoreConsent, IgnoreRevocation, LeaveTx, SendChallenge,
                SendFailure, NoticeFails, SelectForUpdate, dbVars
  <1>5. ASSUME NEW h \in Handlers, Handle(h)
        PROVE  AssertionsKept \/ ApproveConsent(h)
    <2>1. CASE RevokeGrant(h)
      BY <1>3, <1>5, <2>1
    <2>2. CASE ~RevokeGrant(h) /\ ~ApproveConsent(h)
      <3>1. HandlerStep(h)
        BY <1>5 DEF Handle
      <3>2. UNCHANGED jobs
        BY <1>4, <2>2, <3>1 DEF HandlerStep
      <3> QED
        BY <3>2 DEF AssertionsKept, JobsStay, Assertions
    <2> QED
      BY <2>1, <2>2
  <1>6. ASSUME \/ UNCHANGED vars \/ ClockTick \/ Crash
               \/ \E r \in Registrations : Register(r)
               \/ \E h \in Handlers, e \in EventIds, m \in Messages : Receive(h, e, m)
        PROVE  UNCHANGED jobs
    BY <1>6 DEF vars, dbVars, ClockTick, Crash, Register, RegistrationStep,
                ValidateRegistration, InsertRegistration, RegistrationFails, Receive,
                HandleInbound
  <1>7. ASSUME NEW j \in DOMAIN jobs, RetryTime(j)
        PROVE  AssertionsKept
    <2>1. JobsStay
      BY <1>7, EnvironmentTyped
    <2>2. DOMAIN jobs' = DOMAIN jobs
      BY <1>7 DEF RetryTime, RetryTimeReached
    <2> QED
      BY <1>2, <2>1, <2>2
  <1>8. ASSUME NEW w \in Workers, Deliver(w) \/ AbortTick(w)
        PROVE  AssertionsKept
    BY <1>2, <1>8, WorkerTyped
  <1> QED
    BY <1>1, <1>5, <1>6, <1>7, <1>8 DEF Next

\* The consent behind an assertion stays behind it.
LEMMA ConsentStaysBehind ==
    ASSUME StateOK, EventsOK, EventTablesGrow, BindingStays, JobsStay,
           NEW j \in DOMAIN jobs, ConsentBehind(j)
    PROVE  ConsentBehind(j)'
  <1> DEFINE r == jobs[j].reg
             e == jobs[j].event
  <1>1. /\ r \in Registrations /\ e \in EventIds
        /\ timeline \in [EventIds -> Messages \cup {None}]
        /\ requestEvents \subseteq EventIds
    BY JobTyped DEF StateOK, TypeOK, DbTypeOK, LoginTypeOK
  <1>2. /\ jobs'[j].reg = r /\ jobs'[j].event = e /\ jobs'[j].sub = jobs[j].sub
    BY DEF JobsStay
  <1>3. e \in consentEvents' /\ timeline[e] # None /\ timeline'[e] = timeline[e]
    BY <1>1 DEF ConsentBehind, EventsOK, EventTablesGrow, TimelineStays
  <1>4. timeline[e].challenge # None
    <2>1. timeline[e] \in Message
      BY <1>1, <1>3, MessageAssumption
    <2>2. timeline[e].challenge \in Nat
      BY <2>1 DEF Message
    <2> QED
      BY <2>2, NoneAssumption
  <1>5. SessionBound(r) /\ timeline[e].challenge = sessions[r].challenge
    BY <1>4 DEF ConsentBehind, SessionBound
  <1>6. sessions'[r] # None /\ timeline[e].challenge = sessions'[r].challenge
    BY <1>1, <1>5 DEF BindingStays, SessionBound
  <1>7. \A f \in requestEvents : f \in requestEvents' /\ timeline'[f] = timeline[f]
    BY <1>1 DEF EventsOK, EventTablesGrow, TimelineStays
  <1> HIDE DEF r, e
  <1>8. r = jobs[j].reg /\ e = jobs[j].event
    BY DEF r, e
  <1>9. /\ timeline[e].kind = "consent" /\ timeline[e].signed /\ timeline[e].approved
        /\ jobs[j].sub = derive_pairwise_sub(r.domain, timeline[e].sender)
    BY <1>8 DEF ConsentBehind
  <1>10. PICK f \in requestEvents :
              /\ timeline[f].kind = "request"
              /\ timeline[f].sender = timeline[e].sender /\ timeline[f].room = timeline[e].room
              /\ timeline[f].qr.domain = r.domain
              /\ timeline[f].qr.session_id = r.session_id
              /\ timeline[f].qr.nonce = r.nonce
    BY <1>8 DEF ConsentBehind
  <1>11. f \in requestEvents' /\ timeline'[f] = timeline[f]
    BY <1>7
  <1>12. PICK m, q : m = timeline[e] /\ q = timeline[f]
    OBVIOUS
  <1>13. /\ jobs'[j].event \in consentEvents' /\ timeline'[jobs'[j].event] = m
         /\ sessions'[jobs'[j].reg] # None
         /\ m.challenge = sessions'[jobs'[j].reg].challenge
    BY <1>2, <1>3, <1>6, <1>12
  <1>14. /\ m.kind = "consent" /\ m.signed /\ m.approved
         /\ jobs'[j].sub = derive_pairwise_sub(jobs'[j].reg.domain, m.sender)
    BY <1>2, <1>9, <1>12
  <1>15. /\ f \in requestEvents' /\ timeline'[f] = q
         /\ q.kind = "request" /\ q.sender = m.sender /\ q.room = m.room
         /\ q.qr.domain = jobs'[j].reg.domain
         /\ q.qr.session_id = jobs'[j].reg.session_id
         /\ q.qr.nonce = jobs'[j].reg.nonce
    BY <1>2, <1>10, <1>11, <1>12
  <1> QED
    BY <1>13, <1>14, <1>15 DEF ConsentBehind

\* What the commit of an approval enqueues, with the consent behind it.
LEMMA ApprovalBehind ==
    ASSUME StateOK, RowLockGuardsSnapshot, BoundByRequest, EventsOK,
           NEW h \in Handlers, Handle(h), ApproveConsent(h)
    PROVE  /\ JobsStay
           /\ Assertions' = Assertions \cup {Len(jobs) + 1}
           /\ Len(jobs) + 1 \notin Assertions
           /\ jobs'[Len(jobs) + 1].event = hs[h].event
           /\ hs[h].event \notin consentEvents
           /\ consentEvents' = consentEvents \cup {hs[h].event}
           /\ UNCHANGED timeline
           /\ \A j : j = Len(jobs) + 1 => ConsentBehind(j)'
  <1> DEFINE r == hs[h].reg
             e == hs[h].event
             m == Msg(h)
  <1>1. /\ hs[h].pc = "locked" /\ m.kind = "consent" /\ m.approved
        /\ ConsentMatches(h) /\ ~ConsentReplayed(e)
        /\ consentEvents' = consentEvents \cup {e}
        /\ UNCHANGED <<timeline, requestEvents>>
    BY Zenon DEF ApproveConsent, AcceptConsent, InTx
  <1>2. /\ r \in Registrations /\ sessions[r] # None /\ e \in EventIds
        /\ m # None /\ m \in Message /\ m = timeline[e]
        /\ jobs \in Seq(Job) /\ DOMAIN jobs = 1 .. Len(jobs) /\ Len(jobs) \in Nat
    <2>1. jobs \in Seq(Job)
      BY DEF StateOK, TypeOK, DbTypeOK
    <2>2. DOMAIN jobs = 1 .. Len(jobs) /\ Len(jobs) \in Nat
      BY <2>1
    <2> QED
      BY <1>1, <2>1, <2>2, InsideTx
  <1>3. /\ OnlyRowChanges(r) /\ BindingKept(r) /\ JobsStay
        /\ DOMAIN jobs' = 1 .. Len(jobs) + 1
        /\ jobs'[Len(jobs) + 1].kind = "assertion"
        /\ jobs'[Len(jobs) + 1].reg = r
        /\ jobs'[Len(jobs) + 1].sub = derive_pairwise_sub(r.domain, m.sender)
        /\ jobs'[Len(jobs) + 1].event = e
    BY <1>2, ApproveConsentTyped, Zenon DEF Handle
  <1>4. /\ m.challenge = sessions[r].challenge
        /\ m.sender = sessions[r].sender
        /\ m.room = sessions[r].room
    BY <1>1 DEF RowLockGuardsSnapshot, HandlerHolds, ConsentMatches
  <1>5. m.signed
    BY <1>1, <1>2 DEF EventsOK, AcceptedBeforeTx, verify_consent_signature
  <1>6. m.challenge # None
    <2>1. m.challenge \in Nat
      <3> HIDE DEF m
      <3> QED
        BY <1>2 DEF Message
    <2> QED
      BY <2>1, NoneAssumption
  <1>7. SessionBound(r)
    BY <1>2, <1>4, <1>6 DEF SessionBound
  <1>8. PICK f \in requestEvents : RequestBehind(r, f)
    BY <1>2, <1>7 DEF BoundByRequest
  <1>9. sessions'[r] # None /\ m.challenge = sessions'[r].challenge
    BY <1>2, <1>3, <1>4 DEF OnlyRowChanges, BindingKept
  <1>10. Assertions' = Assertions \cup {Len(jobs) + 1} /\ Len(jobs) + 1 \notin Assertions
    <2>1. /\ Len(jobs) + 1 \notin DOMAIN jobs
          /\ \A j : j \in DOMAIN jobs' <=> j \in DOMAIN jobs \/ j = Len(jobs) + 1
      <3>1. PICK n \in Nat : n = Len(jobs)
        BY <1>2
      <3>2. DOMAIN jobs = 1 .. n /\ DOMAIN jobs' = 1 .. n + 1
        BY <1>2, <1>3, <3>1
      <3>3. n + 1 \notin 1 .. n /\ \A j : j \in 1 .. n + 1 <=> j \in 1 .. n \/ j = n + 1
        OBVIOUS
      <3> QED
        BY <3>1, <3>2, <3>3
    <2> QED
      BY <1>3, <2>1 DEF Assertions, JobsStay
  <1>11. ASSUME NEW j, j = Len(jobs) + 1
         PROVE  ConsentBehind(j)'
    <2>1. /\ jobs'[j].reg = r /\ jobs'[j].event = e
          /\ jobs'[j].sub = derive_pairwise_sub(r.domain, m.sender)
      BY <1>3, <1>11, Zenon
    <2>2. timeline'[e] = m /\ e \in consentEvents'
      BY <1>1, <1>2, Zenon
    <2>3. /\ f \in requestEvents' /\ timeline'[f] = timeline[f]
          /\ timeline[f].kind = "request"
          /\ timeline[f].sender = m.sender /\ timeline[f].room = m.room
          /\ timeline[f].qr.domain = r.domain
          /\ timeline[f].qr.session_id = r.session_id
          /\ timeline[f].qr.nonce = r.nonce
      BY <1>1, <1>4, <1>8, Zenon DEF RequestBehind
    <2>4. m.kind = "consent" /\ m.approved
      BY <1>1, Zenon
    <2> HIDE DEF r, e, m
    <2> QED
      BY <1>5, <1>9, <2>1, <2>2, <2>3, <2>4 DEF ConsentBehind
  <1> QED
    BY <1>1, <1>3, <1>10, <1>11 DEF ConsentReplayed

\* An assertion keeps its consent, and a new one has one.
LEMMA AssertionsFollowStep ==
    ASSUME StateOK, RowLockGuardsSnapshot, BoundByRequest, EventsOK,
           AssertionsFollowConsent, [Next]_vars
    PROVE  AssertionsFollowConsent'
  <1>1. BindingStays /\ EventTablesGrow
    BY BindingStaysStep, EventsStep
  <1>2. ASSUME JobsStay, NEW j \in Assertions PROVE ConsentBehind(j)'
    <2>1. j \in DOMAIN jobs /\ ConsentBehind(j)
      BY DEF Assertions, AssertionsFollowConsent
    <2> QED
      BY <1>1, <1>2, <2>1, ConsentStaysBehind
  <1>3. CASE AssertionsKept
    BY <1>2, <1>3 DEF AssertionsKept, AssertionsFollowConsent
  <1>4. ASSUME NEW h \in Handlers, Handle(h), ApproveConsent(h)
        PROVE  AssertionsFollowConsent'
    <2>1. /\ JobsStay /\ Assertions' = Assertions \cup {Len(jobs) + 1}
          /\ \A j : j = Len(jobs) + 1 => ConsentBehind(j)'
      BY <1>4, ApprovalBehind
    <2> QED
      BY <1>2, <2>1 DEF AssertionsFollowConsent
  <1> QED
    BY <1>3, <1>4, AssertionStep

\* A reserved approval keeps its one assertion.
LEMMA OneAssertionStep ==
    ASSUME StateOK, RowLockGuardsSnapshot, BoundByRequest, EventsOK,
           AssertionsFollowConsent, ConsentYieldsOneAssertion, [Next]_vars
    PROVE  ConsentYieldsOneAssertion'
  <1>0. /\ EventTablesGrow /\ consentEvents \subseteq EventIds
        /\ \A e \in consentEvents : timeline'[e] = timeline[e]
    BY EventsStep, ZenonT(30) DEF StateOK, TypeOK, DbTypeOK, EventsOK, EventTablesGrow, TimelineStays
  <1>1. ASSUME NEW h \in Handlers, Handle(h), ApproveConsent(h)
        PROVE  ConsentYieldsOneAssertion'
    <2>1. /\ JobsStay
          /\ Assertions' = Assertions \cup {Len(jobs) + 1}
          /\ jobs'[Len(jobs) + 1].event = hs[h].event
          /\ hs[h].event \notin consentEvents
          /\ consentEvents' = consentEvents \cup {hs[h].event}
      BY <1>1, ApprovalBehind
    <2>2. \A j \in Assertions : jobs'[j].event = jobs[j].event /\ jobs[j].event \in consentEvents
      BY <2>1 DEF JobsStay, Assertions, AssertionsFollowConsent, ConsentBehind
    <2>3. ASSUME NEW e \in consentEvents', timeline'[e].approved
          PROVE  \E j \in Assertions' : jobs'[j].event = e
      <3>1. CASE e = hs[h].event
        BY <2>1, <3>1
      <3>2. CASE e \in consentEvents
        <4>1. PICK j \in Assertions : jobs[j].event = e
          BY <1>0, <2>3, <3>2 DEF ConsentYieldsOneAssertion
        <4> QED
          BY <2>1, <2>2, <4>1
      <3> QED
        BY <2>1, <3>1, <3>2
    <2>4. \A i, j \in Assertions' : jobs'[i].event = jobs'[j].event => i = j
      BY <2>1, <2>2 DEF ConsentYieldsOneAssertion
    <2> QED
      BY <2>3, <2>4 DEF ConsentYieldsOneAssertion
  <1>2. CASE AssertionsKept
    <2>1. \A j \in Assertions : jobs'[j].event = jobs[j].event
      BY <1>2 DEF AssertionsKept, JobsStay, Assertions
    <2>2. \A e \in consentEvents' : e \in consentEvents \/ ~timeline'[e].approved
                                    \/ \E h \in Handlers : Handle(h) /\ ApproveConsent(h)
      <3>1. ASSUME NEW h \in Handlers, Handle(h), RefuseConsent(h)
            PROVE  \A e \in consentEvents' : e \in consentEvents \/ ~timeline'[e].approved
        BY <3>1 DEF RefuseConsent, AcceptConsent, Msg
      <3>2. ASSUME NEW h \in Handlers, Handle(h), ~RefuseConsent(h), ~ApproveConsent(h)
            PROVE  UNCHANGED consentEvents
        <4>1. CASE IssueChallenge(h)
          BY <4>1 DEF IssueChallenge
        <4> QED
          BY <3>2, <4>1, QuietEvents DEF Handle, HandlerStep
      <3>3. ASSUME NEW h \in Handlers, NEW e \in EventIds, NEW m \in Messages, Receive(h, e, m)
            PROVE  UNCHANGED consentEvents
        BY <3>3 DEF Receive, HandleInbound, dbVars
      <3> QED
        BY <3>1, <3>2, <3>3, OutsideEvents DEF Next
    <2>3. CASE ~\E h \in Handlers : Handle(h) /\ ApproveConsent(h)
      <3>1. \A e \in consentEvents' : timeline'[e].approved =>
                \E j \in Assertions' : jobs'[j].event = e
        BY <1>0, <1>2, <2>1, <2>2, <2>3 DEF ConsentYieldsOneAssertion, AssertionsKept
      <3>2. \A i, j \in Assertions' : jobs'[i].event = jobs'[j].event => i = j
        BY <1>2, <2>1 DEF ConsentYieldsOneAssertion, AssertionsKept
      <3> QED
        BY <3>1, <3>2 DEF ConsentYieldsOneAssertion
    <2> QED
      BY <1>1, <2>3
  <1> QED
    BY <1>1, <1>2, AssertionStep

-----------------------------------------------------------------------------
(* The theorems *)

\* The initial state satisfies the invariant.
LEMMA InitIInv == Init => IInv
  <1> SUFFICES ASSUME Init PROVE IInv
    OBVIOUS
  <1>1. /\ \A r \in Registrations : ~SessionBound(r)
        /\ requestEvents = {} /\ consentEvents = {} /\ DOMAIN jobs = {}
    BY DEF Init, DbInit, SessionBound
  <1>2. /\ challengeNotices = {} /\ \A h \in Handlers : hs[h].pc = "idle"
        /\ \A e \in EventIds : timeline[e] = None
    BY DEF Init, LoginInit, IdleHandler
  <1> QED
    BY <1>1, <1>2, InitTyped, InitLocks, Zenon
       DEF IInv, BindingOK, BoundByRequest, NoticesOK, EventsOK, AssertionsFollowConsent,
           ConsentYieldsOneAssertion, Assertions

\* Every step keeps the invariant.
LEMMA NextIInv == IInv /\ [Next]_vars => IInv'
  BY NextTyped, NextLocks, BindingOKStep, BoundByRequestStep, NoticesStep, EventsStep,
     AssertionsFollowStep, OneAssertionStep
     DEF IInv

\* IInv is an invariant of the relay.
THEOREM Inductive == Spec => []IInv
  BY InitIInv, NextIInv, PTL DEF Spec

\* ChallengeNoticeStaysValid: a Challenge a phone has received is the only one
\* of its session and is the one process_consent compares with.
THEOREM ChallengesValid == Spec => []ChallengeNoticeStaysValid
  <1>1. IInv => ChallengeNoticeStaysValid
    BY NoticesImply DEF IInv
  <1> QED
    BY <1>1, Inductive, PTL

\* AssertionsFollowConsent: behind every assertion there is a signed approval
\* by the account, and from the room, that requested the login.
THEOREM AssertionsConsented == Spec => []AssertionsFollowConsent
  <1>1. IInv => AssertionsFollowConsent
    BY DEF IInv
  <1> QED
    BY <1>1, Inductive, PTL

\* ConsentYieldsOneAssertion: a reserved approval has exactly one assertion.
THEOREM OneAssertionPerConsent == Spec => []ConsentYieldsOneAssertion
  <1>1. IInv => ConsentYieldsOneAssertion
    BY DEF IInv
  <1> QED
    BY <1>1, Inductive, PTL
=============================================================================
