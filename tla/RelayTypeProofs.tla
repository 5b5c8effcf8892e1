--------------------------- MODULE RelayTypeProofs ---------------------------
(***************************************************************************)
(* Type correctness of Relay: TypeOK with the shape of the local states and *)
(* a row for every job (StateOK) is inductive.                              *)
(***************************************************************************)
EXTENDS Relay, TLAPS

-----------------------------------------------------------------------------
(* What cas_update does to the table of sessions *)

\* Row q keeps the columns that bind it to a request.
BindingKept(q) ==
    /\ sessions'[q].room = sessions[q].room
    /\ sessions'[q].sender = sessions[q].sender
    /\ sessions'[q].challenge = sessions[q].challenge
    /\ sessions'[q].challenge_exp = sessions[q].challenge_exp

\* No row appears or goes away, only row r changes, and versions do not go back.
OnlyRowChanges(r) ==
    /\ sessions' \in [Registrations -> Row \cup {None}]
    /\ \A q \in Registrations : sessions'[q] # None <=> sessions[q] # None
    /\ \A q \in Registrations : q # r => sessions'[q] = sessions[q]
    /\ \A q \in Registrations : sessions[q] # None => sessions'[q].version >= sessions[q].version

\* A cas_update with all its columns changes its row only.
LEMMA CasUpdate ==
    ASSUME sessions \in [Registrations -> Row \cup {None}],
           NEW r \in Registrations, sessions[r] # None,
           NEW v, NEW st \in SessionStates,
           NEW room \in Rooms, NEW sender \in Users, NEW ch \in Nat, NEW ce \in Int,
           CasMatches(r, v),
           sessions' = cas_update(r, v, st, room, sender, ch, ce)
    PROVE  /\ OnlyRowChanges(r)
           /\ sessions'[r].room = room
           /\ sessions'[r].sender = sender
           /\ sessions'[r].challenge = ch
           /\ sessions'[r].challenge_exp = ce
  <1>1. sessions[r] \in Row
    OBVIOUS
  <1> DEFINE row == [state |-> st, version |-> sessions[r].version + 1, room |-> room,
                     sender |-> sender, challenge |-> ch, challenge_exp |-> ce]
  <1>2. row \in Row
    BY <1>1 DEF Row
  <1>3. row # None
    BY <1>2, NoneAssumption
  <1>4. room # None /\ sender # None /\ ch # None /\ ce # None
    BY NoneAssumption
  <1>5. sessions' = [sessions EXCEPT ![r] = row]
    BY <1>4 DEF cas_update, COALESCE
  <1>6. sessions'[r] = row
    BY <1>5
  <1>7. \A q \in Registrations : sessions[q] # None => sessions'[q].version >= sessions[q].version
    BY <1>5, <1>6 DEF Row
  <1> QED
    BY <1>2, <1>3, <1>5, <1>6, <1>7 DEF OnlyRowChanges

\* A cas_update that passes NULL for the columns keeps every binding.
LEMMA CasState ==
    ASSUME sessions \in [Registrations -> Row \cup {None}],
           NEW r \in Registrations, sessions[r] # None,
           NEW v, NEW st \in SessionStates,
           sessions' = cas_state(r, v, st)
    PROVE  /\ OnlyRowChanges(r)
           /\ \A q \in Registrations : BindingKept(q)
  <1>1. sessions[r] \in Row
    OBVIOUS
  <1> DEFINE row == [state |-> st, version |-> sessions[r].version + 1,
                     room |-> sessions[r].room, sender |-> sessions[r].sender,
                     challenge |-> sessions[r].challenge,
                     challenge_exp |-> sessions[r].challenge_exp]
  <1>2. row \in Row
    BY <1>1 DEF Row
  <1>3. row # None
    BY <1>2, NoneAssumption
  <1>4. sessions' = IF CasMatches(r, v) THEN [sessions EXCEPT ![r] = row] ELSE sessions
    BY DEF cas_state, cas_update, COALESCE
  <1>5. sessions'[r] \in {sessions[r], row}
    BY <1>4
  <1>6. \A q \in Registrations : sessions[q] # None => sessions'[q].version >= sessions[q].version
    BY <1>4, <1>5 DEF Row
  <1>7. OnlyRowChanges(r)
    BY <1>2, <1>3, <1>4, <1>6 DEF OnlyRowChanges
  <1> QED
    BY <1>5, <1>7 DEF OnlyRowChanges, BindingKept

-----------------------------------------------------------------------------
(* What every step keeps, and how that keeps the processes it does not move *)

RowsStay == \A q \in Registrations : sessions[q] # None => sessions'[q] # None

TimelineStays == \A e \in EventIds : timeline[e] # None => timeline'[e] = timeline[e]

\* Jobs are only appended, and a job keeps what it was enqueued with.
JobsStay ==
    \A j \in DOMAIN jobs :
        /\ j \in DOMAIN jobs'
        /\ jobs'[j].kind = jobs[j].kind
        /\ jobs'[j].reg = jobs[j].reg
        /\ jobs'[j].sub = jobs[j].sub
        /\ jobs'[j].event = jobs[j].event

\* An element of the sequence of jobs is a job.
LEMMA JobTyped ==
    ASSUME jobs \in Seq(Job), NEW j \in DOMAIN jobs
    PROVE  /\ jobs[j] \in Job
           /\ jobs[j].reg \in Registrations
           /\ jobs[j].sub \in Subjects
           /\ jobs[j].event \in EventIds
           /\ j \in Nat
           /\ DOMAIN jobs = 1 .. Len(jobs)
  <1>1. DOMAIN jobs = 1 .. Len(jobs) /\ Len(jobs) \in Nat
    OBVIOUS
  <1>2. jobs[j] \in Job /\ j \in Nat
    BY <1>1
  <1> QED
    BY <1>1, <1>2 DEF Job

\* A handler that does not move stays well formed.
LEMMA HandlerStays ==
    ASSUME StateOK, RowsStay, TimelineStays, NEW h \in Handlers, hs'[h] = hs[h]
    PROVE  HandlerOK(h)'
  BY DEF StateOK, RowsStay, TimelineStays, HandlerOK, Msg

\* A worker that does not move stays well formed.
LEMMA WorkerStays ==
    ASSUME StateOK, JobsStay, NEW w \in Workers, ws'[w] = ws[w]
    PROVE  WorkerOK(w)'
  BY DEF StateOK, JobsStay, WorkerOK, CurrentId, Assertions

\* Appending a job keeps the ones there are.
LEMMA EnqueueTyped ==
    ASSUME jobs \in Seq(Job), NEW job \in Job, jobs' = enqueue(job)
    PROVE  /\ jobs' \in Seq(Job)
           /\ JobsStay
           /\ DOMAIN jobs' = 1 .. Len(jobs) + 1
           /\ jobs'[Len(jobs) + 1] = job
           /\ \A j \in DOMAIN jobs : jobs'[j] = jobs[j]
  <1>1. /\ jobs' \in Seq(Job)
        /\ Len(jobs') = Len(jobs) + 1
        /\ jobs'[Len(jobs) + 1] = job
        /\ \A j \in 1 .. Len(jobs) : jobs'[j] = jobs[j]
        /\ DOMAIN jobs = 1 .. Len(jobs) /\ Len(jobs) \in Nat
    BY DEF enqueue
  <1>2. DOMAIN jobs' = 1 .. Len(jobs) + 1
    BY <1>1
  <1> QED
    BY <1>1, <1>2 DEF JobsStay

\* The statements that update jobs in place: the columns they set are attempts,
\* due and status.
LEMMA JobsUpdated ==
    ASSUME jobs \in Seq(Job), NEW f, jobs' = [j \in DOMAIN jobs |-> f[j]],
           \A j \in DOMAIN jobs :
              /\ f[j] \in Job
              /\ f[j].kind = jobs[j].kind
              /\ f[j].reg = jobs[j].reg
              /\ f[j].sub = jobs[j].sub
              /\ f[j].event = jobs[j].event
    PROVE  jobs' \in Seq(Job) /\ JobsStay /\ DOMAIN jobs' = DOMAIN jobs
  <1>1. DOMAIN jobs = 1 .. Len(jobs) /\ Len(jobs) \in Nat
    OBVIOUS
  <1>2. jobs' \in [1 .. Len(jobs) -> Job]
    BY <1>1
  <1>3. jobs' \in Seq(Job)
    BY <1>1, <1>2
  <1> QED
    BY <1>3 DEF JobsStay

\* Every job has a row as long as no job and no row goes away.
LEMMA JobsKeepRows ==
    ASSUME StateOK, RowsStay, JobsStay, DOMAIN jobs' = DOMAIN jobs
    PROVE  JobsHaveRows'
  BY JobTyped DEF StateOK, TypeOK, DbTypeOK, JobsHaveRows, RowsStay, JobsStay

\* A step of handler h that leaves the jobs alone.
LEMMA HandlerMoves ==
    ASSUME StateOK, NEW h \in Handlers, NEW s \in HandlerState,
           RowsStay, TimelineStays,
           hs' = [hs EXCEPT ![h] = s], HandlerOK(h)'
    PROVE  /\ hs' \in [Handlers -> HandlerState]
           /\ \A g \in Handlers : HandlerOK(g)'
  <1>1. hs \in [Handlers -> HandlerState]
    BY DEF StateOK, TypeOK, LoginTypeOK
  <1>2. \A g \in Handlers \ {h} : hs'[g] = hs[g]
    BY <1>1
  <1>3. \A g \in Handlers \ {h} : HandlerOK(g)'
    BY <1>2, HandlerStays
  <1> QED
    BY <1>1, <1>3

\* A step of worker w.
LEMMA WorkerMoves ==
    ASSUME StateOK, NEW w \in Workers, NEW s \in WorkerState, JobsStay,
           ws' = [ws EXCEPT ![w] = s], WorkerOK(w)'
    PROVE  /\ ws' \in [Workers -> WorkerState]
           /\ \A v \in Workers : WorkerOK(v)'
  <1>1. ws \in [Workers -> WorkerState]
    BY DEF StateOK, TypeOK, DeliveryTypeOK
  <1>2. \A v \in Workers \ {w} : ws'[v] = ws[v]
    BY <1>1
  <1>3. \A v \in Workers \ {w} : WorkerOK(v)'
    BY <1>2, WorkerStays
  <1> QED
    BY <1>1, <1>3

\* What a step of handler h has to show.
LEMMA HandlerKeepsState ==
    ASSUME StateOK, NEW h \in Handlers, NEW s \in HandlerState,
           hs' = [hs EXCEPT ![h] = s], HandlerOK(h)',
           DbTypeOK', RowsStay, JobsStay, JobsHaveRows',
           timeline' \in [EventIds -> Messages \cup {None}], TimelineStays,
           challengeNotices' \subseteq ChallengeNotice,
           failureResults' \subseteq FailureResult,
           UNCHANGED <<registering, deliveryVars, faults>>
    PROVE  StateOK'
  <1>1. hs' \in [Handlers -> HandlerState] /\ \A g \in Handlers : HandlerOK(g)'
    BY HandlerMoves, Zenon
  <1>2. LoginTypeOK'
    BY <1>1 DEF LoginTypeOK
  <1>3. UNCHANGED <<ws, accepted, successResults>>
    BY DEF deliveryVars
  <1>4. DeliveryTypeOK'
    BY <1>3 DEF StateOK, TypeOK, DeliveryTypeOK, JobsStay
  <1>5. \A w \in Workers : WorkerOK(w)'
    BY <1>3, WorkerStays
  <1>6. TypeOK'
    BY <1>2, <1>4 DEF StateOK, TypeOK
  <1> QED
    BY <1>1, <1>5, <1>6 DEF StateOK

\* A step of handler h that changes its own state, its locks and what it sent.
LEMMA HandlerLocalStep ==
    ASSUME StateOK, NEW h \in Handlers, NEW s \in HandlerState,
           hs' = [hs EXCEPT ![h] = s], HandlerOK(h)',
           locks' \in [Registrations -> Handlers \cup Workers \cup {None}],
           UNCHANGED <<now, sessions, requestEvents, consentEvents, challengeHashes, grants,
                       jobs, timeline>>,
           challengeNotices' \subseteq ChallengeNotice,
           failureResults' \subseteq FailureResult,
           UNCHANGED <<registering, deliveryVars, faults>>
    PROVE  StateOK'
  <1>1. DbTypeOK' /\ timeline' \in [EventIds -> Messages \cup {None}]
    BY DEF StateOK, TypeOK, DbTypeOK, LoginTypeOK
  <1>2. RowsStay /\ JobsStay /\ TimelineStays /\ JobsHaveRows'
    BY DEF StateOK, RowsStay, JobsStay, TimelineStays, JobsHaveRows
  <1> QED
    BY <1>1, <1>2, HandlerKeepsState, Zenon

\* What a step of worker w has to show.
LEMMA WorkerKeepsState ==
    ASSUME StateOK, NEW w \in Workers, NEW s \in WorkerState,
           ws' = [ws EXCEPT ![w] = s], WorkerOK(w)',
           DbTypeOK', RowsStay, JobsStay, DOMAIN jobs' = DOMAIN jobs,
           accepted' \subseteq DOMAIN jobs, successResults' \subseteq SuccessResult,
           faults' \in Nat, UNCHANGED <<registering, loginVars>>
    PROVE  StateOK'
  <1>1. ws' \in [Workers -> WorkerState] /\ \A v \in Workers : WorkerOK(v)'
    BY WorkerMoves, Zenon
  <1>2. UNCHANGED <<timeline, hs, challengeNotices, failureResults>>
    BY DEF loginVars
  <1>3. DeliveryTypeOK' /\ LoginTypeOK'
    BY <1>1, <1>2 DEF StateOK, TypeOK, DeliveryTypeOK, LoginTypeOK
  <1>4. \A h \in Handlers : HandlerOK(h)'
    BY <1>2, HandlerStays DEF TimelineStays
  <1>5. JobsHaveRows'
    BY JobsKeepRows
  <1>6. TypeOK'
    BY <1>3 DEF StateOK, TypeOK
  <1> QED
    BY <1>1, <1>4, <1>5, <1>6 DEF StateOK

\* A step of worker w that changes its own state, its locks and what it sent.
LEMMA WorkerLocalStep ==
    ASSUME StateOK, NEW w \in Workers, NEW s \in WorkerState,
           ws' = [ws EXCEPT ![w] = s], WorkerOK(w)',
           locks' \in [Registrations -> Handlers \cup Workers \cup {None}],
           UNCHANGED <<now, sessions, requestEvents, consentEvents, challengeHashes, grants,
                       jobs>>,
           accepted' \subseteq DOMAIN jobs, successResults' \subseteq SuccessResult,
           faults' \in Nat, UNCHANGED <<registering, loginVars>>
    PROVE  StateOK'
  <1>1. DbTypeOK'
    BY DEF StateOK, TypeOK, DbTypeOK
  <1>2. RowsStay /\ JobsStay /\ DOMAIN jobs' = DOMAIN jobs
    BY DEF RowsStay, JobsStay
  <1> QED
    BY <1>1, <1>2, WorkerKeepsState, Zenon

-----------------------------------------------------------------------------
(* Type correctness *)

\* What a handler knows inside its transaction.
LEMMA InsideTx ==
    ASSUME StateOK, NEW h \in Handlers, hs[h].pc = "locked"
    PROVE  /\ hs[h].reg \in Registrations
           /\ hs[h].reg \in Registration
           /\ sessions[hs[h].reg] # None
           /\ hs[h].row \in Row
           /\ hs[h].event \in EventIds
           /\ hs[h].now \in Int
           /\ Msg(h) # None
           /\ Msg(h) \in Message
           /\ Msg(h) = timeline[hs[h].event]
  <1>1. HandlerOK(h) /\ timeline \in [EventIds -> Messages \cup {None}]
        /\ hs[h] \in HandlerState
    BY DEF StateOK, TypeOK, LoginTypeOK
  <1> QED
    BY <1>1, MessageAssumption, RegistrationAssumption DEF HandlerOK, Msg, HandlerState

\* A handler that has returned is well formed.
LEMMA IdleHandlerOK ==
    /\ IdleHandler \in HandlerState
    /\ IdleWorker \in WorkerState
    /\ \A h \in Handlers : hs'[h] = IdleHandler => HandlerOK(h)'
    /\ \A w \in Workers : ws'[w] = IdleWorker => WorkerOK(w)'
  BY DEF HandlerOK, IdleHandler, HandlerState, WorkerOK, IdleWorker, Working, WorkerState

\* A handler that leaves without effect: SelectFails, LeaveTx, DbError, NoticeFails.
LEMMA ReturnTyped ==
    ASSUME StateOK, NEW h \in Handlers, Return(h),
           locks' \in [Registrations -> Handlers \cup Workers \cup {None}],
           UNCHANGED <<now, sessions, requestEvents, consentEvents, challengeHashes, grants,
                       jobs, timeline>>,
           challengeNotices' \subseteq ChallengeNotice,
           failureResults' \subseteq FailureResult,
           UNCHANGED <<registering, deliveryVars, faults>>
    PROVE  StateOK'
  <1>1. hs' = [hs EXCEPT ![h] = IdleHandler] /\ hs \in [Handlers -> HandlerState]
    BY DEF Return, StateOK, TypeOK, LoginTypeOK
  <1>2. hs'[h] = IdleHandler
    BY <1>1
  <1> QED
    BY <1>1, <1>2, IdleHandlerOK, HandlerLocalStep, Zenon

\* The steps of a handler that commit nothing keep the state well formed.
LEMMA QuietHandlerTyped ==
    ASSUME StateOK, NEW h \in Handlers,
           UNCHANGED <<registering, deliveryVars, faults>>,
           \/ SelectFails(h)
           \/ DbError(h)
           \/ IgnoreRequest(h) \/ IgnoreConsent(h) \/ IgnoreRevocation(h)
           \/ SendChallenge(h) \/ SendFailure(h) \/ NoticeFails(h)
    PROVE  StateOK'
  <1> USE DEF dbVars
  <1>0. /\ locks \in [Registrations -> Handlers \cup Workers \cup {None}]
        /\ challengeNotices \subseteq ChallengeNotice
        /\ failureResults \subseteq FailureResult
        /\ HandlerOK(h)
    BY DEF StateOK, TypeOK, DbTypeOK, LoginTypeOK
  <1>1. CASE SelectFails(h)
    BY <1>0, <1>1, ReturnTyped DEF SelectFails
  <1>2. CASE DbError(h)
    <2>1. locks' \in [Registrations -> Handlers \cup Workers \cup {None}]
      BY <1>0, <1>2, Zenon DEF DbError
    <2> QED
      BY <1>0, <1>2, <2>1, ReturnTyped DEF DbError
  <1>3. CASE IgnoreRequest(h) \/ IgnoreConsent(h) \/ IgnoreRevocation(h)
    <2>1. LeaveTx(h)
      BY <1>3 DEF IgnoreRequest, IgnoreConsent, IgnoreRevocation
    <2>2. locks' \in [Registrations -> Handlers \cup Workers \cup {None}]
      BY <1>0, <2>1, Zenon DEF LeaveTx, Unlock
    <2> QED
      BY <1>0, <2>1, <2>2, ReturnTyped DEF LeaveTx
  <1>4. CASE SendChallenge(h)
    <2>1. challengeNotices' \subseteq ChallengeNotice
      BY <1>0, <1>4 DEF SendChallenge, HandlerOK
    <2> QED
      BY <1>0, <1>4, <2>1, ReturnTyped DEF SendChallenge
  <1>5. CASE SendFailure(h)
    <2>1. failureResults' \subseteq FailureResult
      BY <1>0, <1>5 DEF SendFailure, HandlerOK
    <2> QED
      BY <1>0, <1>5, <2>1, ReturnTyped DEF SendFailure
  <1>6. CASE NoticeFails(h)
    BY <1>0, <1>6, ReturnTyped DEF NoticeFails
  <1> QED
    BY <1>1, <1>2, <1>3, <1>4, <1>5, <1>6

\* Taking the row lock keeps the state well formed.
LEMMA SelectForUpdateTyped ==
    ASSUME StateOK, NEW h \in Handlers, NEW r \in Registrations, SelectForUpdate(h, r),
           UNCHANGED <<registering, deliveryVars, faults>>
    PROVE  StateOK'
  <1> DEFINE s == [hs[h] EXCEPT !.pc = "locked", !.reg = r, !.row = sessions[r]]
  <1>1. /\ hs \in [Handlers -> HandlerState]
        /\ hs[h] \in HandlerState
        /\ hs[h].event \in EventIds
        /\ Msg(h) # None
        /\ sessions \in [Registrations -> Row \cup {None}]
        /\ locks \in [Registrations -> Handlers \cup Workers \cup {None}]
        /\ challengeNotices \subseteq ChallengeNotice
        /\ failureResults \subseteq FailureResult
    BY DEF StateOK, TypeOK, DbTypeOK, LoginTypeOK, SelectForUpdate, HandlerOK
  <1>2. r \in SelectedRows(Msg(h))
    BY DEF SelectForUpdate
  <1>3. /\ sessions[r] # None
        /\ Msg(h).kind = "request" =>
              /\ Msg(h).qr.domain = r.domain
              /\ Msg(h).qr.session_id = r.session_id
              /\ Msg(h).qr.nonce = r.nonce
    BY <1>2 DEF SelectedRows, get_matching, get_by_session_and_nonce
  <1>4. sessions[r] \in Row
    BY <1>1, <1>3
  <1>5. s \in HandlerState
    BY <1>1, <1>4, Zenon DEF HandlerState
  <1>6. hs' = [hs EXCEPT ![h] = s] /\ hs'[h] = s
    BY <1>1 DEF SelectForUpdate
  <1>7. /\ s.pc = "locked" /\ s.reg = r /\ s.row = sessions[r] /\ s.event = hs[h].event
    BY <1>1 DEF HandlerState
  <1>8. UNCHANGED <<sessions, timeline>> /\ Msg(h)' = Msg(h)
    BY <1>6, <1>7 DEF SelectForUpdate, Msg
  <1>9. HandlerOK(h)'
    BY <1>1, <1>3, <1>4, <1>6, <1>7, <1>8 DEF HandlerOK
  <1>10. locks' \in [Registrations -> Handlers \cup Workers \cup {None}]
    BY <1>1 DEF SelectForUpdate, Lock
  <1> QED
    BY <1>1, <1>5, <1>6, <1>9, <1>10, HandlerLocalStep, Zenon DEF SelectForUpdate

\* The local state of a handler that is about to send out.
LEMMA SendingState ==
    ASSUME NEW pc \in {"send_challenge", "send_failure"},
           NEW out \in ChallengeNotice \cup FailureResult
    PROVE  /\ Sending(pc, out) \in HandlerState
           /\ Sending(pc, out).pc = pc
           /\ Sending(pc, out).out = out
  <1>1. /\ pc \in {"idle", "received", "locked", "send_challenge", "send_failure"}
        /\ out \in ChallengeNotice \cup FailureResult \cup {None}
    OBVIOUS
  <1> QED
    BY <1>1 DEF HandlerState, Sending

\* Committing a challenge keeps the state well formed.
LEMMA IssueChallengeTyped ==
    ASSUME StateOK, NEW h \in Handlers, IssueChallenge(h),
           UNCHANGED <<registering, deliveryVars, faults>>
    PROVE  StateOK' /\ OnlyRowChanges(hs[h].reg)
  <1> DEFINE r == hs[h].reg
             expires_at == challenge_expires_at(hs[h].now, r.exp)
             out == [reg |-> r, room |-> Msg(h).room, challenge |-> challengeHashes + 1,
                     sent_at |-> hs[h].now, expires_at |-> expires_at]
             s == Sending("send_challenge", out)
  <1>1. TypeOK /\ hs[h].pc = "locked"
    BY DEF StateOK, IssueChallenge, InTx
  <1>2. /\ r \in Registrations /\ r \in Registration /\ sessions[r] # None
        /\ hs[h].event \in EventIds /\ hs[h].now \in Int /\ Msg(h) \in Message
    BY <1>1, InsideTx
  <1>3. expires_at \in Int /\ challengeHashes + 1 \in Nat
    BY <1>1, <1>2, TimeAssumption DEF TypeOK, DbTypeOK, challenge_expires_at, min, Registration
  <1>4. Msg(h).room \in Rooms /\ Msg(h).sender \in Users
    BY <1>2 DEF Message
  <1>5. CasMatches(r, hs[h].row.version)
    BY DEF IssueChallenge, RequestIgnored
  <1>6. OnlyRowChanges(r)
    <2>1. sessions' = cas_update(r, hs[h].row.version, "CHALLENGE_SENT", Msg(h).room,
                                 Msg(h).sender, challengeHashes + 1, expires_at)
      BY DEF IssueChallenge
    <2>2. sessions \in [Registrations -> Row \cup {None}] /\ "CHALLENGE_SENT" \in SessionStates
      BY <1>1 DEF TypeOK, DbTypeOK, SessionStates
    <2> HIDE DEF expires_at
    <2> QED
      BY <1>2, <1>3, <1>4, <1>5, <2>1, <2>2, CasUpdate, Zenon
  <1>7. out \in ChallengeNotice
    BY <1>2, <1>3, <1>4 DEF ChallengeNotice
  <1>8. s \in HandlerState /\ s.pc = "send_challenge" /\ s.out = out
    BY <1>7, SendingState
  <1>9. hs' = [hs EXCEPT ![h] = s] /\ hs'[h] = s
    BY <1>1 DEF IssueChallenge, TypeOK, LoginTypeOK
  <1>10. HandlerOK(h)'
    BY <1>7, <1>8, <1>9 DEF HandlerOK
  <1>11. DbTypeOK'
    BY <1>1, <1>2, <1>3, <1>6, Zenon DEF IssueChallenge, TypeOK, DbTypeOK, OnlyRowChanges, Unlock
  <1>12. RowsStay /\ JobsStay /\ TimelineStays
    BY <1>6, Zenon DEF IssueChallenge, RowsStay, JobsStay, TimelineStays, OnlyRowChanges
  <1>13. JobsHaveRows'
    BY <1>12, JobsKeepRows DEF IssueChallenge
  <1>14. StateOK'
    BY <1>1, <1>8, <1>9, <1>10, <1>11, <1>12, <1>13, HandlerKeepsState, Zenon
       DEF IssueChallenge, TypeOK, LoginTypeOK
  <1> QED
    BY <1>6, <1>14

\* Refusing a late consent keeps the state well formed.
LEMMA RejectExpiredConsentTyped ==
    ASSUME StateOK, NEW h \in Handlers, RejectExpiredConsent(h),
           UNCHANGED <<registering, deliveryVars, faults>>
    PROVE  StateOK'
  <1> DEFINE out == [reg |-> hs[h].reg, room |-> Msg(h).room, reason |-> "request_expired"]
             s == Sending("send_failure", out)
  <1>1. TypeOK /\ hs[h].pc = "locked"
    BY DEF StateOK, RejectExpiredConsent, InTx
  <1>2. hs[h].reg \in Registrations /\ Msg(h) \in Message
    BY <1>1, InsideTx
  <1>3. out \in FailureResult
    BY <1>2 DEF Message, FailureResult
  <1>4. s \in HandlerState /\ s.pc = "send_failure" /\ s.out = out
    BY <1>3, SendingState, Zenon
  <1>5. hs' = [hs EXCEPT ![h] = s] /\ hs'[h] = s
    BY <1>1 DEF RejectExpiredConsent, TypeOK, LoginTypeOK
  <1>6. HandlerOK(h)'
    BY <1>3, <1>4, <1>5 DEF HandlerOK
  <1>7. locks' \in [Registrations -> Handlers \cup Workers \cup {None}]
    BY <1>1, Zenon DEF RejectExpiredConsent, Unlock, TypeOK, DbTypeOK
  <1> QED
    BY <1>1, <1>4, <1>5, <1>6, <1>7, HandlerLocalStep, Zenon
       DEF RejectExpiredConsent, TypeOK, LoginTypeOK

\* Committing a refusal keeps the state well formed, and every binding.
LEMMA RefuseConsentTyped ==
    ASSUME StateOK, NEW h \in Handlers, RefuseConsent(h),
           UNCHANGED <<registering, deliveryVars, faults>>
    PROVE  /\ StateOK'
           /\ OnlyRowChanges(hs[h].reg)
           /\ \A q \in Registrations : BindingKept(q)
  <1> DEFINE r == hs[h].reg
             out == [reg |-> r, room |-> Msg(h).room, reason |-> "request_cancelled"]
             s == Sending("send_failure", out)
  <1>1. TypeOK /\ hs[h].pc = "locked"
    BY DEF StateOK, RefuseConsent, AcceptConsent, InTx
  <1>2. /\ r \in Registrations /\ sessions[r] # None
        /\ hs[h].event \in EventIds /\ Msg(h) \in Message
    BY <1>1, InsideTx
  <1>3. OnlyRowChanges(r) /\ \A q \in Registrations : BindingKept(q)
    BY <1>1, <1>2, CasState DEF RefuseConsent, TypeOK, DbTypeOK, SessionStates
  <1>4. out \in FailureResult
    BY <1>2 DEF Message, FailureResult
  <1>5. s \in HandlerState /\ s.pc = "send_failure" /\ s.out = out
    BY <1>4, SendingState
  <1>6. hs' = [hs EXCEPT ![h] = s] /\ hs'[h] = s
    BY <1>1 DEF RefuseConsent, TypeOK, LoginTypeOK
  <1>7. HandlerOK(h)'
    BY <1>4, <1>5, <1>6 DEF HandlerOK
  <1>8. DbTypeOK'
    BY <1>1, <1>2, <1>3
       DEF RefuseConsent, AcceptConsent, TypeOK, DbTypeOK, OnlyRowChanges, Unlock
  <1>9. RowsStay /\ JobsStay /\ TimelineStays
    BY <1>3, Zenon
       DEF RefuseConsent, AcceptConsent, RowsStay, JobsStay, TimelineStays, OnlyRowChanges
  <1>10. JobsHaveRows'
    BY <1>9, JobsKeepRows DEF RefuseConsent
  <1>11. StateOK'
    BY <1>1, <1>5, <1>6, <1>7, <1>8, <1>9, <1>10, HandlerKeepsState, Zenon
       DEF RefuseConsent, AcceptConsent, TypeOK, LoginTypeOK
  <1> QED
    BY <1>3, <1>11

\* A job that is enqueued for a row that exists leaves every job with a row.
LEMMA EnqueueKeepsRows ==
    ASSUME StateOK, RowsStay, NEW job \in Job, jobs' = enqueue(job), sessions[job.reg] # None
    PROVE  JobsHaveRows' /\ JobsStay /\ jobs' \in Seq(Job)
  <1>1. jobs \in Seq(Job) /\ DOMAIN jobs = 1 .. Len(jobs) /\ Len(jobs) \in Nat
    BY DEF StateOK, TypeOK, DbTypeOK
  <1>2. /\ jobs' \in Seq(Job) /\ JobsStay
        /\ DOMAIN jobs' = 1 .. Len(jobs) + 1
        /\ jobs'[Len(jobs) + 1] = job
    BY <1>1, EnqueueTyped
  <1>3. job.reg \in Registrations
    BY DEF Job
  <1>4. ASSUME NEW j \in DOMAIN jobs' PROVE sessions'[jobs'[j].reg] # None
    <2>1. CASE j \in DOMAIN jobs
      BY <1>1, <1>2, <2>1, JobTyped DEF StateOK, JobsHaveRows, RowsStay, JobsStay
    <2>2. CASE j = Len(jobs) + 1
      BY <1>2, <1>3, <2>2 DEF RowsStay
    <2> QED
      BY <1>1, <1>2, <2>1, <2>2
  <1> QED
    BY <1>2, <1>4 DEF JobsHaveRows

\* Committing an approval keeps the state well formed, and every binding.
LEMMA ApproveConsentTyped ==
    ASSUME StateOK, NEW h \in Handlers, ApproveConsent(h),
           UNCHANGED <<registering, deliveryVars, faults>>
    PROVE  /\ StateOK'
           /\ OnlyRowChanges(hs[h].reg)
           /\ \A q \in Registrations : BindingKept(q)
           /\ JobsStay
           /\ DOMAIN jobs' = 1 .. Len(jobs) + 1
           /\ LET job == jobs'[Len(jobs) + 1] IN
              /\ job.kind = "assertion"
              /\ job.reg = hs[h].reg
              /\ job.sub = derive_pairwise_sub(hs[h].reg.domain, Msg(h).sender)
              /\ job.event = hs[h].event
  <1> DEFINE r == hs[h].reg
             sub == derive_pairwise_sub(r.domain, Msg(h).sender)
             exp == assertion_expires_at(r.exp, hs[h].now)
             job == NewJob("assertion", r, sub, hs[h].event, hs[h].now, exp)
  <1>1. TypeOK /\ hs[h].pc = "locked"
    BY DEF StateOK, ApproveConsent, AcceptConsent, InTx
  <1>2. /\ r \in Registrations /\ r \in Registration /\ sessions[r] # None
        /\ hs[h].event \in EventIds /\ hs[h].now \in Int /\ Msg(h) \in Message
    BY <1>1, InsideTx
  <1>3. OnlyRowChanges(r) /\ \A q \in Registrations : BindingKept(q)
    BY <1>1, <1>2, CasState, Zenon DEF ApproveConsent, TypeOK, DbTypeOK, SessionStates
  <1>4. sub \in Subjects
    BY <1>2 DEF Subjects, derive_pairwise_sub, Registration, Message
  <1>5. exp \in Int
    BY <1>2, TimeAssumption DEF assertion_expires_at, min, Registration
  <1>6. jobs' = enqueue(job) /\ jobs \in Seq(Job)
    BY <1>1 DEF ApproveConsent, TypeOK, DbTypeOK
  <1> HIDE DEF sub, exp
  <1>7. /\ job \in Job
        /\ job.kind = "assertion" /\ job.reg = r /\ job.sub = sub /\ job.event = hs[h].event
    BY <1>2, <1>4, <1>5, Zenon DEF NewJob, Job
  <1> HIDE DEF job
  <1>8. RowsStay /\ TimelineStays
    BY <1>3, Zenon DEF ApproveConsent, AcceptConsent, RowsStay, TimelineStays, OnlyRowChanges
  <1>9. JobsHaveRows' /\ JobsStay /\ jobs' \in Seq(Job)
    BY <1>2, <1>6, <1>7, <1>8, EnqueueKeepsRows
  <1>10. DOMAIN jobs' = 1 .. Len(jobs) + 1 /\ jobs'[Len(jobs) + 1] = job
    BY <1>6, <1>7, EnqueueTyped
  <1>11. grants' \in [Subjects -> GrantStates]
    BY <1>1, <1>4 DEF ApproveConsent, upsert_grant, TypeOK, DbTypeOK, GrantStates, sub
  <1>12. DbTypeOK'
    BY <1>1, <1>2, <1>3, <1>9, <1>11, Zenon
       DEF ApproveConsent, AcceptConsent, TypeOK, DbTypeOK, OnlyRowChanges, Unlock
  <1>13. hs' = [hs EXCEPT ![h] = IdleHandler] /\ hs'[h] = IdleHandler
    BY <1>1 DEF ApproveConsent, Return, TypeOK, LoginTypeOK
  <1>14. StateOK'
    BY <1>1, <1>8, <1>9, <1>12, <1>13, IdleHandlerOK, HandlerKeepsState, Zenon
       DEF ApproveConsent, AcceptConsent, TypeOK, LoginTypeOK
  <1> QED
    BY <1>3, <1>7, <1>9, <1>10, <1>14 DEF sub

\* Committing a revocation keeps the state well formed, and every binding.
LEMMA RevokeGrantTyped ==
    ASSUME StateOK, NEW h \in Handlers, RevokeGrant(h),
           UNCHANGED <<registering, deliveryVars, faults>>
    PROVE  /\ StateOK'
           /\ OnlyRowChanges(hs[h].reg)
           /\ \A q \in Registrations : BindingKept(q)
           /\ JobsStay
           /\ DOMAIN jobs' = 1 .. Len(jobs) + 1
           /\ jobs'[Len(jobs) + 1].kind = "revocation"
  <1> DEFINE r == hs[h].reg
             job == NewJob("revocation", r, Msg(h).sub, hs[h].event, now, now)
  <1>1. TypeOK /\ hs[h].pc = "locked"
    BY Zenon DEF StateOK, RevokeGrant, InTx
  <1>2. /\ r \in Registrations /\ sessions[r] # None
        /\ hs[h].event \in EventIds /\ Msg(h) \in Message
    BY <1>1, InsideTx
  <1>3. OnlyRowChanges(r) /\ \A q \in Registrations : BindingKept(q)
    BY <1>1, <1>2, CasState, Zenon DEF RevokeGrant, TypeOK, DbTypeOK, SessionStates
  <1>4. Msg(h).sub \in Subjects /\ now \in Int
    <2>1. Msg(h).sub \in Subjects
      <3> HIDE DEF r, job
      <3> QED
        BY <1>2 DEF Message
    <2>2. now \in Int
      BY <1>1 DEF TypeOK, DbTypeOK
    <2> QED
      BY <2>1, <2>2
  <1>5. jobs' = enqueue(job) /\ jobs \in Seq(Job)
    BY <1>1, Zenon DEF RevokeGrant, TypeOK, DbTypeOK
  <1>6. job \in Job /\ job.kind = "revocation" /\ job.reg = r
    BY <1>2, <1>4, Zenon DEF NewJob, Job
  <1> HIDE DEF job
  <1>7. RowsStay /\ TimelineStays
    BY <1>3, Zenon DEF RevokeGrant, RowsStay, TimelineStays, OnlyRowChanges
  <1>8. JobsHaveRows' /\ JobsStay /\ jobs' \in Seq(Job)
    BY <1>2, <1>5, <1>6, <1>7, EnqueueKeepsRows
  <1>9. DOMAIN jobs' = 1 .. Len(jobs) + 1 /\ jobs'[Len(jobs) + 1] = job
    BY <1>5, <1>6, EnqueueTyped
  <1>10. DbTypeOK'
    BY <1>1, <1>2, <1>3, <1>4, <1>8, Zenon
       DEF RevokeGrant, mark_revoked, GrantStates, TypeOK, DbTypeOK, OnlyRowChanges, Unlock
  <1>11. hs' = [hs EXCEPT ![h] = IdleHandler] /\ hs'[h] = IdleHandler
    BY <1>1 DEF RevokeGrant, Return, TypeOK, LoginTypeOK
  <1>12. StateOK'
    BY <1>1, <1>7, <1>8, <1>10, <1>11, IdleHandlerOK, HandlerKeepsState, Zenon
       DEF RevokeGrant, TypeOK, LoginTypeOK
  <1> QED
    BY <1>3, <1>6, <1>8, <1>9, <1>12, Zenon

\* Receiving an event keeps the state well formed.
LEMMA ReceiveTyped ==
    ASSUME StateOK, NEW h \in Handlers, NEW e \in EventIds, NEW m \in Messages,
           Receive(h, e, m)
    PROVE  StateOK' /\ TimelineStays
  <1> DEFINE s == Received(e)
  <1>1. /\ TypeOK
        /\ hs' = [hs EXCEPT ![h] = s]
        /\ timeline' = [timeline EXCEPT ![e] = m]
        /\ timeline[e] \in {None, m}
        /\ UNCHANGED <<dbVars, now, challengeNotices, failureResults, registering,
                       deliveryVars, faults>>
    BY DEF StateOK, Receive, HandleInbound
  <1>2. m # None
    BY MessageAssumption, NoneMessageAssumption
  <1>3. timeline' \in [EventIds -> Messages \cup {None}] /\ timeline'[e] = m /\ TimelineStays
    BY <1>1 DEF TypeOK, LoginTypeOK, TimelineStays
  <1>4. now \in Int
    BY <1>1 DEF TypeOK, DbTypeOK
  <1>5. s \in HandlerState /\ s.pc = "received" /\ s.event = e
    BY <1>4 DEF HandlerState, Received
  <1> HIDE DEF s
  <1>6. hs'[h] = s
    BY <1>1 DEF TypeOK, LoginTypeOK
  <1>7. HandlerOK(h)'
    BY <1>2, <1>3, <1>5, <1>6 DEF HandlerOK, Msg
  <1>8. DbTypeOK' /\ RowsStay /\ JobsStay /\ JobsHaveRows'
    BY <1>1 DEF StateOK, TypeOK, DbTypeOK, dbVars, RowsStay, JobsStay, JobsHaveRows
  <1>9. StateOK'
    BY <1>1, <1>3, <1>5, <1>7, <1>8, HandlerKeepsState, Zenon DEF TypeOK, LoginTypeOK
  <1> QED
    BY <1>3, <1>9

\* A step that moves no process and no job keeps the state well formed.
LEMMA NoProcessMoves ==
    ASSUME StateOK, DbTypeOK', RowsStay, JobsStay, DOMAIN jobs' = DOMAIN jobs,
           registering' \subseteq Registrations,
           UNCHANGED <<loginVars, deliveryVars, faults>>
    PROVE  StateOK'
  <1>1. /\ UNCHANGED <<timeline, hs, challengeNotices, failureResults>>
        /\ UNCHANGED <<ws, accepted, successResults>>
    BY DEF loginVars, deliveryVars
  <1>2. LoginTypeOK' /\ DeliveryTypeOK'
    BY <1>1, Zenon DEF StateOK, TypeOK, LoginTypeOK, DeliveryTypeOK
  <1>3. \A h \in Handlers : HandlerOK(h)'
    BY <1>1, HandlerStays DEF TimelineStays
  <1>4. \A w \in Workers : WorkerOK(w)'
    BY <1>1, WorkerStays
  <1>5. JobsHaveRows'
    BY JobsKeepRows
  <1>6. TypeOK'
    BY <1>2 DEF StateOK, TypeOK
  <1> QED
    BY <1>3, <1>4, <1>5, <1>6, Zenon DEF StateOK

\* The clock, the registrations and the retry times keep the state well formed.
LEMMA EnvironmentTyped ==
    ASSUME StateOK,
           \/ ClockTick
           \/ \E r \in Registrations : Register(r)
           \/ \E j \in DOMAIN jobs : RetryTime(j)
    PROVE  StateOK' /\ RowsStay /\ JobsStay
  <1>0. TypeOK
    BY DEF StateOK
  <1>1. CASE ClockTick
    <2>1. DbTypeOK' /\ RowsStay /\ JobsStay
      BY <1>0, <1>1 DEF ClockTick, TypeOK, DbTypeOK, dbVars, RowsStay, JobsStay
    <2> QED
      BY <1>0, <1>1, <2>1, NoProcessMoves DEF ClockTick, TypeOK, dbVars
  <1>2. ASSUME NEW r \in Registrations, Register(r)
        PROVE  StateOK' /\ RowsStay /\ JobsStay
    <2>0. registering' \subseteq Registrations /\ UNCHANGED <<now, locks, requestEvents,
             consentEvents, challengeHashes, grants, jobs, loginVars, deliveryVars, faults>>
      BY <1>0, <1>2 DEF Register, RegistrationStep, ValidateRegistration, InsertRegistration,
                        RegistrationFails, dbVars, TypeOK
    <2>1. RegisteredRow \in Row /\ RegisteredRow # None
      BY NoneAssumption DEF RegisteredRow, Row, SessionStates
    <2>2. sessions' \in {sessions, [sessions EXCEPT ![r] = RegisteredRow]}
      BY <1>2 DEF Register, RegistrationStep, ValidateRegistration, InsertRegistration,
                  RegistrationFails, insert_registered, dbVars
    <2> HIDE DEF RegisteredRow
    <2>3. sessions' \in [Registrations -> Row \cup {None}] /\ RowsStay
      BY <1>0, <2>1, <2>2 DEF TypeOK, DbTypeOK, RowsStay
    <2>4. DbTypeOK' /\ JobsStay
      BY <1>0, <2>0, <2>3 DEF TypeOK, DbTypeOK, JobsStay
    <2> QED
      BY <2>0, <2>3, <2>4, NoProcessMoves
  <1>3. ASSUME NEW j \in DOMAIN jobs, RetryTime(j)
        PROVE  StateOK' /\ RowsStay /\ JobsStay
    <2> DEFINE f == [i \in DOMAIN jobs |->
                       IF i = j THEN [jobs[i] EXCEPT !.due = TRUE] ELSE jobs[i]]
    <2>1. jobs \in Seq(Job) /\ \A i \in DOMAIN jobs : jobs[i] \in Job
      BY <1>0, JobTyped DEF TypeOK, DbTypeOK
    <2>2. jobs' = f
      BY <1>3, <2>1, Zenon DEF RetryTime, RetryTimeReached
    <2>3. \A i \in DOMAIN jobs :
            /\ f[i] \in Job /\ f[i].kind = jobs[i].kind /\ f[i].reg = jobs[i].reg
            /\ f[i].sub = jobs[i].sub /\ f[i].event = jobs[i].event
      BY <2>1, Zenon DEF Job
    <2>4. jobs' = [i \in DOMAIN jobs |-> f[i]]
      BY <2>2
    <2> HIDE DEF f
    <2>5. jobs' \in Seq(Job) /\ JobsStay /\ DOMAIN jobs' = DOMAIN jobs
      BY <2>1, <2>3, <2>4, JobsUpdated, Zenon
    <2>6. DbTypeOK' /\ RowsStay
      BY <1>0, <1>3, <2>5 DEF RetryTime, RetryTimeReached, TypeOK, DbTypeOK, RowsStay
    <2> QED
      BY <1>0, <1>3, <2>5, <2>6, NoProcessMoves, Zenon DEF RetryTime, TypeOK
  <1> QED
    BY <1>1, <1>2, <1>3

\* A crash keeps the state well formed.
LEMMA CrashTyped ==
    ASSUME StateOK, Crash
    PROVE  StateOK'
  <1>1. DbTypeOK' /\ DOMAIN jobs' = DOMAIN jobs /\ registering' \subseteq Registrations
    BY DEF StateOK, Crash, TypeOK, DbTypeOK
  <1>2. \A h \in Handlers : hs'[h] = IdleHandler
    BY DEF Crash
  <1>3. \A w \in Workers : ws'[w] = IdleWorker
    BY DEF Crash
  <1>4. LoginTypeOK' /\ DeliveryTypeOK'
    BY IdleHandlerOK DEF StateOK, TypeOK, Crash, LoginTypeOK, DeliveryTypeOK
  <1>5. TypeOK'
    BY <1>1, <1>4 DEF StateOK, TypeOK, Crash
  <1>6. JobsHaveRows'
    BY DEF StateOK, JobsHaveRows, Crash
  <1> QED
    BY <1>2, <1>3, <1>5, <1>6, IdleHandlerOK DEF StateOK

\* The local state of a worker at a job of its batch.
LEMMA WorkingOK ==
    ASSUME NEW w \in Workers, NEW b \in SUBSET Claim, \A c \in b : c.id \in DOMAIN jobs',
           NEW c \in Claim, c.id \in DOMAIN jobs',
           NEW pc \in {"accepted", "mark_delivered", "mark_failed"},
           ws'[w] = Working(pc, b, c),
           pc = "accepted" => c.id \in Assertions'
    PROVE  Working(pc, b, c) \in WorkerState /\ WorkerOK(w)'
  BY DEF Working, WorkerState, WorkerOK, CurrentId

\* The local state of a worker that goes on with its batch.
LEMMA ContinueOK ==
    ASSUME NEW w \in Workers, NEW b \in SUBSET Claim, \A c \in b : c.id \in DOMAIN jobs',
           ws'[w] = Continue(b)
    PROVE  Continue(b) \in WorkerState /\ WorkerOK(w)'
  <1>1. /\ Continue(b) \in WorkerState
        /\ Continue(b).pc \in {"idle", "deliver"}
        /\ Continue(b).batch \subseteq b
    BY DEF Continue, IdleWorker, Working, WorkerState
  <1> QED
    BY <1>1 DEF WorkerOK

\* The local state of a worker whose delivery of c failed.
LEMMA DeliverErrOK ==
    ASSUME NEW w \in Workers, NEW b \in SUBSET Claim, \A c \in b : c.id \in DOMAIN jobs',
           NEW c \in Claim, c.id \in DOMAIN jobs',
           ws'[w] = DeliverErr(c, b)
    PROVE  DeliverErr(c, b) \in WorkerState /\ WorkerOK(w)'
  BY WorkingOK, ContinueOK DEF DeliverErr

\* What is known of a worker and of the job it is at.
LEMMA AtJob ==
    ASSUME StateOK, NEW w \in Workers
    PROVE  /\ ws \in [Workers -> WorkerState]
           /\ ws[w].batch \in SUBSET Claim
           /\ \A c \in ws[w].batch : c \in Claim /\ c.id \in DOMAIN jobs
           /\ ws[w].pc \notin {"idle", "deliver"} =>
                 /\ ws[w].job \in Claim
                 /\ CurrentId(w) \in DOMAIN jobs
                 /\ CurrentId(w) \in Nat
                 /\ Current(w).reg \in Registrations
                 /\ Current(w).sub \in Subjects
                 /\ sessions[Current(w).reg] # None
                 /\ sessions[Current(w).reg] \in Row
  <1>1. /\ ws \in [Workers -> WorkerState] /\ WorkerOK(w) /\ JobsHaveRows
        /\ jobs \in Seq(Job) /\ sessions \in [Registrations -> Row \cup {None}]
    BY DEF StateOK, TypeOK, DeliveryTypeOK, DbTypeOK
  <1>2. ws[w].batch \in SUBSET Claim
    BY <1>1 DEF WorkerState
  <1>3. ASSUME ws[w].pc \notin {"idle", "deliver"}
        PROVE  /\ ws[w].job \in Claim /\ CurrentId(w) \in DOMAIN jobs /\ CurrentId(w) \in Nat
               /\ Current(w).reg \in Registrations /\ Current(w).sub \in Subjects
               /\ sessions[Current(w).reg] # None
    BY <1>1, <1>3, JobTyped DEF WorkerOK, JobsHaveRows, Current, CurrentId
  <1> QED
    BY <1>1, <1>2, <1>3 DEF WorkerOK

\* What claim_due, mark_delivered and mark_failed may do to the jobs.
JobsRewritten ==
    /\ jobs' = [i \in DOMAIN jobs |-> jobs'[i]]
    /\ \A i \in DOMAIN jobs :
          \/ jobs'[i] = jobs[i]
          \/ jobs'[i] = [jobs[i] EXCEPT !.attempts = @ + 1, !.due = FALSE]
          \/ jobs'[i] = [jobs[i] EXCEPT !.status = "delivered"]
          \/ jobs'[i] = [jobs[i] EXCEPT !.status = "failed"]

\* The statements on one or more jobs keep them jobs, and what each is about.
LEMMA JobStatements ==
    ASSUME jobs \in Seq(Job), JobsRewritten
    PROVE  jobs' \in Seq(Job) /\ JobsStay /\ DOMAIN jobs' = DOMAIN jobs
  <1>1. \A i \in DOMAIN jobs : jobs[i] \in Job
    BY JobTyped
  <1>2. \A i \in DOMAIN jobs :
             \/ jobs'[i] = jobs[i]
             \/ jobs'[i] = [jobs[i] EXCEPT !.attempts = @ + 1, !.due = FALSE]
             \/ jobs'[i] = [jobs[i] EXCEPT !.status = "delivered"]
             \/ jobs'[i] = [jobs[i] EXCEPT !.status = "failed"]
    BY Zenon DEF JobsRewritten
  <1>3. ASSUME NEW i \in DOMAIN jobs
        PROVE  /\ jobs'[i] \in Job
               /\ jobs'[i].kind = jobs[i].kind /\ jobs'[i].reg = jobs[i].reg
               /\ jobs'[i].sub = jobs[i].sub /\ jobs'[i].event = jobs[i].event
    <2>1. jobs[i] \in Job
      BY <1>1
    <2>2. CASE jobs'[i] = [jobs[i] EXCEPT !.attempts = @ + 1, !.due = FALSE]
      <3> DEFINE n == jobs[i].attempts + 1
      <3>1. n \in Nat
        BY <2>1 DEF Job
      <3>2. jobs'[i] = [jobs[i] EXCEPT !.attempts = n, !.due = FALSE]
        BY <2>2
      <3> HIDE DEF n
      <3> QED
        BY <2>1, <3>1, <3>2, Zenon DEF Job
    <2>3. CASE jobs'[i] = [jobs[i] EXCEPT !.status = "delivered"]
      BY <2>1, <2>3, Zenon DEF Job
    <2>4. CASE jobs'[i] = [jobs[i] EXCEPT !.status = "failed"]
      BY <2>1, <2>4 DEF Job
    <2> QED
      BY <1>2, <2>1, <2>2, <2>3, <2>4, Zenon
  <1>4. jobs' = [i \in DOMAIN jobs |-> jobs'[i]]
    BY Zenon DEF JobsRewritten
  <1> QED
    BY <1>3, <1>4, JobsUpdated

\* The Result that a worker sends is well formed.
LEMMA ResultTyped ==
    ASSUME StateOK, NEW w \in Workers, ws[w].pc = "send_result"
    PROVE  ResultOf(w) \in SuccessResult
  <1>1. /\ ws[w].job \in Claim /\ CurrentId(w) \in Nat
        /\ Current(w).reg \in Registrations /\ Current(w).sub \in Subjects
        /\ ws[w].row \in Row
    BY AtJob, Zenon DEF StateOK, WorkerOK
  <1> QED
    BY <1>1, Zenon DEF ResultOf, SuccessResult, Row, Claim

\* claim_due claims jobs that are due, whichever rows it passes over.
LEMMA ClaimsDueJobs ==
    ASSUME NEW w \in Workers, ClaimDue(w)
    PROVE  \E S \in SUBSET DueJobs : ClaimRows(w, S)
  <1>1. PICK skipped \in SUBSET LockedByOthers(w) :
          ClaimRows(w, ClaimSet(DueJobs \ skipped, BatchLimit))
    BY DEF ClaimDue
  <1>2. ClaimSet(DueJobs \ skipped, BatchLimit) \in SUBSET DueJobs
    BY DEF ClaimSet
  <1> QED
    BY <1>1, <1>2

\* Every step of a worker keeps the state well formed.
LEMMA WorkerTyped ==
    ASSUME StateOK, NEW w \in Workers, Deliver(w) \/ AbortTick(w)
    PROVE  StateOK' /\ RowsStay /\ JobsStay /\ DOMAIN jobs' = DOMAIN jobs
  <1> USE DEF dbVars
  <1> DEFINE batch == ws[w].batch
             job == ws[w].job
  <1>0. /\ TypeOK /\ jobs \in Seq(Job) /\ faults' \in Nat
        /\ UNCHANGED <<now, registering, loginVars>>
        /\ accepted \subseteq DOMAIN jobs
        /\ successResults \subseteq SuccessResult
        /\ locks \in [Registrations -> Handlers \cup Workers \cup {None}]
    BY DEF StateOK, TypeOK, DbTypeOK, DeliveryTypeOK, Deliver, AbortTick
  <1>1. /\ ws \in [Workers -> WorkerState]
        /\ batch \in SUBSET Claim
        /\ \A c \in batch : c \in Claim /\ c.id \in DOMAIN jobs
    BY AtJob
  <1>2. (UNCHANGED <<sessions, jobs>>) => RowsStay /\ JobsStay /\ DOMAIN jobs' = DOMAIN jobs
    BY DEF RowsStay, JobsStay
  <1>3. CASE ClaimDue(w)
    <2>0. PICK S \in SUBSET DueJobs : ClaimRows(w, S)
      BY <1>3, ClaimsDueJobs
    <2> DEFINE b == {[id |-> j, attempts |-> jobs[j].attempts + 1] : j \in S}
    <2>1. S \subseteq DOMAIN jobs
      BY DEF DueJobs
    <2>2. jobs' = claim_due(S) /\ ws' = [ws EXCEPT ![w] = Continue(b)]
      BY <2>0 DEF ClaimRows
    <2>3. jobs' \in Seq(Job) /\ JobsStay /\ DOMAIN jobs' = DOMAIN jobs
      <3>1. JobsRewritten
        BY <2>2, Zenon DEF JobsRewritten, claim_due
      <3> QED
        BY <1>0, <3>1, JobStatements
    <2>4. \A j \in S : j \in Nat /\ jobs[j].attempts + 1 \in Nat /\ j \in DOMAIN jobs'
      <3>1. \A j \in S : j \in Nat /\ jobs[j] \in Job /\ j \in DOMAIN jobs'
        BY <1>0, <2>1, <2>3, JobTyped
      <3> QED
        BY <3>1 DEF Job
    <2>5. b \in SUBSET Claim /\ \A c \in b : c.id \in DOMAIN jobs'
      BY <2>4 DEF Claim
    <2> HIDE DEF b
    <2>6. Continue(b) \in WorkerState /\ WorkerOK(w)'
      BY <1>1, <2>2, <2>5, ContinueOK
    <2>7. DbTypeOK' /\ RowsStay
      BY <1>0, <2>0, <2>3 DEF ClaimRows, TypeOK, DbTypeOK, RowsStay
    <2> QED
      BY <1>0, <2>0, <2>2, <2>3, <2>6, <2>7, WorkerKeepsState, Zenon DEF ClaimRows
  <1>4. ASSUME NEW c \in batch, PostAccepted(w, c)
        PROVE  StateOK'
    <2>1. AfterPost(c) \in {"accepted", "mark_delivered"}
          /\ (AfterPost(c) = "accepted" => c.id \in Assertions')
      BY <1>1, <1>4, Zenon DEF AfterPost, Assertions, PostAccepted
    <2> DEFINE pc == AfterPost(c)
               s == Working(pc, batch \ {c}, c)
    <2>2. ws' = [ws EXCEPT ![w] = s] /\ ws'[w] = s
      BY <1>1, <1>4 DEF PostAccepted
    <2>3. /\ batch \ {c} \in SUBSET Claim /\ c \in Claim /\ c.id \in DOMAIN jobs'
          /\ \A d \in batch \ {c} : d.id \in DOMAIN jobs'
      BY <1>1, <1>4 DEF PostAccepted
    <2>4. s \in WorkerState /\ WorkerOK(w)'
      <3> HIDE DEF pc, batch
      <3>1. pc \in {"accepted", "mark_delivered"} /\ (pc = "accepted" => c.id \in Assertions')
        BY <2>1 DEF pc
      <3> QED
        BY <2>2, <2>3, <3>1, WorkingOK
    <2>5. accepted' \subseteq DOMAIN jobs
      BY <1>0, <1>1, <1>4, Zenon DEF PostAccepted
    <2> QED
      BY <1>0, <1>4, <2>2, <2>4, <2>5, WorkerLocalStep, Zenon DEF PostAccepted
  <1>5. ASSUME NEW c \in batch, PostFails(w, c)
        PROVE  StateOK'
    <2> DEFINE s == DeliverErr(c, batch \ {c})
    <2>2. ws' = [ws EXCEPT ![w] = s] /\ ws'[w] = s
      BY <1>1, <1>5, Zenon DEF PostFails
    <2>3. /\ batch \ {c} \in SUBSET Claim /\ c \in Claim /\ c.id \in DOMAIN jobs'
          /\ \A d \in batch \ {c} : d.id \in DOMAIN jobs'
      BY <1>1, <1>5 DEF PostFails
    <2>4. s \in WorkerState /\ WorkerOK(w)'
      BY <2>2, <2>3, DeliverErrOK, Zenon
    <2>5. accepted' \subseteq DOMAIN jobs
      BY <1>0, <1>1, <1>5 DEF PostFails
    <2>6. UNCHANGED <<dbVars, successResults>>
      BY <1>5 DEF PostFails
    <2> HIDE DEF s
    <2> QED
      BY <1>0, <2>2, <2>4, <2>5, <2>6, WorkerLocalStep, Zenon DEF dbVars
  <1>6. ASSUME NEW r \in Registrations, LockAccepted(w, r)
        PROVE  StateOK'
    <2> DEFINE s == [ws[w] EXCEPT !.pc = "locked", !.row = sessions[r]]
    <2>1. /\ job \in Claim /\ CurrentId(w) \in DOMAIN jobs /\ CurrentId(w) \in Assertions
          /\ sessions[r] \in Row /\ ws[w] \in WorkerState
      BY <1>1, <1>6, AtJob DEF LockAccepted, StateOK, WorkerOK
    <2>2. /\ s \in WorkerState
          /\ s.pc = "locked" /\ s.row = sessions[r] /\ s.job = job /\ s.batch = batch
      BY <2>1, Zenon DEF WorkerState
    <2>3. ws' = [ws EXCEPT ![w] = s] /\ ws'[w] = s /\ UNCHANGED <<jobs, sessions>>
      BY <1>1, <1>6 DEF LockAccepted
    <2> HIDE DEF s
    <2>4. CurrentId(w)' \in Assertions'
      BY <2>1, <2>2, <2>3 DEF CurrentId, Assertions
    <2>5. WorkerOK(w)'
      BY <1>1, <2>1, <2>2, <2>3, <2>4 DEF WorkerOK, CurrentId
    <2>6. locks' \in [Registrations -> Handlers \cup Workers \cup {None}]
      BY <1>0, <1>6 DEF LockAccepted, Lock
    <2> QED
      BY <1>0, <1>6, <2>2, <2>3, <2>5, <2>6, WorkerLocalStep, Zenon DEF LockAccepted
  <1>7. CASE CommitDelivered(w)
    <2> DEFINE s == [ws[w] EXCEPT !.pc = "send_result"]
               r == Current(w).reg
    <2>1. /\ job \in Claim /\ CurrentId(w) \in DOMAIN jobs /\ CurrentId(w) \in Assertions
          /\ r \in Registrations /\ sessions[r] # None /\ ws[w].row \in Row
          /\ ws[w] \in WorkerState
      BY <1>1, <1>7, AtJob DEF CommitDelivered, StateOK, WorkerOK
    <2>2. /\ s \in WorkerState
          /\ s.pc = "send_result" /\ s.row = ws[w].row /\ s.job = job /\ s.batch = batch
      BY <2>1 DEF WorkerState
    <2>3. ws' = [ws EXCEPT ![w] = s] /\ ws'[w] = s /\ UNCHANGED jobs
      BY <1>1, <1>7 DEF CommitDelivered
    <2> HIDE DEF s
    <2>4. CurrentId(w)' \in Assertions'
      BY <2>1, <2>2, <2>3 DEF CurrentId, Assertions
    <2>5. WorkerOK(w)'
      BY <1>1, <2>1, <2>2, <2>3, <2>4 DEF WorkerOK, CurrentId
    <2>6. OnlyRowChanges(r)
      BY <1>0, <1>7, <2>1, CasState DEF CommitDelivered, TypeOK, DbTypeOK, SessionStates
    <2>7. DbTypeOK' /\ RowsStay /\ JobsStay
      BY <1>0, <1>7, <2>6, Zenon
         DEF CommitDelivered, TypeOK, DbTypeOK, OnlyRowChanges, Unlock, RowsStay, JobsStay
    <2> QED
      BY <1>0, <1>7, <2>2, <2>3, <2>5, <2>7, WorkerKeepsState, Zenon DEF CommitDelivered
  <1>8. CASE AcceptedDbError(w) \/ ResultFails(w)
    <2> DEFINE s == DeliverErr(job, batch)
    <2>1. job \in Claim /\ job.id \in DOMAIN jobs
      BY <1>8, AtJob DEF AcceptedDbError, ResultFails, CurrentId
    <2>2. /\ ws' = [ws EXCEPT ![w] = s] /\ ws'[w] = s
          /\ UNCHANGED <<sessions, requestEvents, consentEvents, challengeHashes, grants, jobs,
                         accepted>>
      BY <1>1, <1>8, Zenon DEF AcceptedDbError, ResultFails
    <2>3. s \in WorkerState /\ WorkerOK(w)'
      BY <1>1, <2>1, <2>2, DeliverErrOK, Zenon
    <2>4. locks' \in [Registrations -> Handlers \cup Workers \cup {None}]
      BY <1>0, <1>8 DEF AcceptedDbError, ResultFails
    <2>5. successResults' \subseteq SuccessResult
      BY <1>0, <1>8, ResultTyped DEF AcceptedDbError, ResultFails
    <2>6. StateOK'
      BY <1>0, <2>2, <2>3, <2>4, <2>5, WorkerLocalStep, Zenon
    <2> QED
      BY <1>2, <2>2, <2>6
  <1>9. CASE SendResult(w)
    <2> DEFINE s == Working("mark_delivered", batch, job)
    <2>1. job \in Claim /\ job.id \in DOMAIN jobs
      BY <1>9, AtJob, Zenon DEF SendResult, CurrentId
    <2>2. ws' = [ws EXCEPT ![w] = s] /\ ws'[w] = s /\ UNCHANGED <<dbVars, accepted>>
      BY <1>1, <1>9, Zenon DEF SendResult
    <2>3. s \in WorkerState /\ WorkerOK(w)'
      BY <1>1, <2>1, <2>2, WorkingOK, Zenon
    <2>4. successResults' \subseteq SuccessResult
      BY <1>0, <1>9, ResultTyped DEF SendResult
    <2>5. StateOK'
      BY <1>0, <2>2, <2>3, <2>4, WorkerLocalStep, Zenon
    <2> QED
      BY <1>2, <2>2, <2>5
  <1>10. CASE MarkDelivered(w) \/ MarkFailed(w)
    <2>1. /\ jobs' \in {mark_delivered(CurrentId(w)), mark_failed(CurrentId(w))}
          /\ ws' = [ws EXCEPT ![w] = Continue(batch)] /\ ws'[w] = Continue(batch)
          /\ UNCHANGED <<sessions, locks, requestEvents, consentEvents, challengeHashes, grants,
                         accepted, successResults>>
      BY <1>1, <1>10, Zenon DEF MarkDelivered, MarkFailed
    <2>2. jobs' \in Seq(Job) /\ JobsStay /\ DOMAIN jobs' = DOMAIN jobs
      <3>1. JobsRewritten
        BY <2>1, Zenon DEF JobsRewritten, mark_delivered, mark_failed
      <3> QED
        BY <1>0, <3>1, JobStatements
    <2>3. Continue(batch) \in WorkerState /\ WorkerOK(w)'
      BY <1>1, <2>1, <2>2, ContinueOK, Zenon
    <2>4. DbTypeOK' /\ RowsStay
      BY <1>0, <2>1, <2>2, Zenon DEF TypeOK, DbTypeOK, RowsStay
    <2> QED
      BY <1>0, <2>1, <2>2, <2>3, <2>4, WorkerKeepsState, Zenon
  <1>11. CASE MarkFails(w)
    <2>1. /\ ws' = [ws EXCEPT ![w] = IdleWorker] /\ ws'[w] = IdleWorker
          /\ UNCHANGED <<dbVars, accepted, successResults>>
      BY <1>1, <1>11, Zenon DEF MarkFails
    <2>2. StateOK'
      BY <1>0, <2>1, IdleHandlerOK, WorkerLocalStep, Zenon
    <2> QED
      BY <1>2, <2>1, <2>2
  <1>12. ASSUME NEW c \in batch, PostAccepted(w, c) \/ PostFails(w, c)
         PROVE  UNCHANGED <<sessions, jobs>>
    BY <1>12, Zenon DEF PostAccepted, PostFails
  <1>13. ASSUME NEW r \in Registrations, LockAccepted(w, r)
         PROVE  UNCHANGED <<sessions, jobs>>
    BY <1>13 DEF LockAccepted
  <1> QED
    BY <1>2, <1>3, <1>4, <1>5, <1>6, <1>7, <1>8, <1>9, <1>10, <1>11, <1>12, <1>13, Zenon
       DEF Deliver, AbortTick, WorkerStep

\* Every step of a handler keeps the state well formed.
LEMMA HandleTyped ==
    ASSUME StateOK, NEW h \in Handlers, Handle(h)
    PROVE  StateOK'
  <1>1. UNCHANGED <<registering, deliveryVars, faults>> /\ HandlerStep(h)
    BY DEF Handle
  <1> QED
    BY <1>1, QuietHandlerTyped, SelectForUpdateTyped, IssueChallengeTyped,
       RejectExpiredConsentTyped, RefuseConsentTyped, ApproveConsentTyped, RevokeGrantTyped, Zenon
       DEF HandlerStep

\* The initial state is well formed.
LEMMA InitTyped == Init => StateOK
  <1> SUFFICES ASSUME Init PROVE StateOK
    OBVIOUS
  <1> USE DEF Init
  <1>1. DbTypeOK /\ DOMAIN jobs = {}
    BY DEF DbInit, DbTypeOK, GrantStates
  <1>2. LoginTypeOK
    BY IdleHandlerOK DEF LoginInit, LoginTypeOK
  <1>3. DeliveryTypeOK
    BY IdleHandlerOK DEF DeliveryInit, DeliveryTypeOK
  <1>4. \A h \in Handlers : HandlerOK(h)
    BY DEF LoginInit, HandlerOK, IdleHandler
  <1>5. \A w \in Workers : WorkerOK(w)
    BY Zenon DEF DeliveryInit, WorkerOK, IdleWorker, Working
  <1> QED
    BY <1>1, <1>2, <1>3, <1>4, <1>5 DEF StateOK, TypeOK, JobsHaveRows

\* Every step keeps the state well formed.
LEMMA NextTyped == StateOK /\ [Next]_vars => StateOK'
  <1> SUFFICES ASSUME StateOK, [Next]_vars PROVE StateOK'
    OBVIOUS
  <1>1. CASE UNCHANGED vars
    <2>1. DbTypeOK' /\ RowsStay /\ JobsStay
      BY <1>1 DEF StateOK, TypeOK, DbTypeOK, RowsStay, JobsStay, vars, dbVars
    <2> QED
      BY <1>1, <2>1, NoProcessMoves DEF vars, dbVars, StateOK, TypeOK
  <1> QED
    BY <1>1, EnvironmentTyped, ReceiveTyped, HandleTyped, WorkerTyped, CrashTyped, Zenon DEF Next

\* TypeOK holds in every reachable state: every table, local state and notice
\* of the relay keeps its type, whatever the constants.
THEOREM TypeCorrect == Spec => []TypeOK
  <1>1. StateOK => TypeOK
    BY DEF StateOK
  <1> QED
    BY <1>1, InitTyped, NextTyped, PTL DEF Spec
=============================================================================
