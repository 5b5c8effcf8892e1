----------------------------- MODULE RelayProofs -----------------------------
(***************************************************************************)
(* The safety properties of the login: what a row lock protects, what a     *)
(* Challenge promises, and what stands behind an assertion.                 *)
(***************************************************************************)
EXTENDS RelayTypeProofs

-----------------------------------------------------------------------------
(* Row locks *)

\* Process p touches no row, and no lock, that another process has locked.
LEMMA OthersHold ==
    ASSUME StateOK, RowLockGuardsSnapshot, JobsStay, NEW p,
           \A q \in Registrations : sessions[q] # None /\ locks[q] \notin {p, None} =>
               locks'[q] = locks[q] /\ sessions'[q] = sessions[q],
           \A h \in Handlers : h # p => hs'[h] = hs[h],
           \A w \in Workers : w # p => ws'[w] = ws[w]
    PROVE  /\ \A h \in Handlers : h # p => HandlerHolds(h)'
           /\ \A w \in Workers : w # p => WorkerHolds(w)'
  <1>1. ASSUME NEW h \in Handlers, h # p PROVE HandlerHolds(h)'
    <2> SUFFICES ASSUME hs[h].pc = "locked"
                 PROVE  HandlerHolds(h)'
      BY <1>1 DEF HandlerHolds
    <2>1. hs[h].reg \in Registrations /\ sessions[hs[h].reg] # None
      BY InsideTx
    <2>2. locks[hs[h].reg] = h /\ sessions[hs[h].reg] = hs[h].row /\ h # None
      BY NoneAssumption DEF RowLockGuardsSnapshot, HandlerHolds
    <2> QED
      BY <1>1, <2>1, <2>2 DEF HandlerHolds
  <1>2. ASSUME NEW w \in Workers, w # p PROVE WorkerHolds(w)'
    <2> SUFFICES ASSUME ws[w].pc = "locked"
                 PROVE  WorkerHolds(w)'
      BY <1>2 DEF WorkerHolds
    <2> DEFINE r == Current(w).reg
    <2>1. r \in Registrations /\ sessions[r] # None /\ CurrentId(w) \in DOMAIN jobs
      BY AtJob
    <2>2. locks[r] = w /\ sessions[r] = ws[w].row /\ w # None
      BY NoneAssumption DEF RowLockGuardsSnapshot, WorkerHolds
    <2>3. Current(w).reg' = r
      BY <1>2, <2>1 DEF JobsStay, Current, CurrentId
    <2> QED
      BY <1>2, <2>1, <2>2, <2>3 DEF WorkerHolds
  <1> QED
    BY <1>1, <1>2

\* The locks of the other processes still belong to their transactions.
LEMMA OthersOwn ==
    ASSUME StateOK, RowLockGuardsSnapshot, JobsStay, NEW p,
           \A q \in Registrations : sessions[q] # None /\ locks[q] \notin {p, None} =>
               locks'[q] = locks[q] /\ sessions'[q] = sessions[q],
           \A h \in Handlers : h # p => hs'[h] = hs[h],
           \A w \in Workers : w # p => ws'[w] = ws[w],
           NEW r \in Registrations, locks[r] \notin {p, None}
    PROVE  LockOwned(r)'
  <1>1. CASE /\ locks[r] \in Handlers
             /\ hs[locks[r]].pc = "locked" /\ hs[locks[r]].reg = r
    <2>1. sessions[r] # None
      BY <1>1, InsideTx
    <2> QED
      BY <1>1, <2>1 DEF LockOwned
  <1>2. CASE /\ locks[r] \in Workers
             /\ ws[locks[r]].pc = "locked" /\ Current(locks[r]).reg = r
    <2> DEFINE w == locks[r]
    <2>1. sessions[r] # None /\ CurrentId(w) \in DOMAIN jobs
      BY <1>2, AtJob
    <2>2. locks'[r] = w /\ ws'[w] = ws[w]
      BY <1>2, <2>1
    <2>3. Current(w).reg' = r
      BY <1>2, <2>1, <2>2 DEF JobsStay, Current, CurrentId
    <2> QED
      BY <1>2, <2>2, <2>3 DEF LockOwned
  <1> QED
    BY <1>1, <1>2 DEF RowLockGuardsSnapshot, LockOwned

\* A process that is inside no transaction has no lock, and inside one it has
\* the lock of its row only.
LEMMA OwnLocks ==
    ASSUME StateOK, RowLockGuardsSnapshot, NEW r \in Registrations
    PROVE  /\ \A h \in Handlers : locks[r] = h => hs[h].pc = "locked" /\ hs[h].reg = r
           /\ \A w \in Workers : locks[r] = w => ws[w].pc = "locked" /\ Current(w).reg = r
  BY ProcessAssumption, NoneAssumption DEF RowLockGuardsSnapshot, LockOwned

\* Process p moves alone, is inside no transaction afterwards, and keeps no lock.
LEMMA MoverLeaves ==
    ASSUME StateOK, RowLockGuardsSnapshot, JobsStay, NEW p,
           \A q \in Registrations : sessions[q] # None /\ locks[q] \notin {p, None} =>
               locks'[q] = locks[q] /\ sessions'[q] = sessions[q],
           \A h \in Handlers : h # p => hs'[h] = hs[h],
           \A w \in Workers : w # p => ws'[w] = ws[w],
           p \in Handlers => hs'[p].pc # "locked",
           p \in Workers => ws'[p].pc # "locked",
           \A q \in Registrations : locks[q] \in {p, None} => locks'[q] = None
    PROVE  RowLockGuardsSnapshot'
  <1>1. p \in Handlers => HandlerHolds(p)'
    BY DEF HandlerHolds
  <1>2. p \in Workers => WorkerHolds(p)'
    BY DEF WorkerHolds
  <1>3. \A r \in Registrations : LockOwned(r)'
    <2> SUFFICES ASSUME NEW r \in Registrations PROVE LockOwned(r)'
      OBVIOUS
    <2>1. CASE locks[r] \in {p, None}
      BY <2>1 DEF LockOwned
    <2>2. CASE locks[r] \notin {p, None}
      BY <2>2, OthersOwn
    <2> QED
      BY <2>1, <2>2
  <1> QED
    BY <1>1, <1>2, <1>3, OthersHold DEF RowLockGuardsSnapshot

\* The steps of the environment disturb no row that is locked.
LEMMA EnvironmentLocks ==
    ASSUME StateOK, RowLockGuardsSnapshot,
           \/ ClockTick
           \/ \E r \in Registrations : Register(r)
           \/ \E j \in DOMAIN jobs : RetryTime(j)
    PROVE  RowLockGuardsSnapshot'
  <1>1. JobsStay
    BY EnvironmentTyped
  <1>2. UNCHANGED <<locks, hs, ws>>
    BY DEF ClockTick, Register, RegistrationStep, ValidateRegistration, InsertRegistration,
           RegistrationFails, RetryTime, RetryTimeReached, dbVars, loginVars, deliveryVars
  <1>3. \A q \in Registrations : sessions[q] # None => sessions'[q] = sessions[q]
    <2>1. CASE UNCHANGED sessions
      BY <2>1
    <2>2. ASSUME NEW r \in Registrations, InsertRegistration(r)
          PROVE  \A q \in Registrations : sessions[q] # None => sessions'[q] = sessions[q]
      BY <2>2 DEF InsertRegistration, insert_registered, UniqueViolation, StateOK, TypeOK, DbTypeOK
    <2> QED
      BY <2>1, <2>2 DEF ClockTick, Register, RegistrationStep, ValidateRegistration,
                        RegistrationFails, RetryTime, RetryTimeReached, dbVars
  <1>4. None \notin Handlers \cup Workers
    BY NoneAssumption
  <1> QED
    BY <1>1, <1>2, <1>3, <1>4, MoverLeaves

\* Receiving an event disturbs no row that is locked.
LEMMA ReceiveLocks ==
    ASSUME StateOK, RowLockGuardsSnapshot, NEW h \in Handlers, NEW e \in EventIds,
           NEW m \in Messages, Receive(h, e, m)
    PROVE  RowLockGuardsSnapshot'
  <1>1. JobsStay /\ UNCHANGED <<sessions, locks, ws>>
    BY DEF Receive, HandleInbound, dbVars, deliveryVars, JobsStay
  <1>2. hs \in [Handlers -> HandlerState] /\ hs' = [hs EXCEPT ![h] = Received(e)]
    BY DEF StateOK, TypeOK, LoginTypeOK, Receive, HandleInbound
  <1>3. hs'[h].pc = "received" /\ \A g \in Handlers : g # h => hs'[g] = hs[g]
    BY <1>2 DEF Received
  <1>4. h \notin Workers
    BY ProcessAssumption
  <1>5. hs[h].pc = "idle"
    BY DEF Receive, HandleInbound
  <1>6. \A q \in Registrations : locks[q] # h
    BY <1>5, OwnLocks
  <1> QED
    BY <1>1, <1>3, <1>4, <1>6, MoverLeaves

\* A handler that takes the lock of a row gets the row as it is.
LEMMA SelectForUpdateLocks ==
    ASSUME StateOK, RowLockGuardsSnapshot, NEW h \in Handlers, NEW r \in Registrations,
           SelectForUpdate(h, r), UNCHANGED deliveryVars
    PROVE  RowLockGuardsSnapshot'
  <1>1. /\ hs \in [Handlers -> HandlerState]
        /\ locks \in [Registrations -> Handlers \cup Workers \cup {None}]
        /\ h \notin Workers
    BY ProcessAssumption DEF StateOK, TypeOK, LoginTypeOK, DbTypeOK
  <1>2. /\ JobsStay /\ UNCHANGED <<sessions, ws>>
        /\ locks[r] = None /\ locks' = [locks EXCEPT ![r] = h]
        /\ hs' = [hs EXCEPT ![h] = [@ EXCEPT !.pc = "locked", !.reg = r, !.row = sessions[r]]]
    BY DEF SelectForUpdate, RowLockFree, Lock, deliveryVars, JobsStay
  <1>3. hs'[h].reg = r /\ hs'[h].row = sessions[r] /\ locks'[r] = h /\ hs'[h].pc = "locked"
    BY <1>1, <1>2 DEF HandlerState
  <1>4. HandlerHolds(h)'
    BY <1>2, <1>3 DEF HandlerHolds
  <1>5. /\ \A q \in Registrations : q # r => locks'[q] = locks[q]
        /\ \A g \in Handlers : g # h => hs'[g] = hs[g]
    BY <1>1, <1>2
  <1>6. \A q \in Registrations : LockOwned(q)'
    <2> SUFFICES ASSUME NEW q \in Registrations PROVE LockOwned(q)'
      OBVIOUS
    <2>1. CASE q = r
      BY <1>3, <2>1 DEF LockOwned
    <2>2. CASE q # r /\ locks[q] = None
      BY <1>5, <2>2 DEF LockOwned
    <2>3. hs[h].pc = "received"
      BY DEF SelectForUpdate
    <2>4. CASE q # r /\ locks[q] # None
      <3>1. locks[q] \notin {h, None}
        BY <2>3, <2>4, OwnLocks
      <3> QED
        BY <1>2, <1>5, <3>1, OthersOwn
    <2> QED
      BY <2>1, <2>2, <2>4
  <1> QED
    BY <1>1, <1>2, <1>4, <1>5, <1>6, OthersHold DEF RowLockGuardsSnapshot

\* The other steps of a handler end its transaction, and touch its row only.
LEMMA HandlerLeaves ==
    ASSUME StateOK, RowLockGuardsSnapshot, NEW h \in Handlers, JobsStay, UNCHANGED ws,
           NEW s, s.pc # "locked", hs' = [hs EXCEPT ![h] = s],
           \/ hs[h].pc # "locked" /\ UNCHANGED <<sessions, locks>>
           \/ /\ hs[h].pc = "locked"
              /\ Unlock(hs[h].reg)
              /\ \A q \in Registrations : q # hs[h].reg => sessions'[q] = sessions[q]
    PROVE  RowLockGuardsSnapshot'
  <1>1. /\ hs \in [Handlers -> HandlerState]
        /\ locks \in [Registrations -> Handlers \cup Workers \cup {None}]
        /\ h \notin Workers
    BY ProcessAssumption DEF StateOK, TypeOK, LoginTypeOK, DbTypeOK
  <1>2. hs'[h].pc # "locked" /\ \A g \in Handlers : g # h => hs'[g] = hs[g]
    BY <1>1
  <1>3. hs[h].pc = "locked" => locks[hs[h].reg] = h
    BY DEF RowLockGuardsSnapshot, HandlerHolds
  <1>4. \A q \in Registrations : locks[q] \notin {h, None} =>
            locks'[q] = locks[q] /\ sessions'[q] = sessions[q]
    BY <1>1, <1>3 DEF Unlock
  <1>5. \A q \in Registrations : locks[q] \in {h, None} => locks'[q] = None
    BY <1>1, OwnLocks DEF Unlock
  <1> QED
    BY <1>1, <1>2, <1>4, <1>5, MoverLeaves

\* Every step of a handler keeps the rows that are locked.
LEMMA HandleLocks ==
    ASSUME StateOK, RowLockGuardsSnapshot, NEW h \in Handlers, Handle(h)
    PROVE  RowLockGuardsSnapshot'
  <1>0. UNCHANGED <<registering, deliveryVars, faults>> /\ UNCHANGED ws /\ HandlerStep(h)
    BY DEF Handle, deliveryVars
  <1>1. ASSUME NEW r \in Registrations, SelectForUpdate(h, r)
        PROVE  RowLockGuardsSnapshot'
    BY <1>0, <1>1, SelectForUpdateLocks DEF deliveryVars
  <1>2. IdleHandler.pc # "locked" /\ (UNCHANGED jobs => JobsStay)
    BY DEF IdleHandler, JobsStay
  <1>3. CASE SelectFails(h) \/ SendChallenge(h) \/ SendFailure(h) \/ NoticeFails(h)
    <2>1. /\ hs' = [hs EXCEPT ![h] = IdleHandler] /\ UNCHANGED <<sessions, locks, jobs>>
          /\ hs[h].pc # "locked"
      BY <1>3 DEF SelectFails, SendChallenge, SendFailure, NoticeFails, Return, dbVars
    <2> QED
      BY <1>0, <1>2, <2>1, HandlerLeaves, Zenon
  <1>4. CASE DbError(h) \/ IgnoreRequest(h) \/ IgnoreConsent(h) \/ IgnoreRevocation(h)
    <2>1. /\ hs' = [hs EXCEPT ![h] = IdleHandler]
          /\ UNCHANGED <<sessions, jobs>>
          /\ \/ hs[h].pc # "locked" /\ UNCHANGED locks
             \/ hs[h].pc = "locked" /\ Unlock(hs[h].reg)
      BY <1>4 DEF DbError, IgnoreRequest, IgnoreConsent, IgnoreRevocation, InTx, LeaveTx,
                  Unlock, Return
    <2> QED
      BY <1>0, <1>2, <2>1, HandlerLeaves, Zenon
  <1>5. CASE RejectExpiredConsent(h)
    <2> DEFINE s == Sending("send_failure", [reg |-> hs[h].reg, room |-> Msg(h).room,
                                             reason |-> "request_expired"])
    <2>1. /\ hs' = [hs EXCEPT ![h] = s] /\ s.pc # "locked"
          /\ hs[h].pc = "locked" /\ Unlock(hs[h].reg) /\ UNCHANGED <<sessions, jobs>>
      BY <1>5 DEF RejectExpiredConsent, InTx, Sending
    <2> QED
      BY <1>0, <1>2, <2>1, HandlerLeaves, Zenon
  <1>6. CASE IssueChallenge(h)
    <2> DEFINE s == Sending("send_challenge",
                       [reg |-> hs[h].reg, room |-> Msg(h).room,
                        challenge |-> challengeHashes + 1, sent_at |-> hs[h].now,
                        expires_at |-> challenge_expires_at(hs[h].now, hs[h].reg.exp)])
    <2>1. /\ hs' = [hs EXCEPT ![h] = s] /\ s.pc # "locked"
          /\ hs[h].pc = "locked" /\ Unlock(hs[h].reg) /\ UNCHANGED jobs
      BY <1>6 DEF IssueChallenge, InTx, Sending
    <2>2. OnlyRowChanges(hs[h].reg)
      BY <1>0, <1>6, IssueChallengeTyped
    <2> QED
      BY <1>0, <1>2, <2>1, <2>2, HandlerLeaves, Zenon DEF OnlyRowChanges
  <1>7. CASE RefuseConsent(h)
    <2> DEFINE s == Sending("send_failure", [reg |-> hs[h].reg, room |-> Msg(h).room,
                                             reason |-> "request_cancelled"])
    <2>1. /\ hs' = [hs EXCEPT ![h] = s] /\ s.pc # "locked"
          /\ hs[h].pc = "locked" /\ Unlock(hs[h].reg) /\ UNCHANGED jobs
      BY <1>7 DEF RefuseConsent, AcceptConsent, InTx, Sending
    <2>2. OnlyRowChanges(hs[h].reg)
      BY <1>0, <1>7, RefuseConsentTyped
    <2> QED
      BY <1>0, <1>2, <2>1, <2>2, HandlerLeaves, Zenon DEF OnlyRowChanges
  <1>8. CASE ApproveConsent(h) \/ RevokeGrant(h)
    <2>1. /\ hs' = [hs EXCEPT ![h] = IdleHandler]
          /\ hs[h].pc = "locked" /\ Unlock(hs[h].reg)
      BY <1>8 DEF ApproveConsent, AcceptConsent, RevokeGrant, InTx, Return
    <2>2. OnlyRowChanges(hs[h].reg) /\ JobsStay
      BY <1>0, <1>8, ApproveConsentTyped, RevokeGrantTyped
    <2> QED
      BY <1>0, <1>2, <2>1, <2>2, HandlerLeaves, Zenon DEF OnlyRowChanges
  <1> QED
    BY <1>0, <1>1, <1>3, <1>4, <1>5, <1>6, <1>7, <1>8 DEF HandlerStep

\* Every step of a worker keeps the rows that are locked.
LEMMA WorkerLocks ==
    ASSUME StateOK, RowLockGuardsSnapshot, NEW w \in Workers, Deliver(w) \/ AbortTick(w)
    PROVE  RowLockGuardsSnapshot'
  <1> USE DEF dbVars
  <1>1. /\ ws \in [Workers -> WorkerState] /\ JobsStay /\ UNCHANGED hs /\ w \notin Handlers
        /\ locks \in [Registrations -> Handlers \cup Workers \cup {None}]
        /\ sessions \in [Registrations -> Row \cup {None}]
        /\ ws[w].pc = "locked" => locks[Current(w).reg] = w
    BY WorkerTyped, ProcessAssumption, Zenon
       DEF StateOK, TypeOK, DeliveryTypeOK, DbTypeOK, Deliver, AbortTick, loginVars,
           RowLockGuardsSnapshot, WorkerHolds
  <1>2. ASSUME NEW r \in Registrations, LockAccepted(w, r)
        PROVE  RowLockGuardsSnapshot'
    <2>1. /\ locks[r] = None /\ locks' = [locks EXCEPT ![r] = w] /\ r = Current(w).reg
          /\ ws' = [ws EXCEPT ![w] = [@ EXCEPT !.pc = "locked", !.row = sessions[r]]]
          /\ UNCHANGED <<sessions, jobs>>
      BY <1>2 DEF LockAccepted, RowLockFree, Lock
    <2>2. ws'[w].row = sessions[r] /\ ws'[w].job = ws[w].job /\ locks'[r] = w
      BY <1>1, <2>1 DEF WorkerState
    <2>3. WorkerHolds(w)'
      BY <2>1, <2>2 DEF WorkerHolds, Current, CurrentId
    <2>4. /\ \A q \in Registrations : q # r => locks'[q] = locks[q]
          /\ \A v \in Workers : v # w => ws'[v] = ws[v]
      BY <1>1, <2>1
    <2>5. ws'[w].pc = "locked" /\ Current(w).reg' = r
      BY <1>1, <2>1, <2>2 DEF Current, CurrentId
    <2>6. \A q \in Registrations : LockOwned(q)'
      <3> SUFFICES ASSUME NEW q \in Registrations PROVE LockOwned(q)'
        OBVIOUS
      <3>1. CASE q = r
        BY <2>2, <2>5, <3>1 DEF LockOwned
      <3>2. CASE q # r /\ locks[q] = None
        BY <2>4, <3>2 DEF LockOwned
      <3>3. ws[w].pc = "accepted"
        BY <1>2 DEF LockAccepted
      <3>4. CASE q # r /\ locks[q] # None
        <4>1. locks[q] \notin {w, None}
          BY <3>3, <3>4, OwnLocks
        <4> QED
          BY <1>1, <2>1, <2>4, <4>1, OthersOwn
      <3> QED
        BY <3>1, <3>2, <3>4
    <2> QED
      BY <1>1, <2>1, <2>3, <2>4, <2>6, OthersHold DEF RowLockGuardsSnapshot
  <1>3. CASE CommitDelivered(w)
    <2> DEFINE r == Current(w).reg
    <2>1. r \in Registrations /\ sessions[r] # None
      BY <1>3, AtJob DEF CommitDelivered
    <2>2. OnlyRowChanges(r)
      BY <1>1, <1>3, <2>1, CasState DEF CommitDelivered, SessionStates
    <2>3. locks' = [locks EXCEPT ![r] = None] /\ locks[r] = w
      BY <1>1, <1>3 DEF CommitDelivered, Unlock
    <2> HIDE DEF r
    <2>4. \A q \in Registrations : locks[q] \notin {w, None} =>
              locks'[q] = locks[q] /\ sessions'[q] = sessions[q]
      BY <1>1, <2>2, <2>3 DEF OnlyRowChanges
    <2>5. ws'[w].pc = "send_result" /\ \A v \in Workers : v # w => ws'[v] = ws[v]
      BY <1>1, <1>3 DEF CommitDelivered, WorkerState
    <2>6. \A q \in Registrations : locks[q] = w => q = r
      BY OwnLocks DEF r
    <2>7. \A q \in Registrations : locks[q] \in {w, None} => locks'[q] = None
      BY <1>1, <2>3, <2>6
    <2> QED
      BY <1>1, <2>4, <2>5, <2>7, MoverLeaves
  <1>4. ASSUME NEW s, s.pc # "locked", ws' = [ws EXCEPT ![w] = s], UNCHANGED sessions,
               \/ ws[w].pc # "locked" /\ UNCHANGED locks
               \/ ws[w].pc = "locked" /\ locks' = [locks EXCEPT ![Current(w).reg] = None]
        PROVE  RowLockGuardsSnapshot'
    <2>1. ws'[w].pc # "locked" /\ \A v \in Workers : v # w => ws'[v] = ws[v]
      BY <1>1, <1>4
    <2>2. \A q \in Registrations : locks[q] \notin {w, None} => locks'[q] = locks[q]
      BY <1>1, <1>4
    <2>3. \A q \in Registrations : locks[q] \in {w, None} => locks'[q] = None
      BY <1>1, <1>4, OwnLocks
    <2> QED
      BY <1>1, <1>4, <2>1, <2>2, <2>3, MoverLeaves
  <1>5. ASSUME NEW b, NEW c
        PROVE  Continue(b).pc # "locked" /\ DeliverErr(c, b).pc # "locked"
               /\ AfterPost(c) # "locked" /\ IdleWorker.pc # "locked"
               /\ \A pc \in {"accepted", "mark_delivered"} : Working(pc, b, c).pc # "locked"
    BY DEF Continue, DeliverErr, AfterPost, IdleWorker, Working
  <1>6. CASE ClaimDue(w)
    BY <1>4, <1>5, <1>6, Zenon DEF ClaimDue, ClaimRows
  <1>7. ASSUME NEW c \in ws[w].batch, PostAccepted(w, c) \/ PostFails(w, c)
        PROVE  RowLockGuardsSnapshot'
    <2>1. AfterPost(c) \in {"accepted", "mark_delivered"}
      BY DEF AfterPost
    <2> QED
      BY <1>4, <1>5, <1>7, <2>1 DEF PostAccepted, PostFails
  <1>8. CASE AcceptedDbError(w) \/ ResultFails(w)
    BY <1>4, <1>5, <1>8 DEF AcceptedDbError, ResultFails
  <1>9. CASE SendResult(w)
    BY <1>4, <1>5, <1>9, Zenon DEF SendResult
  <1>10. CASE MarkDelivered(w) \/ MarkFailed(w) \/ MarkFails(w)
    BY <1>4, <1>5, <1>10 DEF MarkDelivered, MarkFailed, MarkFails
  <1> QED
    BY <1>2, <1>3, <1>6, <1>7, <1>8, <1>9, <1>10 DEF Deliver, AbortTick, WorkerStep

\* A row that a transaction has read stays as it was read until the end.
LEMMA NextLocks == StateOK /\ RowLockGuardsSnapshot /\ [Next]_vars => RowLockGuardsSnapshot'
  <1> SUFFICES ASSUME StateOK, RowLockGuardsSnapshot, [Next]_vars PROVE RowLockGuardsSnapshot'
    OBVIOUS
  <1>1. CASE UNCHANGED vars
    BY <1>1 DEF RowLockGuardsSnapshot, HandlerHolds, WorkerHolds, LockOwned, Current,
                CurrentId, vars, dbVars, loginVars, deliveryVars
  <1>2. CASE Crash
    BY <1>2 DEF Crash, RowLockGuardsSnapshot, HandlerHolds, WorkerHolds, LockOwned,
                IdleHandler, IdleWorker, Working
  <1> QED
    BY <1>1, <1>2, EnvironmentLocks, ReceiveLocks, HandleLocks, WorkerLocks DEF Next

\* Initially no transaction is open.
LEMMA InitLocks == Init => RowLockGuardsSnapshot
  BY DEF Init, DbInit, LoginInit, DeliveryInit, RowLockGuardsSnapshot, HandlerHolds,
         WorkerHolds, LockOwned, IdleHandler, IdleWorker, Working

\* RowLockGuardsSnapshot holds in every reachable state, for any number of
\* handlers and workers: the cas_update results that the code ignores match.
THEOREM LocksGuardSnapshots == Spec => []RowLockGuardsSnapshot
  BY InitTyped, InitLocks, NextTyped, NextLocks, PTL DEF Spec

-----------------------------------------------------------------------------
(* The binding of a session to a request *)

\* The steps that bind no session: every binding is there as before.
BindingsKept ==
    \A q \in Registrations :
        /\ SessionBound(q)' <=> SessionBound(q)
        /\ SessionBound(q) => BindingKept(q)

VersionsGrow ==
    \A q \in Registrations : sessions[q] # None =>
        sessions'[q] # None /\ sessions'[q].version >= sessions[q].version

\* IssueChallenge(h) binds the row of h, which was not bound.
Binds(h) ==
    LET r == hs[h].reg IN
    /\ r \in Registrations
    /\ ~SessionBound(r)
    /\ sessions'[r] # None
    /\ sessions'[r].challenge # None
    /\ sessions'[r].room = Msg(h).room /\ Msg(h).room \in Rooms
    /\ sessions'[r].sender = Msg(h).sender /\ Msg(h).sender \in Users
    /\ sessions'[r].challenge = challengeHashes + 1
    /\ sessions'[r].challenge_exp = challenge_expires_at(hs[h].now, r.exp)
    /\ challenge_expires_at(hs[h].now, r.exp) \in Int
    /\ \A q \in Registrations : q # r => sessions'[q] = sessions[q]

\* An update that passes NULL for the columns keeps the bindings.
LEMMA KeptByCas ==
    ASSUME NEW r, OnlyRowChanges(r), \A q \in Registrations : BindingKept(q)
    PROVE  BindingsKept /\ VersionsGrow
  BY DEF OnlyRowChanges, BindingKept, BindingsKept, VersionsGrow, SessionBound

\* A step that leaves the table of sessions alone keeps the bindings.
LEMMA KeptUnchanged ==
    ASSUME StateOK, UNCHANGED sessions
    PROVE  BindingsKept /\ VersionsGrow
  <1>1. \A q \in Registrations : sessions[q] # None => sessions[q].version \in Nat
    BY DEF StateOK, TypeOK, DbTypeOK, Row
  <1> QED
    BY <1>1 DEF BindingKept, BindingsKept, VersionsGrow, SessionBound

\* A new session is not bound.
LEMMA InsertKeeps ==
    ASSUME StateOK, NEW r \in Registrations, InsertRegistration(r)
    PROVE  BindingsKept /\ VersionsGrow
  <1>1. CASE UniqueViolation(r)
    BY <1>1, KeptUnchanged DEF InsertRegistration, insert_registered
  <1>2. CASE ~UniqueViolation(r)
    <2>1. sessions[r] = None
      BY <1>2 DEF UniqueViolation
    <2>2. /\ sessions \in [Registrations -> Row \cup {None}]
          /\ sessions' = [sessions EXCEPT ![r] = RegisteredRow]
          /\ RegisteredRow.challenge = None
      BY <1>2 DEF StateOK, TypeOK, DbTypeOK, InsertRegistration, insert_registered, RegisteredRow
    <2>3. \A q \in Registrations : sessions[q] # None =>
              sessions[q].version \in Nat /\ sessions'[q] = sessions[q]
      BY <2>1, <2>2 DEF Row
    <2>4. \A q \in Registrations : sessions[q] = None =>
              sessions'[q] = None \/ sessions'[q].challenge = None
      BY <2>1, <2>2
    <2> QED
      BY <2>3, <2>4 DEF BindingKept, BindingsKept, VersionsGrow, SessionBound
  <1> QED
    BY <1>1, <1>2

\* The commit of a challenge binds the row that h has locked.
LEMMA IssueBinds ==
    ASSUME StateOK, RowLockGuardsSnapshot, NEW h \in Handlers, IssueChallenge(h),
           UNCHANGED <<registering, deliveryVars, faults>>
    PROVE  Binds(h) /\ VersionsGrow
  <1> DEFINE r == hs[h].reg
             expires_at == challenge_expires_at(hs[h].now, r.exp)
  <1>1. TypeOK /\ hs[h].pc = "locked"
    BY DEF StateOK, IssueChallenge, InTx
  <1>2. /\ r \in Registrations /\ r \in Registration /\ sessions[r] # None
        /\ hs[h].now \in Int /\ Msg(h) \in Message
    BY <1>1, InsideTx
  <1>3. expires_at \in Int /\ challengeHashes + 1 \in Nat
    BY <1>1, <1>2, TimeAssumption DEF TypeOK, DbTypeOK, challenge_expires_at, min, Registration
  <1>4. Msg(h).room \in Rooms /\ Msg(h).sender \in Users
    BY <1>2 DEF Message
  <1>5. CasMatches(r, hs[h].row.version) /\ ~HasChallenge(hs[h].row)
    BY DEF IssueChallenge, RequestIgnored
  <1>6. sessions[r] = hs[h].row
    BY <1>1 DEF RowLockGuardsSnapshot, HandlerHolds
  <1>7. sessions' = cas_update(r, hs[h].row.version, "CHALLENGE_SENT", Msg(h).room,
                               Msg(h).sender, challengeHashes + 1, expires_at)
    BY DEF IssueChallenge
  <1>8. sessions \in [Registrations -> Row \cup {None}] /\ "CHALLENGE_SENT" \in SessionStates
    BY <1>1 DEF TypeOK, DbTypeOK, SessionStates
  <1>9. ~SessionBound(r)
    BY <1>5, <1>6 DEF SessionBound, HasChallenge
  <1>10. challengeHashes + 1 # None
    BY <1>3, NoneAssumption
  <1> DEFINE v == hs[h].row.version
             ch == challengeHashes + 1
  <1> HIDE DEF r, v, ch, expires_at
  <1>11. /\ OnlyRowChanges(r)
         /\ sessions'[r].room = Msg(h).room /\ sessions'[r].sender = Msg(h).sender
         /\ sessions'[r].challenge = ch
         /\ sessions'[r].challenge_exp = expires_at
    <2>1. ch \in Nat /\ CasMatches(r, v)
      BY <1>3, <1>5 DEF ch, v
    <2>2. sessions' = cas_update(r, v, "CHALLENGE_SENT", Msg(h).room, Msg(h).sender, ch,
                                 expires_at)
      BY <1>7 DEF ch, v
    <2>3. PICK room \in Rooms, sender \in Users : room = Msg(h).room /\ sender = Msg(h).sender
      BY <1>4
    <2>4. sessions' = cas_update(r, v, "CHALLENGE_SENT", room, sender, ch, expires_at)
      BY <2>2, <2>3
    <2>5. /\ OnlyRowChanges(r)
          /\ sessions'[r].room = room /\ sessions'[r].sender = sender
          /\ sessions'[r].challenge = ch
          /\ sessions'[r].challenge_exp = expires_at
      BY <1>2, <1>3, <1>8, <2>1, <2>4, CasUpdate
    <2> QED
      BY <2>3, <2>5
  <1>12. sessions'[r] # None /\ sessions'[r].challenge # None
    BY <1>2, <1>10, <1>11 DEF OnlyRowChanges, ch
  <1>13. Binds(h)
    BY <1>2, <1>3, <1>4, <1>9, <1>11, <1>12 DEF Binds, OnlyRowChanges, expires_at, r, ch
  <1> QED
    BY <1>11, <1>13 DEF VersionsGrow, OnlyRowChanges

\* Every step either binds one session or keeps the bindings as they are.
LEMMA BindingStep ==
    ASSUME StateOK, RowLockGuardsSnapshot, [Next]_vars
    PROVE  /\ VersionsGrow
           /\ \/ BindingsKept
              \/ \E h \in Handlers : IssueChallenge(h) /\ Handle(h) /\ Binds(h)
  <1>1. CASE UNCHANGED sessions
    BY <1>1, KeptUnchanged
  <1>2. CASE \E r \in Registrations : Register(r)
    BY <1>1, <1>2, InsertKeeps
       DEF Register, RegistrationStep, ValidateRegistration, RegistrationFails, dbVars
  <1>3. ASSUME NEW h \in Handlers, Handle(h)
        PROVE  VersionsGrow /\ (BindingsKept \/ (IssueChallenge(h) /\ Binds(h)))
    <2>1. UNCHANGED <<registering, deliveryVars, faults>> /\ HandlerStep(h)
      BY <1>3 DEF Handle
    <2>2. CASE IssueChallenge(h)
      BY <2>1, <2>2, IssueBinds
    <2>3. CASE RefuseConsent(h) \/ ApproveConsent(h) \/ RevokeGrant(h)
      BY <2>1, <2>3, RefuseConsentTyped, ApproveConsentTyped, RevokeGrantTyped, KeptByCas
    <2>4. CASE \/ SelectFails(h) \/ DbError(h) \/ RejectExpiredConsent(h)
               \/ IgnoreRequest(h) \/ IgnoreConsent(h) \/ IgnoreRevocation(h)
               \/ SendChallenge(h) \/ SendFailure(h) \/ NoticeFails(h)
               \/ \E r \in Registrations : SelectForUpdate(h, r)
      <3>1. UNCHANGED sessions
        BY <2>4, Zenon DEF SelectFails, DbError, RejectExpiredConsent, IgnoreRequest, IgnoreConsent,
                    IgnoreRevocation, LeaveTx, SendChallenge, SendFailure, NoticeFails,
                    SelectForUpdate, dbVars
      <3> QED
        BY <3>1, KeptUnchanged
    <2> QED
      BY <2>1, <2>2, <2>3, <2>4 DEF HandlerStep
  <1>4. ASSUME NEW w \in Workers, Deliver(w) \/ AbortTick(w)
        PROVE  VersionsGrow /\ BindingsKept
    <2>1. CASE CommitDelivered(w)
      <3>1. Current(w).reg \in Registrations /\ sessions[Current(w).reg] # None
            /\ sessions \in [Registrations -> Row \cup {None}]
        BY <2>1, AtJob DEF CommitDelivered, StateOK, TypeOK, DbTypeOK
      <3>2. OnlyRowChanges(Current(w).reg) /\ \A q \in Registrations : BindingKept(q)
        BY <2>1, <3>1, CasState DEF CommitDelivered, SessionStates
      <3> QED
        BY <3>2, KeptByCas
    <2>2. CASE ~CommitDelivered(w)
      <3>1. UNCHANGED sessions
        BY <1>4, <2>2, Zenon DEF Deliver, AbortTick, WorkerStep, ClaimDue, ClaimRows,
                                 PostAccepted, PostFails, LockAccepted, AcceptedDbError,
                                 SendResult, ResultFails, MarkDelivered, MarkFailed,
                                 MarkFails, dbVars
      <3> QED
        BY <3>1, KeptUnchanged
    <2> QED
      BY <2>1, <2>2
  <1>5. CASE \/ UNCHANGED vars \/ ClockTick \/ Crash
             \/ \E h \in Handlers, e \in EventIds, m \in Messages : Receive(h, e, m)
             \/ \E j \in DOMAIN jobs : RetryTime(j)
    <2>1. UNCHANGED sessions
      BY <1>5 DEF vars, ClockTick, Crash, Receive, HandleInbound, RetryTime, RetryTimeReached,
                  dbVars
    <2> QED
      BY <2>1, <1>1
  <1> QED
    BY <1>2, <1>3, <1>4, <1>5 DEF Next

\* A step never rebinds a session.
LEMMA BindingStaysStep ==
    ASSUME StateOK, RowLockGuardsSnapshot, [Next]_vars
    PROVE  BindingStays
  <1>1. VersionsGrow
    BY BindingStep
  <1>2. ASSUME NEW q \in Registrations, SessionBound(q) PROVE BindingKept(q)
    BY <1>2, BindingStep DEF BindingsKept, Binds, BindingKept
  <1> QED
    BY <1>1, <1>2 DEF BindingStays, VersionsGrow, SessionBound, BindingKept

\* BindingNeverChanges holds of every behaviour: a duplicate request, a crash
\* or a late commit never rebinds a session.
THEOREM BindingPermanent == Spec => BindingNeverChanges
  <1>1. StateOK /\ RowLockGuardsSnapshot /\ [Next]_vars => [BindingStays]_sessions
    BY BindingStaysStep
  <1> QED
    BY <1>1, InitTyped, InitLocks, NextTyped, NextLocks, PTL DEF Spec, BindingNeverChanges

\* Challenges are drawn in turn, and the columns of a binding are set together.
LEMMA BindingOKStep ==
    ASSUME StateOK, RowLockGuardsSnapshot, BindingOK, [Next]_vars
    PROVE  BindingOK'
  <1>0. /\ challengeHashes \in Nat
        /\ \A q \in Registrations : SessionBound(q) => sessions[q].challenge \in Nat
    BY NoneAssumption DEF StateOK, TypeOK, DbTypeOK, SessionBound, Row
  <1>1. CASE BindingsKept
    <2>1. challengeHashes' \in {challengeHashes, challengeHashes + 1}
      BY Zenon DEF Next, vars, dbVars, ClockTick, Register, RegistrationStep, ValidateRegistration,
             InsertRegistration, RegistrationFails, Receive, HandleInbound, Handle, HandlerStep,
             SelectFails, SelectForUpdate, DbError, IgnoreRequest, IssueChallenge,
             RejectExpiredConsent, IgnoreConsent, RefuseConsent, ApproveConsent, AcceptConsent,
             IgnoreRevocation, LeaveTx, RevokeGrant, SendChallenge, SendFailure, NoticeFails,
             Deliver, AbortTick, WorkerStep, ClaimDue, ClaimRows, PostAccepted, PostFails,
             LockAccepted, CommitDelivered, AcceptedDbError, SendResult, ResultFails,
             MarkDelivered, MarkFailed, MarkFails, RetryTime, RetryTimeReached, Crash
    <2> QED
      BY <1>0, <1>1, <2>1 DEF BindingOK, BindingsKept, BindingKept
  <1>2. ASSUME NEW h \in Handlers, IssueChallenge(h), Binds(h)
        PROVE  BindingOK'
    <2> DEFINE r == hs[h].reg
    <2>1. challengeHashes' = challengeHashes + 1
      BY <1>2 DEF IssueChallenge
    <2>2. \A q \in Registrations : q # r => sessions'[q] = sessions[q]
      BY <1>2 DEF Binds
    <2>3. /\ r \in Registrations
          /\ sessions'[r].challenge = challengeHashes + 1
          /\ sessions'[r].room # None /\ sessions'[r].sender # None
          /\ sessions'[r].challenge_exp # None
      BY <1>2, NoneAssumption DEF Binds
    <2> HIDE DEF r
    <2>4. ASSUME NEW q \in Registrations, q # r, SessionBound(q)'
          PROVE  /\ SessionBound(q) /\ sessions'[q] = sessions[q]
                 /\ sessions'[q].challenge <= challengeHashes
                 /\ sessions'[q].challenge # challengeHashes + 1
      BY <1>0, <2>2, <2>4 DEF SessionBound, BindingOK
    <2>5. ASSUME NEW q \in Registrations, SessionBound(q)'
          PROVE  /\ sessions'[q].challenge <= challengeHashes'
                 /\ sessions'[q].sender # None
                 /\ sessions'[q].room # None
                 /\ sessions'[q].challenge_exp # None
      BY <1>0, <2>1, <2>3, <2>4, <2>5 DEF BindingOK
    <2>6. ASSUME NEW p \in Registrations, NEW q \in Registrations, SessionBound(p)',
                 SessionBound(q)', sessions'[q].challenge = sessions'[p].challenge
          PROVE  q = p
      BY <2>3, <2>4, <2>6 DEF BindingOK
    <2> QED
      BY <2>5, <2>6 DEF BindingOK
  <1> QED
    BY <1>1, <1>2, BindingStep
=============================================================================
