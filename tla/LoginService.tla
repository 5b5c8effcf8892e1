---------------------------- MODULE LoginService ----------------------------
(***************************************************************************)
(* services/login.rs: what the relay does with a Matrix event.  A handler    *)
(* reads the clock and verifies the message ("received"), opens a            *)
(* transaction whose first statement locks the session row ("locked"),       *)
(* commits or rolls back, and only then sends its notice ("send_challenge",  *)
(* "send_failure").  Other tasks run between any two of these steps.         *)
(*                                                                          *)
(* Events that handle_inbound drops before the transaction (redacted, not    *)
(* decrypted, room policy, undecodable) change nothing and are the events    *)
(* that are never received here.                                             *)
(***************************************************************************)
EXTENDS RelayDb

CONSTANT
    Messages         \* the messages that phones may send

VARIABLES
    timeline,        \* the message of each Matrix event received so far
    hs,              \* local state of the handlers
    challengeNotices,\* Challenge messages sent
    failureResults   \* Result messages with success = false sent

loginVars == <<timeline, hs, challengeNotices, failureResults>>

-----------------------------------------------------------------------------
MessageKinds == {"request", "consent", "revocation"}

\* qr is the scanned code: the domain, session id and nonce a message carries
\* (a consent and a revocation carry no domain).  signed says whether the
\* P-256 signature of a consent verifies.
Message == [kind : MessageKinds, sender : Users, room : Rooms, qr : Registrations,
            sent_at : Int, approved : BOOLEAN, challenge : Nat, signed : BOOLEAN,
            sub : Subjects]

ChallengeNotice == [reg : Registrations, room : Rooms, challenge : Nat,
                    sent_at : Int, expires_at : Int]
FailureResult == [reg : Registrations, room : Rooms,
                  reason : {"request_expired", "request_cancelled"}]

ASSUME MessageAssumption == Messages \subseteq Message
ASSUME NoneMessageAssumption ==
    None \notin Message \cup ChallengeNotice \cup FailureResult

HandlerState ==
    [pc : {"idle", "received", "locked", "send_challenge", "send_failure"},
     event : EventIds \cup {None}, now : Int, reg : Registrations \cup {None},
     row : Row \cup {None}, out : ChallengeNotice \cup FailureResult \cup {None}]

IdleHandler == [pc |-> "idle", event |-> None, now |-> 0, reg |-> None,
                row |-> None, out |-> None]

\* The local state of a handler that has taken event e, at this time.
Received(e) == [pc |-> "received", event |-> e, now |-> now, reg |-> None,
                row |-> None, out |-> None]

\* The local state of a handler that is about to send a notice.
Sending(pc, out) == [pc |-> pc, event |-> None, now |-> 0, reg |-> None,
                     row |-> None, out |-> out]

LoginTypeOK ==
    /\ timeline \in [EventIds -> Messages \cup {None}]
    /\ hs \in [Handlers -> HandlerState]
    /\ challengeNotices \subseteq ChallengeNotice
    /\ failureResults \subseteq FailureResult

LoginInit ==
    /\ timeline = [e \in EventIds |-> None]
    /\ hs = [h \in Handlers |-> IdleHandler]
    /\ challengeNotices = {}
    /\ failureResults = {}

\* The message a busy handler works on.
Msg(h) == timeline[hs[h].event]

Return(h) == hs' = [hs EXCEPT ![h] = IdleHandler]

-----------------------------------------------------------------------------
(* handle_inbound, up to the transaction *)

verify_consent_signature(m) == m.signed

AcceptedBeforeTx(m) == m.kind = "consent" => verify_consent_signature(m)

\* The event is new, or Matrix delivers one again: after a restart from an
\* older sync token, after a restore of the crypto store, or to two tasks.
HandleInbound(h, e, m) ==
    /\ hs[h].pc = "idle"
    /\ timeline[e] \in {None, m}
    /\ AcceptedBeforeTx(m)
    /\ timeline' = [timeline EXCEPT ![e] = m]
    /\ hs' = [hs EXCEPT ![h] = Received(e)]
    /\ UNCHANGED <<dbVars, now, challengeNotices, failureResults>>

SelectedRows(m) ==
    IF m.kind = "request"
    THEN get_matching(m.qr.domain, m.qr.session_id, m.qr.nonce)
    ELSE get_by_session_and_nonce(m.qr.session_id, m.qr.nonce)

\* query_opt: no row is Ignored (an error for a consent), several are an error.
SelectFails(h) ==
    /\ hs[h].pc = "received"
    /\ \A r \in Registrations : SelectedRows(Msg(h)) # {r}
    /\ Return(h)
    /\ UNCHANGED <<dbVars, now, timeline, challengeNotices, failureResults>>

SelectForUpdate(h, r) ==
    /\ hs[h].pc = "received"
    /\ SelectedRows(Msg(h)) = {r}
    /\ RowLockFree(r)
    /\ Lock(h, r)
    /\ hs' = [hs EXCEPT ![h] = [@ EXCEPT !.pc = "locked", !.reg = r, !.row = sessions[r]]]
    /\ UNCHANGED <<sessions, requestEvents, consentEvents, challengeHashes, grants, jobs,
                   now, timeline, challengeNotices, failureResults>>

\* h is inside the transaction of a message of this kind.
InTx(h, kind) == hs[h].pc = "locked" /\ Msg(h).kind = kind

\* An early return: the transaction is rolled back, or committed empty.
LeaveTx(h) ==
    /\ Unlock(hs[h].reg)
    /\ Return(h)
    /\ UNCHANGED <<sessions, requestEvents, consentEvents, challengeHashes, grants, jobs,
                   now, timeline, challengeNotices, failureResults>>

\* The pool, a cipher, RelayAssertion::sign, a statement or the commit fails:
\* RelayError, and a rollback.
DbError(h) ==
    /\ hs[h].pc \in {"received", "locked"}
    /\ locks' = IF hs[h].pc = "locked" THEN [locks EXCEPT ![hs[h].reg] = None] ELSE locks
    /\ Return(h)
    /\ UNCHANGED <<sessions, requestEvents, consentEvents, challengeHashes, grants, jobs,
                   now, timeline, challengeNotices, failureResults>>

-----------------------------------------------------------------------------
(* process_request *)

\* Mutant: a second request is not recognised as a duplicate.
ForgetsChallenge(row) == FALSE

HasChallenge(row) == row.challenge # None

RequestIgnored(h) ==
    LET s == hs[h] IN
    \/ s.reg.exp < s.now
    \/ ~sent_at_in_qr_window(Msg(h).sent_at, s.reg.iat, s.reg.exp)
    \/ HasChallenge(s.row)
    \/ s.event \in requestEvents              \* reserve_request_event: ChallengeReplayed
    \/ ~CasMatches(s.reg, s.row.version)      \* cas_update: SessionConflict

IgnoreRequest(h) ==
    /\ InTx(h, "request")
    /\ RequestIgnored(h)
    /\ LeaveTx(h)

\* The commit of the challenge; the notice goes out in a later step.
IssueChallenge(h) ==
    LET s == hs[h]
        challenge == challengeHashes + 1
        expires_at == challenge_expires_at(s.now, s.reg.exp)
    IN
    /\ InTx(h, "request")
    /\ ~RequestIgnored(h)
    /\ requestEvents' = requestEvents \cup {s.event}
    /\ challengeHashes' = challenge
    /\ sessions' = cas_update(s.reg, s.row.version, "CHALLENGE_SENT",
                              Msg(h).room, Msg(h).sender, challenge, expires_at)
    /\ Unlock(s.reg)
    /\ hs' = [hs EXCEPT ![h] =
                Sending("send_challenge",
                        [reg |-> s.reg, room |-> Msg(h).room, challenge |-> challenge,
                         sent_at |-> s.now, expires_at |-> expires_at])]
    /\ UNCHANGED <<consentEvents, grants, jobs, now, timeline, challengeNotices, failureResults>>

-----------------------------------------------------------------------------
(* process_consent *)

ConsentExpired(h) ==
    LET s == hs[h] IN
    \/ s.reg.exp < s.now
    \/ ~sent_at_in_qr_window(Msg(h).sent_at, s.reg.iat, s.reg.exp)
    \/ /\ s.row.challenge_exp # None
       /\ Msg(h).sent_at > s.row.challenge_exp \/ s.now > s.row.challenge_exp

\* Mutant: a consent may come from anyone who has the challenge.
ConsentFromAnyone(h) == Msg(h).challenge = hs[h].row.challenge

ConsentMatches(h) ==
    /\ Msg(h).challenge = hs[h].row.challenge
    /\ Msg(h).sender = hs[h].row.sender
    /\ Msg(h).room = hs[h].row.room

\* Mutant: a consent event may be used again.
ConsentNeverReplayed(e) == FALSE

ConsentReplayed(e) == e \in consentEvents

\* The answer to a late consent comes before every other check.
RejectExpiredConsent(h) ==
    /\ InTx(h, "consent")
    /\ ConsentExpired(h)
    /\ Unlock(hs[h].reg)
    /\ hs' = [hs EXCEPT ![h] =
                Sending("send_failure", [reg |-> hs[h].reg, room |-> Msg(h).room,
                                         reason |-> "request_expired"])]
    /\ UNCHANGED <<sessions, requestEvents, consentEvents, challengeHashes, grants, jobs,
                   now, timeline, challengeNotices, failureResults>>

IgnoreConsent(h) ==
    /\ InTx(h, "consent")
    /\ ~ConsentExpired(h)
    /\ ~ConsentMatches(h) \/ ConsentReplayed(hs[h].event)
    /\ LeaveTx(h)

\* The consent is reserved.  Whether cas_update matched is not looked at, and
\* neither is the state of the session.
AcceptConsent(h) ==
    /\ InTx(h, "consent")
    /\ ~ConsentExpired(h)
    /\ ConsentMatches(h)
    /\ ~ConsentReplayed(hs[h].event)
    /\ consentEvents' = consentEvents \cup {hs[h].event}
    /\ Unlock(hs[h].reg)
    /\ UNCHANGED <<requestEvents, challengeHashes, now, timeline, challengeNotices,
                   failureResults>>

RefuseConsent(h) ==
    LET s == hs[h] IN
    /\ AcceptConsent(h)
    /\ ~Msg(h).approved
    /\ sessions' = cas_state(s.reg, s.row.version, "REFUSED")
    /\ hs' = [hs EXCEPT ![h] =
                Sending("send_failure", [reg |-> s.reg, room |-> Msg(h).room,
                                         reason |-> "request_cancelled"])]
    /\ UNCHANGED <<grants, jobs>>

ApproveConsent(h) ==
    LET s == hs[h]
        sub == derive_pairwise_sub(s.reg.domain, Msg(h).sender)
    IN
    /\ AcceptConsent(h)
    /\ Msg(h).approved
    /\ grants' = upsert_grant(sub)
    /\ sessions' = cas_state(s.reg, s.row.version, "CONSENT_RECEIVED")
    /\ jobs' = enqueue(NewJob("assertion", s.reg, sub, s.event, s.now,
                              assertion_expires_at(s.reg.exp, s.now)))
    /\ Return(h)

-----------------------------------------------------------------------------
(* process_revocation *)

\* Mutant: the account of the grant is not compared with the sender.
AnyAccountRevokes(m, r) ==
    /\ m.sub[1] = r.domain
    /\ grants[m.sub] = "active"

\* find_active_grant finds the grant of the session's domain; its user must be
\* the sender, and it must not be revoked already.
RevocationApplies(m, r) ==
    /\ m.sub[1] = r.domain
    /\ grants[m.sub] = "active"
    /\ m.sub[2] = m.sender

IgnoreRevocation(h) ==
    /\ InTx(h, "revocation")
    /\ ~RevocationApplies(Msg(h), hs[h].reg)
    /\ LeaveTx(h)

RevokeGrant(h) ==
    LET s == hs[h] IN
    /\ InTx(h, "revocation")
    /\ RevocationApplies(Msg(h), s.reg)
    /\ grants' = mark_revoked(Msg(h).sub)
    /\ jobs' = enqueue(NewJob("revocation", s.reg, Msg(h).sub, s.event, now, now))
    /\ sessions' = cas_state(s.reg, s.row.version, "REVOKED")
    /\ Unlock(s.reg)
    /\ Return(h)
    /\ UNCHANGED <<requestEvents, consentEvents, challengeHashes, now, timeline,
                   challengeNotices, failureResults>>

-----------------------------------------------------------------------------
(* send_notice *)

SendChallenge(h) ==
    /\ hs[h].pc = "send_challenge"
    /\ challengeNotices' = challengeNotices \cup {hs[h].out}
    /\ Return(h)
    /\ UNCHANGED <<dbVars, now, timeline, failureResults>>

SendFailure(h) ==
    /\ hs[h].pc = "send_failure"
    /\ failureResults' = failureResults \cup {hs[h].out}
    /\ Return(h)
    /\ UNCHANGED <<dbVars, now, timeline, challengeNotices>>

\* The commit was not acknowledged, the room is gone or not encrypted, or the
\* homeserver refuses: the handler returns the error and nothing is sent again.
NoticeFails(h) ==
    /\ hs[h].pc \in {"send_challenge", "send_failure"}
    /\ Return(h)
    /\ UNCHANGED <<dbVars, now, timeline, challengeNotices, failureResults>>

HandlerStep(h) ==
    \/ SelectFails(h)
    \/ \E r \in Registrations : SelectForUpdate(h, r)
    \/ DbError(h)
    \/ IgnoreRequest(h)
    \/ IssueChallenge(h)
    \/ RejectExpiredConsent(h)
    \/ IgnoreConsent(h)
    \/ RefuseConsent(h)
    \/ ApproveConsent(h)
    \/ IgnoreRevocation(h)
    \/ RevokeGrant(h)
    \/ SendChallenge(h)
    \/ SendFailure(h)
    \/ NoticeFails(h)
=============================================================================
