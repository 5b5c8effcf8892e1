------------------------------- MODULE RelayDb -------------------------------
(***************************************************************************)
(* The PostgreSQL tables of the relay (migrations/0001_init.sql) and the    *)
(* statements the code runs on them (src/db).  A statement is an operator   *)
(* that returns the new table, or the set of rows it selects; the services  *)
(* apply it in the step that commits its transaction.                       *)
(*                                                                          *)
(* A session row is identified by the registration that inserted it: rows   *)
(* are never deleted, and the immutable columns (domain, session_id, nonce, *)
(* iat, exp) are the registration's.  Columns that no code reads back       *)
(* (display name, event ids, ciphertext copies, expires_at) are left out.   *)
(* A hash, a ciphertext and a pairwise subject stand for what they were     *)
(* made from.  Random tokens are never drawn twice: the n-th challenge      *)
(* reserved is n, and the jti of a job is the job's id.                     *)
(***************************************************************************)
EXTENDS RelayTime, Sequences, FiniteSets

CONSTANTS
    Domains, SessionIds, Nonces,
    Users,           \* Matrix accounts other than the relay's
    Rooms,           \* Matrix rooms the relay has joined
    Registrations,   \* the registrations that sites submit
    EventIds,        \* Matrix event ids
    Handlers,        \* tasks running services/login.rs
    Workers,         \* tasks running delivery/queue.rs
    None             \* SQL NULL, Rust None

VARIABLES
    now,             \* the wall clock every task reads (clock.rs)
    sessions,        \* table sessions
    locks,           \* which transaction holds the row lock of a session row
    requestEvents,   \* table replay_request_event_ids
    consentEvents,   \* table replay_consent_event_ids
    challengeHashes, \* table replay_challenge_hashes, as its number of rows
    grants,          \* table grants
    jobs             \* table delivery_jobs, in the order of the commits; for the
                     \* jobs of one subject, whose grant row every enqueuing
                     \* transaction has locked, this is the order of the ids

dbVars == <<sessions, locks, requestEvents, consentEvents, challengeHashes, grants, jobs>>

-----------------------------------------------------------------------------
Registration == [domain : Domains, session_id : SessionIds, nonce : Nonces,
                 iat : Int, exp : Int]

\* The session states the code writes.
SessionStates == {"SITE_REGISTERED", "CHALLENGE_SENT", "REFUSED",
                  "CONSENT_RECEIVED", "ASSERTION_DELIVERED", "REVOKED"}

Row == [state : SessionStates, version : Nat,
        room : Rooms \cup {None}, sender : Users \cup {None},
        challenge : Nat \cup {None}, challenge_exp : Int \cup {None}]

Subjects == Domains \X Users

\* subject::derive_pairwise_sub: an injective function of the domain and the user.
derive_pairwise_sub(domain, user) == <<domain, user>>

\* A grant row: absent, active (revoked_at IS NULL) or revoked.
GrantStates == {"none", "active", "revoked"}

\* event is the Matrix event whose transaction enqueued the job (a history
\* column); due is next_retry_at <= NOW().
Job == [kind : {"assertion", "revocation"}, reg : Registrations, sub : Subjects,
        event : EventIds, iat : Int, exp : Int,
        attempts : Nat, due : BOOLEAN, status : {"pending", "delivered", "failed"}]

ASSUME RegistrationAssumption == Registrations \subseteq Registration
ASSUME NoneAssumption ==
    /\ None \notin Int \cup Users \cup Rooms \cup EventIds \cup Handlers \cup Workers
    /\ None \notin Row \cup Registration
ASSUME ProcessAssumption == Handlers \cap Workers = {}

DbTypeOK ==
    /\ now \in Nat
    /\ sessions \in [Registrations -> Row \cup {None}]
    /\ locks \in [Registrations -> Handlers \cup Workers \cup {None}]
    /\ requestEvents \subseteq EventIds
    /\ consentEvents \subseteq EventIds
    /\ challengeHashes \in Nat
    /\ grants \in [Subjects -> GrantStates]
    /\ jobs \in Seq(Job)

DbInit ==
    /\ now = 0
    /\ sessions = [r \in Registrations |-> None]
    /\ locks = [r \in Registrations |-> None]
    /\ requestEvents = {}
    /\ consentEvents = {}
    /\ challengeHashes = 0
    /\ grants = [s \in Subjects |-> "none"]
    /\ jobs = <<>>

-----------------------------------------------------------------------------
(* db/sessions.rs *)

RegisteredRow == [state |-> "SITE_REGISTERED", version |-> 0, room |-> None,
                  sender |-> None, challenge |-> None, challenge_exp |-> None]

\* UNIQUE (domain, session_id) and UNIQUE (domain, nonce_hash).
UniqueViolation(r) ==
    \E q \in Registrations :
        /\ sessions[q] # None
        /\ q.domain = r.domain
        /\ q.session_id = r.session_id \/ q.nonce = r.nonce

\* ON CONFLICT DO NOTHING: an identical registration, or one that clashes with
\* another session, changes nothing.
insert_registered(r) ==
    IF UniqueViolation(r) THEN sessions ELSE [sessions EXCEPT ![r] = RegisteredRow]

get_by_session_and_nonce(session_id, nonce) ==
    {r \in Registrations : /\ sessions[r] # None
                           /\ r.session_id = session_id
                           /\ r.nonce = nonce}

\* Mutant: the domain is not part of the query.
MatchesAnyDomain(domain, session_id, nonce) == get_by_session_and_nonce(session_id, nonce)

get_matching(domain, session_id, nonce) ==
    {r \in get_by_session_and_nonce(session_id, nonce) : r.domain = domain}

\* Mutant: SELECT without FOR UPDATE.
NoRowLock(r) == TRUE

\* SELECT ... FOR UPDATE returns only once no other transaction has the row lock.
RowLockFree(r) == locks[r] = None

Lock(p, r) == locks' = [locks EXCEPT ![r] = p]
Unlock(r) == locks' = [locks EXCEPT ![r] = None]

\* Mutant: a NULL argument overwrites the column.
Overwrite(new, old) == new

COALESCE(new, old) == IF new = None THEN old ELSE new

\* The WHERE clause of cas_update.
CasMatches(r, expected_version) == sessions[r].version = expected_version

cas_update(r, expected_version, state, room, sender, challenge, challenge_exp) ==
    IF CasMatches(r, expected_version)
    THEN [sessions EXCEPT ![r] =
            [state |-> state,
             version |-> @.version + 1,
             room |-> COALESCE(room, @.room),
             sender |-> COALESCE(sender, @.sender),
             challenge |-> COALESCE(challenge, @.challenge),
             challenge_exp |-> COALESCE(challenge_exp, @.challenge_exp)]]
    ELSE sessions

\* The calls that only move the state and the version.
cas_state(r, expected_version, state) ==
    cas_update(r, expected_version, state, None, None, None, None)

-----------------------------------------------------------------------------
(* db/grants.rs *)

\* Mutant: ON CONFLICT DO NOTHING, a revoked grant stays revoked.
InsertGrant(sub) == IF grants[sub] = "none" THEN [grants EXCEPT ![sub] = "active"] ELSE grants

upsert_grant(sub) == [grants EXCEPT ![sub] = "active"]

\* Mutant: the grant stays active.
StaysActive(sub) == grants

mark_revoked(sub) == [grants EXCEPT ![sub] = "revoked"]

-----------------------------------------------------------------------------
(* db/delivery.rs *)

NewJob(kind, r, sub, event, iat, exp) ==
    [kind |-> kind, reg |-> r, sub |-> sub, event |-> event, iat |-> iat, exp |-> exp,
     attempts |-> 0, due |-> TRUE, status |-> "pending"]

enqueue(job) == Append(jobs, job)

\* Mutant: only jobs that were never tried.
UntriedJobs == {j \in DOMAIN jobs : jobs[j].status = "pending" /\ jobs[j].attempts = 0}

DueJobs == {j \in DOMAIN jobs : jobs[j].status = "pending" /\ jobs[j].due}

\* ORDER BY id LIMIT $1 FOR UPDATE SKIP LOCKED; unlocked: the due rows that are not
\* passed over.
ClaimSet(unlocked, limit) ==
    {j \in unlocked : Cardinality({i \in unlocked : i <= j}) <= limit}

\* The UPDATE of claim_due: one more attempt, and not due for another 5 seconds.
claim_due(S) ==
    [j \in DOMAIN jobs |->
        IF j \in S THEN [jobs[j] EXCEPT !.attempts = @ + 1, !.due = FALSE] ELSE jobs[j]]

mark_delivered(id) == [jobs EXCEPT ![id].status = "delivered"]

mark_failed(id) == [jobs EXCEPT ![id].status = "failed"]

\* next_retry_at passes.  The lease says nothing about whether the worker that
\* claimed the job is done with it.
RetryTimeReached(id) ==
    /\ jobs[id].status = "pending"
    /\ ~jobs[id].due
    /\ jobs' = [jobs EXCEPT ![id].due = TRUE]
    /\ UNCHANGED <<sessions, locks, requestEvents, consentEvents, challengeHashes, grants>>
=============================================================================
