---------------------------- MODULE RelayPromise ----------------------------
(***************************************************************************)
(* Relay implements LoginPromise: the refinement mapping.                   *)
(***************************************************************************)
EXTENDS Relay

SiteOfRow == [r \in Registrations |-> r.domain]

\* The registrations that UNIQUE (domain, session_id) and UNIQUE (domain,
\* nonce_hash) keep apart from r, r itself included.
ClashingRows ==
    [r \in Registrations |->
        {q \in Registrations : /\ q.domain = r.domain
                               /\ q.session_id = r.session_id \/ q.nonce = r.nonce}]

OpenedRows == {r \in Registrations : sessions[r] # None}

BindingOf(r) == [login |-> r, account |-> sessions[r].sender, room |-> sessions[r].room]

Bindings == {BindingOf(r) : r \in {q \in Registrations : SessionBound(q)}}

AskedBindings == {BindingOf(n.reg) : n \in challengeNotices}

StatementOf(job) ==
    [kind |-> job.kind, login |-> job.reg, sub |-> job.sub, ticket |-> job.event]

Statements == [j \in DOMAIN jobs |-> StatementOf(jobs[j])]

Outcomes == [j \in DOMAIN jobs |-> jobs[j].status]

Told(n) == [statement |-> n.job, room |-> n.room]

ToldAccounts == {Told(n) : n \in successResults}

Promise == INSTANCE LoginPromise WITH
    Logins <- Registrations,
    Accounts <- Users,
    Places <- Rooms,
    Tickets <- EventIds,
    SiteOf <- SiteOfRow,
    Clash <- ClashingRows,
    opened <- OpenedRows,
    bound <- Bindings,
    asked <- AskedBindings,
    statements <- Statements,
    outcome <- Outcomes,
    accepted <- accepted,
    told <- ToldAccounts

\* The tables, notices, answers and Results that process_request,
\* process_consent, process_revocation and tick leave behind are those of the
\* promise: whatever the interleaving, the retries and the crashes, a step does
\* nothing that one of the atomic steps of LoginPromise does not do.
KeepsPromise == Promise!Spec
=============================================================================
