------------------------- MODULE RegistrationService -------------------------
(***************************************************************************)
(* services/registration.rs: POST /v1/site-sessions.  The request is         *)
(* validated against the clock, then the site's metadata is fetched and both *)
(* signatures are verified, and only then is the row inserted; the session   *)
(* may have expired, or been registered by a retry, in between.              *)
(***************************************************************************)
EXTENDS RelayDb

VARIABLE
    registering      \* registrations waiting for the site's metadata

\* The rest of RegistrationRequest::validate is about the form of the fields.
validate(r) == validate_window(r.iat, r.exp)

AcceptableRegistration(r) == validate(r) /\ r.exp > now

ValidateRegistration(r) ==
    /\ r \notin registering
    /\ AcceptableRegistration(r)
    /\ registering' = registering \cup {r}
    /\ UNCHANGED <<now, dbVars>>

\* insert_registered: Created, Identical and SessionConflict alike end here.  A
\* second POST of r that waits at the same time would find the row, and is Identical.
InsertRegistration(r) ==
    /\ r \in registering
    /\ registering' = registering \ {r}
    /\ sessions' = insert_registered(r)
    /\ UNCHANGED <<now, locks, requestEvents, consentEvents, challengeHashes, grants, jobs>>

\* The metadata or a signature is refused, the database fails, or the HTTP
\* request times out.
RegistrationFails(r) ==
    /\ r \in registering
    /\ registering' = registering \ {r}
    /\ UNCHANGED <<now, dbVars>>

RegistrationStep(r) ==
    ValidateRegistration(r) \/ InsertRegistration(r) \/ RegistrationFails(r)
=============================================================================
