--------------------------- MODULE LoginDocuments ---------------------------
(***************************************************************************)
(* protocol/*.rs: the documents of one login, in the order in which they are *)
(* read, checked, signed and written, each with the checks of its own file.  *)
(* A text is its measures: how many characters, how many bytes of UTF-8, how *)
(* many bytes as a JSON string.  Times are Relay's and MachineTime's part,   *)
(* the rows and the races Relay's.                                           *)
(***************************************************************************)
EXTENDS Integers

CONSTANTS
    Ids,              \* texts offered as a session id or a nonce
    Names,            \* texts offered as a name
    Reasons,          \* texts offered as a reason
    Domains,          \* domains offered
    Kids,             \* values of RELAY_SIGNING_KID
    MaxEvents         \* bound: requests and messages that reach the relay

MAX_DISPLAY_NAME == 100
MAX_DOMAIN == 253
MAX_DECODED_BODY == 32768
PREFIX_BYTES == 20        \* MATRIX_PREFIX
CHALLENGE_BYTES == 16

VARIABLES
    kid,              \* AppConfig.signing_kid
    row,              \* the session: what later documents take from it
    challenged,       \* CHALLENGE_SENT is committed
    payloads,         \* the assertions that the queue holds
    accepted,         \* those that the site has taken
    granted,          \* the grant is active
    written,          \* the documents that the relay set out to write, with the result
    signed,           \* the documents whose signature it made or verified
    events

loginVars == <<kid, row, challenged, payloads, accepted, granted, written, signed, events>>

\* An Option is the set of what it holds.
None == {}
Some(v) == {v}

-----------------------------------------------------------------------------
(* A text: plain says that all its characters are in the alphabet of the       *)
(* regular expression it is matched with, blank that trim leaves nothing.      *)

Text == [chars : Nat, bytes : Nat, json : Nat, plain : BOOLEAN, blank : BOOLEAN]

ASSUME TextAssumption == Ids \cup Names \cup Reasons \cup Kids \cup Domains \subseteq Text

\* In JSON a character takes six bytes at most, and that only if it has one byte in
\* UTF-8; an empty text is blank.
ASSUME MeasureAssumption ==
    \A t \in Ids \cup Names \cup Reasons \cup Kids \cup Domains :
        t.json <= 6 * t.bytes /\ (t.bytes = 0 => t.blank)

\* base64url::encode of n bytes, unpadded.
Base64Length(n) == (4 * n + 2) \div 3

Encoded(n) == [chars |-> Base64Length(n), bytes |-> Base64Length(n), json |-> Base64Length(n),
               plain |-> TRUE, blank |-> FALSE]

(* protocol/validation.rs, protocol/domain.rs *)

validate_id(t) == t.plain /\ t.bytes \in 16 .. 128
validate_signature_b64(t) == t.plain /\ t.bytes = 86
validate_site_account_id(t) == t.plain /\ t.bytes \in 22 .. 128
validate_challenge_token(t) == t.plain /\ t.bytes \in 16 .. 512
validate_kid(t) == t.plain /\ t.bytes \in 1 .. 64
validate_reason(t) == t.bytes <= 100

validate_display_name(t, required) ==
    /\ required => t.bytes > 0
    /\ t.bytes <= MAX_DISPLAY_NAME

validate_domain(t) == t.plain /\ t.bytes <= MAX_DOMAIN

-----------------------------------------------------------------------------
(* The documents.  canonicalize_object writes the fields in the order of their *)
(* names, so two canonical forms are the same just when the fields are.        *)

\* protocol/registration.rs
validate(r) ==
    /\ r.version = 1
    /\ validate_domain(r.domain)
    /\ validate_id(r.session_id)
    /\ validate_id(r.nonce)
    /\ validate_display_name(r.requested_display_name, FALSE)
    /\ validate_signature_b64(r.qr_signature)
    /\ validate_signature_b64(r.registration_signature)

qr_canonical(r) ==
    [domain |-> r.domain, exp |-> r.exp, iat |-> r.iat, nonce |-> r.nonce,
     session |-> r.session_id, v |-> r.version]

\* Mutant: the registration is signed as the QR code is.
CanonicalOfQr(r) == qr_canonical(r)

registration_canonical(r) ==
    [domain |-> r.domain, exp |-> r.exp, iat |-> r.iat, nonce |-> r.nonce,
     qrSignature |-> r.qr_signature, requestedDisplayName |-> r.requested_display_name,
     sessionId |-> r.session_id, version |-> r.version]

\* protocol/metadata.rs
metadata_canonical(m) ==
    [displayName |-> m.display_name, domain |-> m.domain, publicKey |-> m.public_key,
     version |-> m.version]

\* Mutant: an empty name is shown as it is.
NameUnchecked(m, expected_domain) ==
    /\ m.version = 1
    /\ validate_domain(m.domain)
    /\ m.domain = expected_domain
    /\ m.display_name.bytes <= MAX_DISPLAY_NAME
    /\ m.public_key.bytes = 43

validate_for_domain(m, expected_domain) ==
    /\ m.version = 1
    /\ validate_domain(m.domain)
    /\ m.domain = expected_domain
    /\ ~m.display_name.blank
    /\ m.display_name.bytes <= MAX_DISPLAY_NAME
    /\ m.public_key.bytes = 43

\* protocol/matrix.rs; a displayName of null is left out.
consent_signed_bytes(c) ==
    [approved |-> c.approved, challenge |-> c.challenge, displayName |-> c.display_name,
     nonce |-> c.nonce, sessionId |-> c.session_id, sentAt |-> c.sent_at]

\* The relay writes a challenge or a result.
validate_outbound(m) ==
    /\ validate_id(m.session_id)
    /\ validate_id(m.nonce)
    /\ IF m.kind = "challenge"
       THEN /\ validate_domain(m.domain)
            /\ m.site_name.bytes \in 1 .. MAX_DISPLAY_NAME
            /\ m.requested_display_name.bytes <= MAX_DISPLAY_NAME
            /\ validate_challenge_token(m.challenge)
       ELSE /\ \A t \in m.site_account_id : validate_site_account_id(t)
            /\ \A t \in m.reason : validate_reason(t)

\* Mutant: any name, as validate_display_name has it where it is not required.
AnyNameApproves(m) == m.approved = (m.display_name # None)

NameAsApproved(m) ==
    /\ m.approved = (m.display_name # None)
    /\ \A t \in m.display_name : t.bytes \in 1 .. MAX_DISPLAY_NAME

validate_inbound(m) ==
    /\ m.kind \notin {"challenge", "result"}
    /\ validate_id(m.session_id)
    /\ validate_id(m.nonce)
    /\ m.kind = "request" => validate_domain(m.domain)
    /\ m.kind = "consent" =>
          /\ validate_challenge_token(m.challenge)
          /\ m.key_id.plain /\ m.key_id.bytes <= 512
          /\ validate_signature_b64(m.signature)
          /\ NameAsApproved(m)
    /\ m.kind = "revocation" =>
          /\ validate_site_account_id(m.site_account_id)
          /\ \A t \in m.reason : validate_reason(t)

\* The JSON of a message: FRAME bounds its braces, quotes, field names, times, nulls
\* and booleans.
FRAME == 512

OptionJson(o) == IF o = None THEN 0 ELSE (CHOOSE t \in o : TRUE).json

\* What a kind of message holds besides the session and the nonce.
OwnJson(m) ==
    CASE m.kind = "request" -> m.domain.json
      [] m.kind = "challenge" -> m.site_name.json + m.domain.json
                                 + m.requested_display_name.json + m.challenge.json
      [] m.kind = "consent" -> OptionJson(m.display_name) + m.challenge.json + m.key_id.json
                               + m.signature.json
      [] m.kind = "result" -> OptionJson(m.site_account_id) + OptionJson(m.reason)
      [] m.kind = "revocation" -> m.site_account_id.json + OptionJson(m.reason)

MessageBytes(m) == FRAME + m.session_id.json + m.nonce.json + OwnJson(m)

encode(m) == validate_outbound(m) /\ MessageBytes(m) <= MAX_DECODED_BODY

decode(m) ==
    /\ PREFIX_BYTES + Base64Length(MessageBytes(m)) <= 2 * MAX_DECODED_BODY
    /\ MessageBytes(m) <= MAX_DECODED_BODY
    /\ validate_inbound(m)

\* protocol/assertion.rs
assertion_canonical(a) ==
    [aud |-> a.aud, displayName |-> a.display_name, exp |-> a.exp, iat |-> a.iat,
     iss |-> "relay", jti |-> a.jti, kid |-> a.kid, nbf |-> a.iat, nonce |-> a.nonce,
     sessionId |-> a.session_id, sub |-> a.sub, subjectKeyVersion |-> 1, version |-> 1]

sign_assertion(a) ==
    /\ validate_kid(a.kid)
    /\ validate_id(a.session_id)
    /\ validate_id(a.nonce)
    /\ validate_site_account_id(a.sub)
    /\ validate_display_name(a.display_name, TRUE)

\* protocol/revocation.rs: signed without a check.
revocation_canonical(v) ==
    [aud |-> v.aud, iat |-> v.iat, iss |-> "relay", jti |-> v.jti, kid |-> v.kid,
     reason |-> v.reason, sub |-> v.sub, version |-> 1]

-----------------------------------------------------------------------------
(* The login *)

Signature == Encoded(64)
Challenge == Encoded(CHALLENGE_BYTES)
Jti == Encoded(16)
DidKey == Encoded(42)       \* plain: it starts with did:
Sub == Encoded(32)          \* an HMAC-SHA-256
UserRequested == [chars |-> 14, bytes |-> 14, json |-> 14, plain |-> TRUE, blank |-> FALSE]
RequestCancelled == [chars |-> 17, bytes |-> 17, json |-> 17, plain |-> TRUE, blank |-> FALSE]

Request ==
    [version : {1, 2}, domain : Domains, session_id : Ids, nonce : Ids, iat : {1}, exp : {2},
     requested_display_name : Names, qr_signature : {Signature},
     registration_signature : {Signature}]

Metadata == [version : {1}, domain : Domains, display_name : Names, public_key : {Encoded(32)}]

\* Options of a set.
Options(S) == {None} \cup {Some(v) : v \in S}

Document(key, kind, fields, says) == [key |-> key, kind |-> kind, fields |-> fields, says |-> says]

LoginInit ==
    /\ kid \in Kids
    /\ row = None
    /\ challenged = FALSE
    /\ payloads = {}
    /\ accepted = {}
    /\ granted = FALSE
    /\ written = {}
    /\ signed = {}
    /\ events = 0

Event == events < MaxEvents /\ events' = events + 1

\* register_session; the signatures are good, and the row is new.
RegisterSession(r, m) ==
    /\ Event
    /\ row = None
    /\ validate(r)
    /\ validate_for_domain(m, r.domain)
    /\ row' = Some([domain |-> r.domain, session_id |-> r.session_id, nonce |-> r.nonce,
                    site_name |-> m.display_name,
                    requested_display_name |-> r.requested_display_name])
    /\ signed' = signed \cup
          {Document("site", "metadata", metadata_canonical(m), m.display_name),
           Document("site", "qr", qr_canonical(r), <<r.domain, r.session_id, r.nonce>>),
           Document("site", "registration", registration_canonical(r),
                    <<r.domain, r.session_id, r.nonce, r.requested_display_name>>)}
    /\ UNCHANGED <<kid, challenged, payloads, accepted, granted, written>>

\* A message of the user reaches handle_inbound; what decode refuses is ignored.
Inbound ==
    /\ Event
    /\ row # None

Ignored(m) ==
    /\ Inbound
    /\ ~decode(m)
    /\ UNCHANGED <<kid, row, challenged, payloads, accepted, granted, written, signed>>

Writes(m, ok) == written' = written \cup {[message |-> m, ok |-> ok]}

ResultNotice(s, account, reason) ==
    [kind |-> "result", session_id |-> s.session_id, nonce |-> s.nonce,
     site_account_id |-> account, reason |-> reason]

RequestMessage == [kind : {"request"}, session_id : Ids, nonce : Ids, domain : Domains]

\* The commit comes first, the notice after it.
ProcessRequest(m) ==
    /\ Inbound
    /\ decode(m)
    /\ ~challenged
    /\ \E s \in row :
          LET notice == [kind |-> "challenge", session_id |-> m.session_id, nonce |-> m.nonce,
                         site_name |-> s.site_name, domain |-> m.domain,
                         requested_display_name |-> s.requested_display_name,
                         challenge |-> Challenge] IN
          /\ <<s.domain, s.session_id, s.nonce>> = <<m.domain, m.session_id, m.nonce>>
          /\ challenged' = TRUE
          /\ Writes(notice, encode(notice))
    /\ UNCHANGED <<kid, row, payloads, accepted, granted, signed>>

ConsentMessage ==
    [kind : {"consent"}, session_id : Ids, nonce : Ids, sent_at : {1}, approved : BOOLEAN,
     display_name : Options(Names), challenge : {Challenge}, key_id : {DidKey},
     signature : {Signature}]

AssertionFor(s, name) ==
    [kind |-> "assertion", kid |-> kid, aud |-> s.domain, sub |-> Sub,
     session_id |-> s.session_id, nonce |-> s.nonce, jti |-> Jti, iat |-> 1, exp |-> 2,
     display_name |-> name]

\* The assertion is signed and stored in one transaction, which an error undoes.
Approve(s, name) ==
    LET assertion == AssertionFor(s, name)
        ok == sign_assertion(assertion)
    IN  /\ Writes(assertion, ok)
        /\ payloads' = IF ok THEN payloads \cup {assertion} ELSE payloads
        /\ granted' = (granted \/ ok)

Refuse(s) ==
    LET notice == ResultNotice(s, None, Some(RequestCancelled)) IN
    /\ Writes(notice, encode(notice))
    /\ UNCHANGED <<payloads, granted>>

\* The consent answers the challenge of the session, from the sender and in the room
\* of the request.
ProcessConsent(m) ==
    /\ Inbound
    /\ decode(m)
    /\ challenged
    /\ \E s \in row :
          /\ <<s.session_id, s.nonce>> = <<m.session_id, m.nonce>>
          /\ IF m.approved THEN \E name \in m.display_name : Approve(s, name) ELSE Refuse(s)
    /\ signed' = signed
          \cup {Document("user", "consent", consent_signed_bytes(m),
                         <<m.approved, m.display_name>>)}
          \cup {Document("relay", "assertion", assertion_canonical(a),
                         <<a.aud, a.sub, a.display_name>>) : a \in payloads' \ payloads}
    /\ UNCHANGED <<kid, row, challenged, accepted>>

\* deliver and after_assertion_accepted: the site answers 200 or 202; the payload is
\* read back, and the user is told.
AssertionAccepted ==
    /\ \E a \in payloads \ accepted : \E s \in row :
          LET notice == ResultNotice(s, Some(a.sub), None) IN
          /\ accepted' = accepted \cup {a}
          /\ Writes(notice, encode(notice))
    /\ UNCHANGED <<kid, row, challenged, payloads, granted, signed, events>>

RevocationMessage ==
    [kind : {"revocation"}, session_id : Ids, nonce : Ids, site_account_id : {Sub},
     reason : Options(Reasons)]

\* The grant that a consent left active ends.
ProcessRevocation(m) ==
    /\ Inbound
    /\ decode(m)
    /\ granted /\ granted' = FALSE
    /\ \E s \in row :
          LET revocation ==
                  [kind |-> "revocation", kid |-> kid, aud |-> s.domain, sub |-> m.site_account_id,
                   jti |-> Jti, iat |-> 1,
                   reason |-> IF m.reason = None THEN UserRequested ELSE CHOOSE t \in m.reason : TRUE]
          IN
          /\ <<s.session_id, s.nonce>> = <<m.session_id, m.nonce>>
          /\ Writes(revocation, TRUE)
          /\ signed' = signed \cup
                {Document("relay", "revocation", revocation_canonical(revocation),
                          <<s.domain, m.site_account_id>>)}
    /\ UNCHANGED <<kid, row, challenged, payloads, accepted>>

Message == RequestMessage \cup ConsentMessage \cup RevocationMessage

LoginNext ==
    \/ \E r \in Request : \E m \in Metadata : RegisterSession(r, m)
    \/ \E m \in Message : Ignored(m)
    \/ \E m \in RequestMessage : ProcessRequest(m)
    \/ \E m \in ConsentMessage : ProcessConsent(m)
    \/ AssertionAccepted
    \/ \E m \in RevocationMessage : ProcessRevocation(m)

LoginSpec == LoginInit /\ [][LoginNext]_loginVars

-----------------------------------------------------------------------------
(* Safety *)

WrittenKinds == {"challenge", "result", "assertion", "revocation"}

LoginTypeOK ==
    /\ kid \in Kids
    /\ \A s \in row : \A t \in row : s = t
    /\ row \subseteq [domain : Domains, session_id : Ids, nonce : Ids, site_name : Names,
                     requested_display_name : {t \in Names : t.bytes <= MAX_DISPLAY_NAME}]
    /\ challenged \in BOOLEAN /\ granted \in BOOLEAN
    /\ accepted \subseteq payloads
    /\ \A w \in written : w.message.kind \in WrittenKinds /\ w.ok \in BOOLEAN
    /\ events \in Nat

\* encode runs after the commit: were it to refuse a notice, the session would stay
\* at CHALLENGE_SENT with a challenge nobody has, or be delivered with nobody told.
\* Whatever a site may register and publish, the notices made of it can be written.
CommittedCanBeTold ==
    \A w \in written : w.message.kind \in {"challenge", "result"} => w.ok

\* An approved consent that decode takes can be signed for, unless the relay runs
\* under a kid that no assertion may carry (config.rs does not look at it): else
\* the user's approval ends in an error that nobody is told of.
ApprovedIsSigned ==
    \A w \in written : w.message.kind = "assertion" => w.ok = validate_kid(kid)

\* A signature binds one statement: two documents that were signed with one key and
\* have the same canonical form are of the same kind, and say the same in all that
\* the relay takes from them.
SignaturesBind ==
    \A a \in signed : \A b \in signed :
        a.key = b.key /\ a.fields = b.fields => a.kind = b.kind /\ a.says = b.says
=============================================================================
