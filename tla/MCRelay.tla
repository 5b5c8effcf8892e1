------------------------------- MODULE MCRelay -------------------------------
(***************************************************************************)
(* Small instances of Relay for TLC.                                        *)
(***************************************************************************)
EXTENDS RelayPromise, TLC

CONSTANTS d1, d2, s1, s2, n1, n2, u1, u2, ra, rb

\* iat is ahead of the clock: the session outlives now + MAX_TTL_MS = 2.
Qr1 == [domain |-> d1, session_id |-> s1, nonce |-> n1, iat |-> 1, exp |-> 3]
\* The session id and nonce of Qr1 at another site.
QrOther == [domain |-> d2, session_id |-> s1, nonce |-> n1, iat |-> 0, exp |-> 2]
\* The session id of Qr1 registered again with another nonce, and a window
\* that is too long.
QrClash == [domain |-> d1, session_id |-> s1, nonce |-> n2, iat |-> 1, exp |-> 3]
QrLong == [domain |-> d2, session_id |-> s2, nonce |-> n2, iat |-> 0, exp |-> 3]

Request(u, room, qr, t) ==
    [kind |-> "request", sender |-> u, room |-> room, qr |-> qr, sent_at |-> t,
     approved |-> FALSE, challenge |-> 0, signed |-> FALSE, sub |-> <<d1, u1>>]
Consent(u, room, qr, t, ok, c, signed) ==
    [kind |-> "consent", sender |-> u, room |-> room, qr |-> qr, sent_at |-> t,
     approved |-> ok, challenge |-> c, signed |-> signed, sub |-> <<d1, u1>>]
Revocation(u, room, qr, sub) ==
    [kind |-> "revocation", sender |-> u, room |-> room, qr |-> qr, sent_at |-> 1,
     approved |-> FALSE, challenge |-> 0, signed |-> FALSE, sub |-> sub]

OneRegistration == {Qr1}

\* Two accounts, one of them in two rooms, race for one session.
CompetingMessages ==
    {Request(u1, ra, Qr1, 1), Request(u2, rb, Qr1, 1),
     Consent(u1, ra, Qr1, 1, TRUE, 1, TRUE), Consent(u1, ra, Qr1, 1, FALSE, 1, TRUE),
     Consent(u1, rb, Qr1, 1, TRUE, 1, TRUE), Consent(u2, rb, Qr1, 1, TRUE, 1, TRUE)}

\* And one of them asks for the session of another site that has the same id and
\* nonce, so that the wording of a consent fits both.
RaceMessages ==
    CompetingMessages
    \cup {Request(u1, ra, QrOther, 1), Consent(u1, ra, Qr1, 1, TRUE, 2, TRUE)}

\* One account, messages early, in time and late, one with a bad signature.
ExpiryMessages ==
    {Request(u1, ra, Qr1, t) : t \in {-1, 0, 3, 4}}
    \cup {Consent(u1, ra, Qr1, t, TRUE, 1, TRUE) : t \in {0, 2, 3, 4}}
    \cup {Consent(u1, ra, Qr1, 1, TRUE, 1, FALSE), Consent(u1, ra, Qr1, 1, FALSE, 1, TRUE)}

\* Sessions that clash, within a site and across sites, and one that is too long.
ClashRegistrations == {Qr1, QrOther, QrClash, QrLong}

\* One account logs in, revokes, and logs in again.
RegrantMessages ==
    {Request(u1, ra, Qr1, 1), Consent(u1, ra, Qr1, 1, TRUE, 1, TRUE),
     Revocation(u1, ra, Qr1, <<d1, u1>>)}

\* And another account tries to revoke.
RevocationMessages == RegrantMessages \cup {Revocation(u2, rb, Qr1, <<d1, u1>>)}

\* Event ids are used in their order.  They are interchangeable, and a symmetry
\* set is not sound for liveness.
ArriveInOrder ==
    \A e, f \in EventIds : f < e /\ timeline'[e] # timeline[e] => timeline[f] # None

Symmetry == Permutations(EventIds) \cup Permutations(Handlers) \cup Permutations(Workers)
=============================================================================
