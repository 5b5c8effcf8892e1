---------------------------- MODULE MachineTime ----------------------------
(***************************************************************************)
(* protocol/time.rs and the sums of times in the handlers, in integers of a  *)
(* fixed width: i64 saturates where the code says so and wraps where it adds  *)
(* with + (the release build; a debug build panics, which ends the request   *)
(* too).  A site chooses iat and exp, a user sentAt, over the whole of i64.   *)
(***************************************************************************)
EXTENDS Integers

CONSTANTS
    Width,           \* bits of an i64
    UtcLimit,        \* the times that chrono represents: -UtcLimit .. UtcLimit
    MaxNow,          \* bound: the clock
    MAX_TTL_MS, CLOCK_SKEW_MS, REPLAY_GRACE_MS

Half == 2 ^ (Width - 1)
I64 == -Half .. Half - 1

\* The clock, and all that is added to it, is far from the end of chrono's times,
\* and these from the end of i64.
ASSUME TimeAssumption ==
    /\ Width \in Nat \ {0} /\ Half \in Nat /\ UtcLimit \in Nat /\ MaxNow \in Nat
    /\ MAX_TTL_MS \in Nat \ {0} /\ CLOCK_SKEW_MS \in Nat /\ REPLAY_GRACE_MS \in Nat
    /\ MaxNow + MAX_TTL_MS + REPLAY_GRACE_MS < UtcLimit
    /\ UtcLimit + REPLAY_GRACE_MS < Half

VARIABLES now, session, challenge, assertion

timeVars == <<now, session, challenge, assertion>>

-----------------------------------------------------------------------------
\* The machine's sum: what is left of a + b in Width bits.
Wrap(n) == ((n + Half) % (2 * Half)) - Half

Saturated(n) == IF n < -Half THEN -Half ELSE IF n >= Half THEN Half - 1 ELSE n

saturating_sub(a, b) == Saturated(a - b)
saturating_add(a, b) == Saturated(a + b)

Least(a, b) == IF a <= b THEN a ELSE b

\* Mutant: plain subtraction.
WrappedWindow(iat, exp) == exp > iat /\ Wrap(exp - iat) <= MAX_TTL_MS

validate_window(iat, exp) == exp > iat /\ saturating_sub(exp, iat) <= MAX_TTL_MS

\* Mutant: the skew is granted at both ends.
SkewAtBothEnds(sent_at, iat, exp) ==
    /\ sent_at >= saturating_sub(iat, CLOCK_SKEW_MS)
    /\ sent_at <= saturating_add(exp, CLOCK_SKEW_MS)

sent_at_in_qr_window(sent_at, iat, exp) ==
    sent_at >= saturating_sub(iat, CLOCK_SKEW_MS) /\ sent_at <= exp

challenge_expires_at(sent_at, registration_exp) ==
    Least(saturating_add(sent_at, MAX_TTL_MS), registration_exp)

\* An Option is the set of what it holds.

millis_to_utc(ms) == IF ms \in -UtcLimit .. UtcLimit THEN {ms} ELSE {}

-----------------------------------------------------------------------------
TimeInit == now \in 0 .. MaxNow /\ session = {} /\ challenge = {} /\ assertion = {}

TimeTick == now < MaxNow /\ now' = now + 1 /\ UNCHANGED <<session, challenge, assertion>>

\* register_session and insert_registered: expires_at is when the row may be swept.
RegisterTimes(iat, exp) ==
    /\ session = {}
    /\ validate_window(iat, exp)
    /\ exp > now
    /\ session' = {[iat |-> iat, exp |-> exp, expires_at |-> t] :
                       t \in millis_to_utc(Wrap(exp + REPLAY_GRACE_MS))}
    /\ UNCHANGED <<now, challenge, assertion>>

\* process_request; kept_until is the expiry of the entries against replay.
RequestAt(sent_at) ==
    /\ challenge = {}
    /\ \E s \in session :
          /\ ~(s.exp < now)
          /\ sent_at_in_qr_window(sent_at, s.iat, s.exp)
          /\ challenge' = {[request |-> sent_at, at |-> now, kept_until |-> t,
                            expires_at |-> challenge_expires_at(now, s.exp)] :
                               t \in millis_to_utc(Wrap(s.exp + REPLAY_GRACE_MS))}
    /\ UNCHANGED <<now, session, assertion>>

\* process_consent, approved.
ConsentAt(sent_at) ==
    /\ assertion = {}
    /\ \E s \in session : \E c \in challenge :
          /\ ~(s.exp < now)
          /\ sent_at_in_qr_window(sent_at, s.iat, s.exp)
          /\ ~(sent_at > c.expires_at) /\ ~(now > c.expires_at)
          /\ assertion' = {[consent |-> sent_at, iat |-> now, kept_until |-> t,
                            exp |-> Least(s.exp, Wrap(now + MAX_TTL_MS))] :
                               t \in millis_to_utc(Wrap(s.exp + REPLAY_GRACE_MS))}
    /\ UNCHANGED <<now, session, challenge>>

TimeNext ==
    \/ TimeTick
    \/ \E iat \in I64 : \E exp \in I64 : RegisterTimes(iat, exp)
    \/ \E sent_at \in I64 : RequestAt(sent_at)
    \/ \E sent_at \in I64 : ConsentAt(sent_at)

TimeSpec == TimeInit /\ [][TimeNext]_timeVars

-----------------------------------------------------------------------------
TimeTypeOK ==
    /\ now \in 0 .. MaxNow
    /\ session \subseteq [iat : I64, exp : I64, expires_at : I64]
    /\ challenge \subseteq [request : I64, at : 0 .. MaxNow, kept_until : I64, expires_at : I64]
    /\ assertion \subseteq [consent : I64, iat : 0 .. MaxNow, kept_until : I64, exp : I64]

\* Whatever times a site registers, the row that results lasts at most the five
\* minutes and is kept for just the grace after its end: no sum wraps around to a
\* row that is swept before it ends, or never.  (Integers, not i64, on the right.)
SessionTimesExact ==
    \A s \in session :
        /\ s.exp - s.iat \in 1 .. MAX_TTL_MS
        /\ s.expires_at = s.exp + REPLAY_GRACE_MS

\* A message is taken only in the window of its session, and the entries against its
\* replay outlive every time at which it could be taken again.
MessageTimesExact ==
    \A s \in session :
        /\ \A c \in challenge :
              /\ c.request \in s.iat - CLOCK_SKEW_MS .. s.exp
              /\ c.kept_until >= s.exp
        /\ \A a \in assertion :
              /\ a.consent \in s.iat - CLOCK_SKEW_MS .. s.exp
              /\ a.kept_until >= s.exp
=============================================================================
