------------------------------ MODULE RelayTime ------------------------------
(***************************************************************************)
(* The time arithmetic of the login protocol (protocol/time.rs and the      *)
(* assertion lifetime computed in services/login.rs).  Times are integers   *)
(* of milliseconds; the saturation of the i64 operations is out of scope    *)
(* here (real timestamps stay far below 2^63).                              *)
(***************************************************************************)
EXTENDS Integers

CONSTANTS
    MAX_TTL_MS,      \* longest life of a session, a challenge or an assertion
    CLOCK_SKEW_MS    \* how far before iat a phone's clock may be

ASSUME TimeAssumption == MAX_TTL_MS \in Nat \ {0} /\ CLOCK_SKEW_MS \in Nat

min(a, b) == IF a <= b THEN a ELSE b

validate_window(iat, exp) == exp > iat /\ exp - iat <= MAX_TTL_MS

sent_at_in_qr_window(sent_at, iat, exp) ==
    sent_at >= iat - CLOCK_SKEW_MS /\ sent_at <= exp

challenge_expires_at(sent_at, registration_exp) ==
    min(sent_at + MAX_TTL_MS, registration_exp)

\* Mutant: the assertion lives as long as the session, however far off that is.
AssertionUncapped(session_exp, iat) == session_exp

assertion_expires_at(session_exp, iat) == min(session_exp, iat + MAX_TTL_MS)
=============================================================================
