----------------------------- MODULE MCProtocol -----------------------------
(***************************************************************************)
(* What a request meets before the database, for TLC: the rate limiter of    *)
(* http/routes.rs and the rules of protocol/, json/ and crypto/jcs.rs, which *)
(* are the documents of a login, its times in machine integers, and its      *)
(* JSON.  They share no state, so a behaviour takes one of them.             *)
(***************************************************************************)
EXTENDS MCLoginDocuments, MachineTime, MCStrictJson, MCRateLimiter

VARIABLE part

vars == <<part, loginVars, timeVars, docs, rateVars>>

Init ==
    /\ part \in {"documents", "times", "json", "rate"}
    /\ LoginInit /\ TimeInit /\ JsonInit /\ RateInit
    /\ part # "documents" => kid = Ascii(64)
    /\ part # "times" => now = 0

Next ==
    /\ UNCHANGED part
    /\ \/ part = "documents" /\ LoginNext /\ UNCHANGED <<timeVars, docs, rateVars>>
       \/ part = "times" /\ TimeNext /\ UNCHANGED <<loginVars, docs, rateVars>>
       \/ part = "json" /\ JsonNext /\ UNCHANGED <<loginVars, timeVars, rateVars>>
       \/ part = "rate" /\ RateNext /\ UNCHANGED <<loginVars, timeVars, docs>>

Spec == Init /\ [][Next]_vars
=============================================================================
