----------------------------- MODULE MCOutbound -----------------------------
(***************************************************************************)
(* What leaves the relay for the sites, for TLC: the jobs in their loop      *)
(* (Relay), and the requests that the loop and the registration make         *)
(* (SiteClient).  That every request ends is what the fairness of the loop   *)
(* rests on.  The two share no state, so a behaviour takes one of them.      *)
(***************************************************************************)
EXTENDS MCRelay, MCSiteClient

VARIABLE part

outboundVars == <<part, vars, siteVars>>

OutboundInit == part \in {"queue", "request"} /\ Init /\ SiteInit

OutboundNext ==
    /\ UNCHANGED part
    /\ \/ part = "queue" /\ Next /\ UNCHANGED siteVars
       \/ part = "request" /\ SiteNext /\ UNCHANGED vars

\* In the initial state of either module none of its fair actions is enabled: each
\* fairness is about its own part only.
OutboundSpec == OutboundInit /\ [][OutboundNext]_outboundVars /\ Fairness /\ SiteFairness
=============================================================================
