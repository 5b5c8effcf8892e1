---------------------------- MODULE LoginPromise ----------------------------
(***************************************************************************)
(* What the relay promises, to the sites and to the accounts, without the   *)
(* database, the locks, the tasks, the retries or the crashes:              *)
(*                                                                          *)
(*   a login that a site opened is bound, once, to the account and the room *)
(*   that asked for it; the account is asked in that room; the site is told *)
(*   of a login only after the account was asked, once per approval, and    *)
(*   only about that account; a revocation follows an assertion; the        *)
(*   account hears of a success, in its room, only after the site has       *)
(*   accepted; a statement counts as delivered only when all of that is     *)
(*   done.                                                                  *)
(*                                                                          *)
(* RelayPromise shows that Relay implements this.                           *)
(***************************************************************************)
EXTENDS Integers, Sequences

CONSTANTS
    Logins, Accounts, Places,
    Tickets,         \* names of approvals and revocations
    SiteOf,          \* the site of a login
    Clash            \* the logins that cannot be open beside a login

VARIABLES
    opened,          \* logins that a site has opened
    bound,           \* bindings [login, account, room]
    asked,           \* bindings whose account was asked to approve
    statements,      \* assertions and revocations, in the order in which they were made
    outcome,         \* what became of each statement
    accepted,        \* the statements that the site has accepted
    told             \* the accepted assertions that were reported, and where

promiseVars == <<opened, bound, asked, statements, outcome, accepted, told>>

Init ==
    /\ opened = {}
    /\ bound = {}
    /\ asked = {}
    /\ statements = <<>>
    /\ outcome = <<>>
    /\ accepted = {}
    /\ told = {}

-----------------------------------------------------------------------------
Subject(l, a) == <<SiteOf[l], a>>

\* The last statement about sub is an assertion.
HasAccess(sub) ==
    \E i \in DOMAIN statements :
        /\ statements[i].sub = sub
        /\ statements[i].kind = "assertion"
        /\ \A k \in DOMAIN statements : statements[k].sub = sub => k <= i

State(kind, l, sub, t) ==
    /\ statements' = Append(statements, [kind |-> kind, login |-> l, sub |-> sub, ticket |-> t])
    /\ outcome' = Append(outcome, "pending")

Open(l) ==
    /\ opened \cap Clash[l] = {}
    /\ opened' = opened \cup {l}
    /\ UNCHANGED <<bound, asked, statements, outcome, accepted, told>>

Bind(l, a, p) ==
    /\ l \in opened
    /\ \A b \in bound : b.login # l
    /\ bound' = bound \cup {[login |-> l, account |-> a, room |-> p]}
    /\ UNCHANGED <<opened, asked, statements, outcome, accepted, told>>

Ask(b) ==
    /\ asked' = asked \cup {b}
    /\ UNCHANGED <<opened, bound, statements, outcome, accepted, told>>

Approve(b, t) ==
    /\ \A i \in DOMAIN statements :
          statements[i].kind = "assertion" => statements[i].ticket # t
    /\ State("assertion", b.login, Subject(b.login, b.account), t)
    /\ UNCHANGED <<opened, bound, asked, accepted, told>>

\* An account may revoke what a site holds on it through any open login of the
\* site.
Revoke(l, a, t) ==
    /\ HasAccess(Subject(l, a))
    /\ State("revocation", l, Subject(l, a), t)
    /\ UNCHANGED <<opened, bound, asked, accepted, told>>

Accept(i) ==
    /\ accepted' = accepted \cup {i}
    /\ UNCHANGED <<opened, bound, asked, statements, outcome, told>>

Tell(i, b) ==
    /\ i \in accepted
    /\ statements[i].kind = "assertion"
    /\ statements[i].login = b.login
    /\ statements[i].sub = Subject(b.login, b.account)
    /\ told' = told \cup {[statement |-> i, room |-> b.room]}
    /\ UNCHANGED <<opened, bound, asked, statements, outcome, accepted>>

Deliver(i) ==
    /\ i \in accepted
    /\ statements[i].kind = "assertion" => \E t \in told : t.statement = i
    /\ outcome' = [outcome EXCEPT ![i] = "delivered"]
    /\ UNCHANGED <<opened, bound, asked, statements, accepted, told>>

GiveUp(i) ==
    /\ outcome' = [outcome EXCEPT ![i] = "failed"]
    /\ UNCHANGED <<opened, bound, asked, statements, accepted, told>>

Next ==
    \/ \E l \in Logins : Open(l)
    \/ \E l \in Logins, a \in Accounts, p \in Places : Bind(l, a, p)
    \/ \E b \in bound : Ask(b)
    \/ \E b \in asked, t \in Tickets : Approve(b, t)
    \/ \E l \in opened, a \in Accounts, t \in Tickets : Revoke(l, a, t)
    \/ \E i \in DOMAIN statements : Accept(i) \/ Deliver(i) \/ GiveUp(i)
    \/ \E i \in accepted, b \in asked : Tell(i, b)

Spec == Init /\ [][Next]_promiseVars
=============================================================================
