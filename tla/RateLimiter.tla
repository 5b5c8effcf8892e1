----------------------------- MODULE RateLimiter -----------------------------
(***************************************************************************)
(* rate_limit_ok in http/routes.rs: two process-wide atomics, the second    *)
(* the current window belongs to and the number of requests counted in it.  *)
(* Each load, store and fetch_add is a step of its own.  The stores are     *)
(* Relaxed: the two of one request may become visible in either order, and  *)
(* after the request has been let in.                                       *)
(***************************************************************************)
EXTENDS Integers, FiniteSets

CONSTANTS
    Tasks,           \* threads that serve POST /v1/site-sessions
    Limit,           \* 30 in rate_limit_ok
    MaxSecs,         \* bound: the clock stops here
    MaxRequests      \* bound: requests in all

ASSUME LimitAssumption == Limit \in Nat \ {0}
ASSUME RateBoundAssumption == MaxSecs \in Nat /\ MaxRequests \in Nat

VARIABLES
    secs,            \* the clock, in seconds since the epoch; never 0
    REG_WINDOW, REG_COUNT,
    ts,              \* local state of the tasks
    requests,        \* requests begun so far
    turnsIn,         \* history, per second read: requests let in as its first,
    addsIn,          \* requests let in by the count,
    refusedIn,       \* and requests refused
    stores,          \* history: stores of REG_COUNT since the clock reached a second
    overlapped       \* history: two requests have run at the same time

rateVars == <<secs, REG_WINDOW, REG_COUNT, ts, requests, turnsIn, addsIn, refusedIn, stores,
              overlapped>>

\* At "store" both stores are to come, later the window's or the count's.
Storing == {"store", "store_window", "store_count"}
TaskState == [pc : {"idle", "load", "add"} \cup Storing, now : Nat]

At(pc, now) == [pc |-> pc, now |-> now]
IdleTask == At("idle", 0)

Seconds == 1 .. MaxSecs + 1

\* The atomics hold what a u64 may, and every request is at a point of
\* rate_limit_ok.
RateTypeOK ==
    /\ secs \in Seconds
    /\ REG_WINDOW \in Seconds \cup {0} /\ REG_COUNT \in Nat
    /\ ts \in [Tasks -> TaskState]
    /\ \A t \in Tasks : ts[t].pc # "idle" => ts[t].now \in Seconds
    /\ requests \in Nat
    /\ turnsIn \in [Seconds -> Nat]
    /\ addsIn \in [Seconds -> Nat]
    /\ refusedIn \in [Seconds -> Nat]
    /\ stores \in [Seconds -> Nat]
    /\ overlapped \in BOOLEAN

RateInit ==
    /\ secs = 1
    /\ REG_WINDOW = 0 /\ REG_COUNT = 0
    /\ ts = [t \in Tasks |-> IdleTask]
    /\ requests = 0
    /\ turnsIn = [s \in Seconds |-> 0]
    /\ addsIn = [s \in Seconds |-> 0]
    /\ refusedIn = [s \in Seconds |-> 0]
    /\ stores = [s \in Seconds |-> 0]
    /\ overlapped = FALSE

Goes(t, state) == ts' = [ts EXCEPT ![t] = state]
Inc(f, s) == [f EXCEPT ![s] = @ + 1]

-----------------------------------------------------------------------------
SecondPasses ==
    /\ secs <= MaxSecs
    /\ secs' = secs + 1
    /\ UNCHANGED <<REG_WINDOW, REG_COUNT, ts, requests, turnsIn, addsIn, refusedIn, stores,
                   overlapped>>

ReadClock(t) ==
    /\ ts[t].pc = "idle"
    /\ requests < MaxRequests
    /\ requests' = requests + 1
    /\ Goes(t, At("load", secs))
    /\ overlapped' = (overlapped \/ \E u \in Tasks \ {t} : ts[u].pc # "idle")
    /\ UNCHANGED <<secs, REG_WINDOW, REG_COUNT, turnsIn, addsIn, refusedIn, stores>>

\* Mutant: only a later second opens a window.
LaterSecond(window, now) == window + 1 < now

WindowIsOver(window, now) == window # now

LoadWindow(t) ==
    LET now == ts[t].now IN
    /\ ts[t].pc = "load"
    /\ IF WindowIsOver(REG_WINDOW, now)
       THEN /\ Goes(t, At("store", now))
            /\ turnsIn' = Inc(turnsIn, now)
       ELSE /\ Goes(t, At("add", now))
            /\ UNCHANGED turnsIn
    /\ UNCHANGED <<secs, REG_WINDOW, REG_COUNT, requests, addsIn, refusedIn, stores, overlapped>>

\* The local state of a task after one of its stores, when the other is next.
Stored(t, next) == IF ts[t].pc = "store" THEN At(next, ts[t].now) ELSE IdleTask

StoreWindow(t) ==
    /\ ts[t].pc \in {"store", "store_window"}
    /\ REG_WINDOW' = ts[t].now
    /\ Goes(t, Stored(t, "store_count"))
    /\ UNCHANGED <<secs, REG_COUNT, requests, turnsIn, addsIn, refusedIn, stores, overlapped>>

\* Mutant: the request that opens the window is not counted.
OpenUncounted == 0

OpenCount == 1

StoreCount(t) ==
    /\ ts[t].pc \in {"store", "store_count"}
    /\ REG_COUNT' = OpenCount
    /\ Goes(t, Stored(t, "store_window"))
    /\ stores' = [s \in Seconds |-> IF s <= secs THEN stores[s] + 1 ELSE stores[s]]
    /\ UNCHANGED <<secs, REG_WINDOW, requests, turnsIn, addsIn, refusedIn, overlapped>>

\* Mutant: off by one.
OneTooMany(count) == count <= Limit

UnderLimit(count) == count < Limit

FetchAdd(t) ==
    LET now == ts[t].now IN
    /\ ts[t].pc = "add"
    /\ REG_COUNT' = REG_COUNT + 1
    /\ IF UnderLimit(REG_COUNT)
       THEN addsIn' = Inc(addsIn, now) /\ UNCHANGED refusedIn
       ELSE refusedIn' = Inc(refusedIn, now) /\ UNCHANGED addsIn
    /\ Goes(t, IdleTask)
    /\ UNCHANGED <<secs, REG_WINDOW, requests, turnsIn, stores, overlapped>>

RateNext ==
    \/ SecondPasses
    \/ \E t \in Tasks :
          ReadClock(t) \/ LoadWindow(t) \/ StoreWindow(t) \/ StoreCount(t) \/ FetchAdd(t)

RateSpec == RateInit /\ [][RateNext]_rateVars

-----------------------------------------------------------------------------
AdmittedIn(s) == turnsIn[s] + addsIn[s]

\* Requests that never overlap are limited exactly (rate_limit_ok): at most
\* Limit pass in a second, and one is refused only when Limit have passed.
ExactWithoutOverlap ==
    ~overlapped => \A s \in Seconds :
        /\ AdmittedIn(s) <= Limit
        /\ refusedIn[s] > 0 => AdmittedIn(s) = Limit

\* However requests interleave, no second refuses everyone: a count left over
\* from the second before, seen with the new window, refuses only beside a
\* request that opened that window.
NoSecondRefusesAll == \A s \in Seconds : refusedIn[s] > 0 => turnsIn[s] > 0

\* What interleaving can cost: the count lets in Limit requests of a second, and
\* Limit - 1 more for every store of REG_COUNT since that second began, by its
\* own requests or by late ones of an earlier second.
OverrunIsBounded == \A s \in Seconds : addsIn[s] <= Limit + (Limit - 1) * stores[s]

-----------------------------------------------------------------------------
\* A request is let in by the count, or refused, only in a second some request
\* has opened; so is the second in REG_WINDOW or about to be stored there.
OpenedByTurn ==
    /\ REG_WINDOW # 0 => turnsIn[REG_WINDOW] > 0
    /\ \A t \in Tasks : ts[t].pc \in Storing \cup {"add"} => turnsIn[ts[t].now] > 0
    /\ NoSecondRefusesAll

CountLeft == IF REG_COUNT < Limit THEN Limit - REG_COUNT ELSE 0

\* Nothing has happened in a second the clock has not reached; in the others
\* what the count has let in and may still let in is within the bound.
Budget ==
    /\ \A t \in Tasks : ts[t].now <= secs
    /\ \A s \in Seconds : s > secs => addsIn[s] = 0 /\ stores[s] = 0
    /\ \A s \in Seconds : addsIn[s] + CountLeft <= Limit + (Limit - 1) * stores[s]

Untouched(s) == turnsIn[s] = 0 /\ addsIn[s] = 0 /\ refusedIn[s] = 0
Exact(s) == AdmittedIn(s) <= Limit /\ (refusedIn[s] > 0 => AdmittedIn(s) = Limit)

\* REG_COUNT counts the requests of the second in REG_WINDOW.
Counted ==
    /\ REG_WINDOW = 0 => REG_COUNT = 0
    /\ REG_WINDOW # 0 => AdmittedIn(REG_WINDOW) = (IF REG_COUNT < Limit THEN REG_COUNT ELSE Limit)
    /\ \A s \in Seconds : s > REG_WINDOW => Untouched(s)

\* Where a request that runs alone finds the atomics.
Alone(t) ==
    LET now == ts[t].now
    IN  /\ ts[t].pc = "load" => now >= REG_WINDOW /\ Counted
        /\ ts[t].pc = "add" => now = REG_WINDOW /\ Counted
        /\ ts[t].pc \in Storing =>
              /\ turnsIn[now] = 1 /\ addsIn[now] = 0 /\ refusedIn[now] = 0
              /\ IF ts[t].pc = "store_count" THEN now = REG_WINDOW ELSE now > REG_WINDOW
              /\ ts[t].pc = "store_window" => REG_COUNT = 1
              /\ \A s \in Seconds : s > now => Untouched(s)

Aligned ==
    ~overlapped =>
        /\ \A t, u \in Tasks : ts[t].pc # "idle" /\ ts[u].pc # "idle" => t = u
        /\ \A s \in Seconds : Exact(s)
        /\ \A t \in Tasks : Alone(t)
        /\ (\A t \in Tasks : ts[t].pc = "idle") => Counted

\* The inductive invariant: the types, the windows opened, the budget of a
\* second, and the exact count while requests run one at a time.
RateInv ==
    /\ RateTypeOK
    /\ REG_WINDOW <= secs
    /\ OpenedByTurn
    /\ Budget
    /\ Aligned
=============================================================================
