---------------------------- MODULE RequestProofs ----------------------------
(***************************************************************************)
(* What a request meets first: the bounds of rate_limit_ok, for every limit *)
(* and any number of requests; and JSON, read strictly and written in its   *)
(* canonical form, for texts of any width and depth.                        *)
(***************************************************************************)
EXTENDS RateLimiter, StrictJson, SequenceTheorems, TLAPS

LOCAL INSTANCE WellFoundedInduction

-----------------------------------------------------------------------------
(* The limit of registrations *)

\* A second the model counts in is a positive number.
LEMMA SecondsNat == \A s \in Seconds : s \in Nat /\ s >= 1
BY RateBoundAssumption DEF Seconds

\* At startup nothing is counted.
LEMMA InitRateInv == RateInit => RateInv
<1> SUFFICES ASSUME RateInit PROVE RateInv
    OBVIOUS
<1> USE LimitAssumption, RateBoundAssumption, SecondsNat DEF RateInit, IdleTask, At
<1>0. 1 \in Seconds BY DEF Seconds
<1>1. RateTypeOK BY <1>0, Zenon DEF RateTypeOK, TaskState, Storing
<1>2. REG_WINDOW <= secs OBVIOUS
<1>3. OpenedByTurn
  <2>1. \A s \in Seconds : refusedIn[s] = 0 OBVIOUS
  <2>2. NoSecondRefusesAll BY <2>1 DEF NoSecondRefusesAll
  <2>3. \A t \in Tasks : ts[t].pc \notin Storing \cup {"add"} BY DEF Storing
  <2> QED BY <2>2, <2>3 DEF OpenedByTurn
<1>4. Budget BY DEF Budget, CountLeft
<1>5. Aligned
  <2>1. \A s \in Seconds : Untouched(s) BY DEF Untouched
  <2>2. \A s \in Seconds : Exact(s) BY DEF Exact, AdmittedIn
  <2>3. Counted BY <2>1 DEF Counted
  <2>4. \A t \in Tasks : ts[t].pc = "idle" OBVIOUS
  <2>5. \A t \in Tasks : Alone(t) BY <2>4 DEF Alone, Storing
  <2> QED BY <2>2, <2>3, <2>4, <2>5 DEF Aligned
<1> QED BY <1>1, <1>2, <1>3, <1>4, <1>5 DEF RateInv

\* Every step keeps the types, and a task is storing while a store is pending.
LEMMA NextRateTypeOK ==
    ASSUME RateTypeOK, [RateNext]_rateVars PROVE RateTypeOK'
<1> USE LimitAssumption, RateBoundAssumption, SecondsNat
    DEF RateTypeOK, TaskState, Storing, At, IdleTask, Goes, Inc
<1>1. CASE SecondPasses
  <2>1. secs + 1 \in Seconds BY <1>1 DEF SecondPasses, Seconds
  <2> QED BY <1>1, <2>1 DEF SecondPasses
<1>2. CASE \E t \in Tasks : ReadClock(t) BY <1>2 DEF ReadClock
<1>3. CASE \E t \in Tasks : LoadWindow(t) BY <1>3 DEF LoadWindow, WindowIsOver
<1>4. CASE \E t \in Tasks : StoreWindow(t) BY <1>4 DEF StoreWindow, Stored
<1>5. CASE \E t \in Tasks : StoreCount(t) BY <1>5 DEF StoreCount, Stored, OpenCount
<1>6. CASE \E t \in Tasks : FetchAdd(t) BY <1>6 DEF FetchAdd, UnderLimit
<1>7. CASE UNCHANGED rateVars BY <1>7 DEF rateVars
<1> QED BY <1>1, <1>2, <1>3, <1>4, <1>5, <1>6, <1>7 DEF RateNext

\* The window is never ahead of the clock, and a window that is stored, counted
\* in or refused in has been opened by some request.
LEMMA NextOpened ==
    ASSUME RateTypeOK, REG_WINDOW <= secs, \A t \in Tasks : ts[t].now <= secs,
           OpenedByTurn, [RateNext]_rateVars
    PROVE  /\ REG_WINDOW' <= secs'
           /\ \A t \in Tasks : ts'[t].now <= secs'
           /\ OpenedByTurn'
<1> USE SecondsNat DEF RateTypeOK, TaskState, Storing, At, IdleTask, Goes, Inc, OpenedByTurn,
            NoSecondRefusesAll
<1>1. CASE SecondPasses BY <1>1 DEF SecondPasses
<1>2. CASE \E t \in Tasks : ReadClock(t) BY <1>2 DEF ReadClock
<1>3. CASE \E t \in Tasks : LoadWindow(t) BY <1>3 DEF LoadWindow, WindowIsOver
<1>4. CASE \E t \in Tasks : StoreWindow(t) BY <1>4 DEF StoreWindow, Stored
<1>5. CASE \E t \in Tasks : StoreCount(t) BY <1>5 DEF StoreCount, Stored, OpenCount
<1>6. CASE \E t \in Tasks : FetchAdd(t) BY <1>6 DEF FetchAdd, UnderLimit
<1>7. CASE UNCHANGED rateVars BY <1>7 DEF rateVars
<1> QED BY <1>1, <1>2, <1>3, <1>4, <1>5, <1>6, <1>7 DEF RateNext

\* One more store allows Limit - 1 more.
LEMMA OneMoreStore ==
    ASSUME NEW n \in Nat PROVE (Limit - 1) * (n + 1) = (Limit - 1) * n + (Limit - 1)
BY LimitAssumption

\* No step lets the count exceed the budget of a second.
LEMMA NextBudget ==
    ASSUME RateTypeOK, Budget, \A t \in Tasks : ts'[t].now <= secs', [RateNext]_rateVars
    PROVE  Budget'
<1> USE LimitAssumption, RateBoundAssumption, SecondsNat
    DEF RateTypeOK, TaskState, Storing, At, IdleTask, Goes, Inc, Budget, CountLeft
<1>1. CASE SecondPasses BY <1>1 DEF SecondPasses
<1>2. CASE \E t \in Tasks : ReadClock(t) BY <1>2 DEF ReadClock
<1>3. CASE \E t \in Tasks : LoadWindow(t) BY <1>3 DEF LoadWindow
<1>4. CASE \E t \in Tasks : StoreWindow(t) BY <1>4 DEF StoreWindow
<1>5. CASE \E t \in Tasks : StoreCount(t)
  <2>1. \A s \in Seconds : stores'[s] = IF s <= secs THEN stores[s] + 1 ELSE stores[s]
        BY <1>5 DEF StoreCount
  <2>2. REG_COUNT' = 1 /\ addsIn' = addsIn /\ secs' = secs
        BY <1>5 DEF StoreCount, OpenCount
  <2>3. ASSUME NEW s \in Seconds
        PROVE addsIn'[s] + CountLeft' <= Limit + (Limit - 1) * stores'[s]
    <3>1. CASE s <= secs
      <4>1. (Limit - 1) * stores'[s] = (Limit - 1) * stores[s] + (Limit - 1)
            BY <3>1, <2>1, OneMoreStore
      <4>2. PICK k \in Int : k = (Limit - 1) * stores[s]
            OBVIOUS
      <4>3. addsIn[s] <= Limit + k /\ addsIn[s] \in Nat
            BY <4>2
      <4>4. CountLeft' = Limit - 1
            BY <2>2
      <4> QED BY <4>1, <4>2, <4>3, <4>4, <2>2
    <3>2. CASE s > secs
      <4>0. addsIn[s] = 0 /\ stores[s] = 0 BY <3>2
      <4>1. addsIn'[s] = 0 /\ stores'[s] = 0
            BY <4>0, <3>2, <2>1, <2>2
      <4>2. (Limit - 1) * stores'[s] = 0 BY <4>1
      <4> QED BY <4>1, <4>2, <2>2
    <3> QED BY <3>1, <3>2
  <2>4. \A s \in Seconds : s > secs' => addsIn'[s] = 0 /\ stores'[s] = 0
        BY <2>1, <2>2
  <2> QED BY <2>3, <2>4
<1>6. CASE \E t \in Tasks : FetchAdd(t)
  <2>1. PICK t \in Tasks : FetchAdd(t) BY <1>6
  <2>2. stores' = stores /\ secs' = secs /\ REG_COUNT' = REG_COUNT + 1
        BY <2>1 DEF FetchAdd
  <2>3. \A s \in Seconds : s > secs' => addsIn'[s] = 0 /\ stores'[s] = 0
        BY <2>1, <2>2 DEF FetchAdd
  <2>4. ASSUME NEW s \in Seconds
        PROVE addsIn'[s] + CountLeft' <= Limit + (Limit - 1) * stores'[s]
    <3>1. PICK k : k = (Limit - 1) * stores[s] OBVIOUS
    <3>2. k \in Int BY <3>1
    <3>3. addsIn[s] + CountLeft <= Limit + k BY <3>1
    <3>4. addsIn'[s] + CountLeft' <= addsIn[s] + CountLeft
          BY <2>1 DEF FetchAdd, UnderLimit
    <3>5. addsIn'[s] + CountLeft' \in Int /\ addsIn[s] + CountLeft \in Int
          BY <2>1 DEF FetchAdd, UnderLimit
    <3> QED BY <3>1, <3>2, <3>3, <3>4, <3>5, <2>2
  <2> QED BY <2>3, <2>4
<1>7. CASE UNCHANGED rateVars BY <1>7 DEF rateVars
<1> QED BY <1>1, <1>2, <1>3, <1>4, <1>5, <1>6, <1>7 DEF RateNext

\* Requests that run one at a time find the atomics in step with what passed.
LEMMA NextAligned ==
    ASSUME RateTypeOK, REG_WINDOW <= secs, Aligned, [RateNext]_rateVars PROVE Aligned'
<1> SUFFICES ASSUME ~overlapped' PROVE Aligned'
    BY DEF Aligned
<1> USE LimitAssumption, RateBoundAssumption, SecondsNat
    DEF RateTypeOK, TaskState, Storing, At, IdleTask, Goes, Inc, Exact, AdmittedIn,
        Alone, Counted, Untouched
<1>1. CASE SecondPasses BY <1>1 DEF SecondPasses, Aligned
<1>2. CASE \E t \in Tasks : ReadClock(t)
  <2>1. PICK t \in Tasks : ReadClock(t) BY <1>2
  <2>2. ~overlapped /\ \A u \in Tasks : ts[u].pc = "idle"
        BY <2>1, Zenon DEF ReadClock
  <2>3. Counted BY <2>2 DEF Aligned
  <2>4. \A u \in Tasks : ts'[u] = IF u = t THEN At("load", secs) ELSE ts[u]
        BY <2>1 DEF ReadClock
  <2> QED BY <2>1, <2>2, <2>3, <2>4 DEF ReadClock, Aligned
<1>3. CASE \E t \in Tasks : LoadWindow(t)
  <2>1. PICK t \in Tasks : LoadWindow(t) BY <1>3
  <2>2. ~overlapped BY <2>1 DEF LoadWindow
  <2>3. \A u \in Tasks \ {t} : ts[u].pc = "idle" /\ ts'[u] = ts[u]
        BY <2>1, <2>2 DEF LoadWindow, Aligned
  <2>4. ts[t].now >= REG_WINDOW /\ Counted /\ ts[t].now \in Seconds
        BY <2>1, <2>2 DEF LoadWindow, Aligned
  <2>5. CASE REG_WINDOW # ts[t].now
    <3>1. /\ ts'[t] = At("store", ts[t].now)
          /\ turnsIn' = [turnsIn EXCEPT ![ts[t].now] = @ + 1]
          /\ UNCHANGED <<REG_WINDOW, REG_COUNT, addsIn, refusedIn, overlapped>>
          BY <2>1, <2>5 DEF LoadWindow, WindowIsOver
    <3>2. ts[t].now > REG_WINDOW /\ Untouched(ts[t].now)
          BY <2>4, <2>5
    <3>3. \A s \in Seconds : s > ts[t].now => Untouched(s)'
          BY <2>4, <3>1
    <3>4. Alone(t)'
      <4>1. PICK n \in Seconds : n = ts[t].now BY <2>4
      <4>2. ts'[t].pc = "store" /\ ts'[t].now = n BY <3>1, <4>1
      <4>3. turnsIn'[n] = 1 /\ addsIn'[n] = 0 /\ refusedIn'[n] = 0 /\ n > REG_WINDOW'
            BY <3>1, <3>2, <4>1
      <4>4. \A s \in Seconds : s > n => Untouched(s)' BY <3>3, <4>1
      <4> HIDE DEF Untouched, Counted
      <4> QED BY <4>2, <4>3, <4>4
    <3>5. \A s \in Seconds : Exact(s)'
          BY <2>2, <3>1, <3>2 DEF Aligned
    <3>6. \A u \in Tasks \ {t} : Alone(u)' BY <2>3
    <3>7. \A u \in Tasks : Alone(u)' BY <3>4, <3>6
    <3>8. ts'[t].pc # "idle" /\ \A u \in Tasks \ {t} : ts'[u].pc = "idle" BY <2>3, <3>1
    <3> HIDE DEF Alone, Counted, Exact
    <3> QED BY <3>5, <3>7, <3>8 DEF Aligned
  <2>6. CASE REG_WINDOW = ts[t].now
        BY <2>1, <2>2, <2>3, <2>4, <2>6 DEF LoadWindow, Aligned, WindowIsOver
  <2> QED BY <2>5, <2>6
<1>4. CASE \E t \in Tasks : StoreWindow(t)
  <2>1. PICK t \in Tasks : StoreWindow(t) BY <1>4
  <2>2. ~overlapped /\ ts[t].pc \in Storing BY <2>1 DEF StoreWindow
  <2>3. \A u \in Tasks \ {t} : ts[u].pc = "idle" /\ ts'[u] = ts[u]
        BY <2>1, <2>2 DEF StoreWindow, Aligned
  <2>4. CASE ts[t].pc = "store_window"
    <3>1. /\ ts'[t] = IdleTask /\ REG_WINDOW' = ts[t].now
          /\ UNCHANGED <<REG_COUNT, turnsIn, addsIn, refusedIn, overlapped>>
          BY <2>1, <2>4 DEF StoreWindow, Stored
    <3>2. /\ turnsIn[ts[t].now] = 1 /\ addsIn[ts[t].now] = 0 /\ REG_COUNT = 1
          /\ \A s \in Seconds : s > ts[t].now => Untouched(s)
          BY <2>2, <2>4 DEF Aligned
    <3>3. ts[t].now \in Seconds BY <2>4
    <3>4. Counted' BY <3>1, <3>2, <3>3
    <3> QED BY <2>2, <2>3, <3>1, <3>4 DEF Aligned
  <2>5. CASE ts[t].pc = "store"
        BY <2>1, <2>2, <2>3, <2>5 DEF StoreWindow, Aligned, Stored
  <2> QED BY <2>1, <2>4, <2>5 DEF StoreWindow
<1>5. CASE \E t \in Tasks : StoreCount(t)
  <2>1. PICK t \in Tasks : StoreCount(t) BY <1>5
  <2>2. ~overlapped /\ ts[t].pc \in Storing BY <2>1 DEF StoreCount
  <2>3. \A u \in Tasks \ {t} : ts[u].pc = "idle" /\ ts'[u] = ts[u]
        BY <2>1, <2>2 DEF StoreCount, Aligned
  <2>4. CASE ts[t].pc = "store_count"
        BY <2>1, <2>2, <2>3, <2>4 DEF StoreCount, Aligned, Stored, OpenCount
  <2>5. CASE ts[t].pc = "store"
        BY <2>1, <2>2, <2>3, <2>5 DEF StoreCount, Aligned, Stored, OpenCount
  <2> QED BY <2>1, <2>4, <2>5 DEF StoreCount
<1>6. CASE \E t \in Tasks : FetchAdd(t)
  <2>1. PICK t \in Tasks : FetchAdd(t) BY <1>6
  <2>2. ~overlapped BY <2>1 DEF FetchAdd
  <2>3. \A u \in Tasks \ {t} : ts[u].pc = "idle" /\ ts'[u] = ts[u]
        BY <2>1, <2>2 DEF FetchAdd, Aligned
  <2>4. ts[t].now = REG_WINDOW /\ Counted /\ ts[t].now \in Seconds
        BY <2>1, <2>2 DEF FetchAdd, Aligned
  <2> QED BY <2>1, <2>2, <2>3, <2>4 DEF FetchAdd, Aligned, UnderLimit
<1>7. CASE UNCHANGED rateVars BY <1>7 DEF rateVars, Aligned
<1> QED BY <1>1, <1>2, <1>3, <1>4, <1>5, <1>6, <1>7 DEF RateNext

\* RateInv is an invariant of the limiter.
LEMMA RateLimiterInductive == RateSpec => []RateInv
<1>1. ASSUME RateInv, [RateNext]_rateVars PROVE RateInv'
      BY <1>1, NextRateTypeOK, NextOpened, NextBudget, NextAligned DEF RateInv, Budget
<1> QED BY <1>1, InitRateInv, PTL DEF RateSpec

\* rate_limit_ok is exact as long as requests do not overlap.
THEOREM LimitExact == RateSpec => []ExactWithoutOverlap
<1>1. RateInv => ExactWithoutOverlap BY DEF RateInv, Aligned, Exact, ExactWithoutOverlap
<1> QED BY <1>1, RateLimiterInductive, PTL

\* rate_limit_ok never turns away all the requests of a second.
THEOREM SomeonePasses == RateSpec => []NoSecondRefusesAll
<1>1. RateInv => NoSecondRefusesAll BY DEF RateInv, OpenedByTurn
<1> QED BY <1>1, RateLimiterInductive, PTL

\* What overlapping requests of rate_limit_ok can let through is bounded by the
\* stores of REG_COUNT.
THEOREM OverrunBounded == RateSpec => []OverrunIsBounded
<1>1. ASSUME RateInv, NEW s \in Seconds PROVE addsIn[s] <= Limit + (Limit - 1) * stores[s]
  <2>1. PICK k : k = (Limit - 1) * stores[s] OBVIOUS
  <2>2. k \in Int BY <1>1, <2>1, LimitAssumption DEF RateInv, RateTypeOK
  <2>3. addsIn[s] + CountLeft <= Limit + k BY <1>1, <2>1 DEF RateInv, Budget
  <2>4. CountLeft \in Nat /\ addsIn[s] \in Nat
        BY <1>1, LimitAssumption DEF RateInv, RateTypeOK, CountLeft
  <2> QED BY <2>1, <2>2, <2>3, <2>4, LimitAssumption
<1>2. RateInv => OverrunIsBounded BY <1>1 DEF OverrunIsBounded
<1> QED BY <1>2, RateLimiterInductive, PTL

-----------------------------------------------------------------------------
(* Recursion and induction over a measure *)

\* A nonempty set of natural numbers has a least one.
LEMMA LeastNumber ==
    ASSUME NEW T \in SUBSET Nat, T # {}
    PROVE  \E x \in T : \A y \in T : x <= y
  <1> DEFINE R == {ss \in Nat \X Nat : ss[1] < ss[2]}
  <1>1. IsWellFoundedOn(R, Nat)
    BY NatLessThanWellFounded, Zenon DEF OpToRel
  <1> HIDE DEF R
  <1>2. PICK x \in T : \A y \in T : ~(<<y, x>> \in R)
    BY <1>1, WFMin, Zenon
  <1>3. \A y \in T : ~(y < x)
    BY <1>2, Zenon DEF R
  <1> QED
    BY <1>3

\* Induction over the natural numbers, for a set of them.
LEMMA EveryNumber ==
    ASSUME NEW G, 0 \in G, \A n \in Nat : n \in G => n + 1 \in G
    PROVE  Nat \subseteq G
  <1> SUFFICES ASSUME Nat \ G # {} PROVE FALSE
    OBVIOUS
  <1>1. PICK n \in Nat \ G : \A m \in Nat \ G : n <= m
    BY LeastNumber, Zenon
  <1>2. n # 0 /\ n - 1 \in Nat
    BY <1>1
  <1>3. n - 1 \in G
    BY <1>1, <1>2
  <1> QED
    BY <1>1, <1>2, <1>3

\* Induction over the elements of a set with heights.
LEMMA EveryElement ==
    ASSUME NEW T, NEW H \in [T -> Nat], NEW G,
           \A t \in T : (\A s \in T : H[s] < H[t] => s \in G) => t \in G
    PROVE  T \subseteq G
  <1> SUFFICES ASSUME T \ G # {} PROVE FALSE
    OBVIOUS
  <1> DEFINE hs == {H[t] : t \in T \ G}
  <1>1. hs \in SUBSET Nat /\ hs # {}
    OBVIOUS
  <1>2. PICK h \in hs : \A k \in hs : h <= k
    BY <1>1, LeastNumber, Zenon
  <1>3. PICK t \in T \ G : h = H[t]
    BY <1>2
  <1>4. \A s \in T : H[s] < H[t] => s \in G
    <2> SUFFICES ASSUME NEW s \in T, H[s] < H[t], s \notin G PROVE FALSE
      OBVIOUS
    <2>1. H[s] \in hs
      OBVIOUS
    <2>2. H[t] <= H[s]
      BY <1>2, <1>3, <2>1
    <2> QED
      BY <2>2
  <1> QED
    BY <1>3, <1>4

\* F takes an element of T and a function from T to V, and looks at that function
\* below the element only.
LooksBelow(T, H, V, F) ==
    /\ H \in [T -> Nat]
    /\ V # {}
    /\ \A t \in T : \A f \in [T -> V] : F[<<t, f>>] \in V
    /\ \A t \in T : \A f, g \in [T -> V] :
          (\A s \in T : H[s] < H[t] => f[s] = g[s]) => F[<<t, f>>] = F[<<t, g>>]

\* The functions that F defines.
Defined(T, V, F) == {f \in [T -> V] : \A t \in T : f[t] = F[<<t, f>>]}

\* F defines a function by what it is on lower elements.
LEMMA Recursion ==
    ASSUME NEW T, NEW H, NEW V, NEW F, LooksBelow(T, H, V, F)
    PROVE  Defined(T, V, F) # {}
  <1> USE DEF LooksBelow, Defined
  <1> DEFINE Good(n) == {f \in [T -> V] : \A t \in T : H[t] < n => f[t] = F[<<t, f>>]}
             G == {n \in Nat : Good(n) # {}}
  <1>1. \A n \in Nat : Good(n) # {}
    <2>1. 0 \in G
      <3>1. PICK d : d \in V
        OBVIOUS
      <3>2. [t \in T |-> d] \in Good(0)
        BY <3>1
      <3> QED
        BY <3>2
    <2>2. ASSUME NEW n \in Nat, n \in G PROVE n + 1 \in G
      <3>1. PICK f : f \in Good(n)
        BY <2>2
      <3> DEFINE g == [t \in T |-> IF H[t] < n THEN f[t] ELSE F[<<t, f>>]]
      <3>2. g \in [T -> V]
        BY <3>1
      <3>3. ASSUME NEW t \in T, H[t] < n + 1 PROVE g[t] = F[<<t, g>>]
        <4>1. \A s \in T : H[s] < H[t] => g[s] = f[s]
          BY <3>3
        <4>2. F[<<t, g>>] = F[<<t, f>>]
          BY <3>1, <3>2, <4>1, Zenon
        <4>3. g[t] = F[<<t, f>>]
          BY <3>1
        <4> QED
          BY <4>2, <4>3
      <3>4. g \in Good(n + 1)
        BY <3>2, <3>3, Zenon
      <3>5. n + 1 \in Nat
        OBVIOUS
      <3> HIDE DEF Good, g
      <3> QED
        BY <3>4, <3>5
    <2>3. Nat \subseteq G
      <3> HIDE DEF G
      <3> QED
        BY <2>1, <2>2, EveryNumber
    <2> QED
      BY <2>3
  <1>2. ASSUME NEW n \in Nat, NEW f \in Good(n), NEW g \in Good(n)
        PROVE  \A t \in T : H[t] < n => f[t] = g[t]
    <2> DEFINE E == {t \in T : H[t] < n => f[t] = g[t]}
    <2>1. ASSUME NEW t \in T, \A s \in T : H[s] < H[t] => s \in E
          PROVE  t \in E
      <3> SUFFICES ASSUME H[t] < n PROVE f[t] = g[t]
        OBVIOUS
      <3>1. \A s \in T : H[s] < H[t] => f[s] = g[s]
        BY <2>1
      <3>2. F[<<t, f>>] = F[<<t, g>>]
        BY <3>1
      <3> QED
        BY <3>2
    <2>2. T \subseteq E
      <3> HIDE DEF E
      <3> QED
        BY <2>1, EveryElement
    <2> QED
      BY <2>2
  <1> DEFINE best(t) == CHOOSE g : g \in Good(H[t] + 1)
             f == [t \in T |-> best(t)[t]]
  <1>3. \A t \in T : best(t) \in Good(H[t] + 1)
    <2> SUFFICES ASSUME NEW t \in T PROVE best(t) \in Good(H[t] + 1)
      BY Zenon
    <2>1. Good(H[t] + 1) # {}
      BY <1>1
    <2> HIDE DEF Good
    <2> QED
      BY <2>1
  <1>4. f \in [T -> V]
    BY <1>3
  <1>5. ASSUME NEW t \in T PROVE f[t] = F[<<t, f>>]
    <2> DEFINE g == best(t)
    <2>1. g \in Good(H[t] + 1)
      BY <1>3, Zenon
    <2>2. ASSUME NEW s \in T, H[s] < H[t] PROVE f[s] = g[s]
      <3>1. g \in Good(H[s] + 1)
        BY <2>1, <2>2
      <3>2. best(s) \in Good(H[s] + 1)
        BY <1>3, Zenon
      <3>3. H[s] + 1 \in Nat /\ H[s] < H[s] + 1
        OBVIOUS
      <3> HIDE DEF Good, g, best
      <3>4. best(s)[s] = g[s]
        BY <1>2, <3>1, <3>2, <3>3
      <3> QED
        BY <3>4
    <2>3. F[<<t, f>>] = F[<<t, g>>]
      <3>1. g \in [T -> V]
        BY <2>1
      <3> HIDE DEF f, g
      <3> QED
        BY <1>4, <2>2, <3>1
    <2>4. g[t] = F[<<t, g>>]
      BY <2>1
    <2> QED
      BY <2>3, <2>4
  <1> QED
    BY <1>4, <1>5, Zenon

-----------------------------------------------------------------------------
(* The trees *)

\* The parts of a text are texts, and lower.
LEMMA PartsLower ==
    ASSUME NEW t \in Texts
    PROVE  /\ Parts(t) \subseteq Texts
           /\ \A p \in Parts(t) : Height[p] < Height[t]
  <1>1. CASE t[1] = "array"
    <2>1. Parts(t) = {t[2][i] : i \in DOMAIN t[2]} /\ t[2] \in Seq(Texts)
      BY <1>1, TreeAssumption DEF Parts
    <2> QED
      BY <2>1, TreeAssumption
  <1>2. CASE t[1] = "object"
    <2>1. Parts(t) = {t[2][i][2] : i \in DOMAIN t[2]} /\ t[2] \in Seq(Nat \X Texts)
      BY <1>2, TreeAssumption DEF Parts
    <2> QED
      BY <2>1, TreeAssumption
  <1>3. CASE t[1] \notin {"array", "object"}
    <2>1. Parts(t) = {}
      BY <1>3 DEF Parts
    <2> QED
      BY <2>1
  <1> QED
    BY <1>1, <1>2, <1>3

\* Subtexts is what its definition says.
LEMMA SubtextsDef ==
    /\ Subtexts \in [Texts -> SUBSET Texts]
    /\ \A t \in Texts : Subtexts[t] = {t} \cup UNION {Subtexts[p] : p \in Parts(t)}
  <1> DEFINE V == SUBSET Texts
             B(t, f) == {t} \cup UNION {f[p] : p \in Parts(t)}
             F == [x \in Texts \X [Texts -> V] |-> B(x[1], x[2])]
  <1>1. \A t \in Texts : \A f \in [Texts -> V] : B(t, f) \in V
    <2> TAKE t \in Texts
    <2> TAKE f \in [Texts -> V]
    <2>1. \A p \in Parts(t) : f[p] \subseteq Texts
      BY PartsLower
    <2> SUFFICES ASSUME NEW x \in B(t, f) PROVE x \in Texts
      OBVIOUS
    <2> QED
      BY <2>1
  <1>2. ASSUME NEW t \in Texts, NEW f \in [Texts -> V], NEW g \in [Texts -> V],
               \A s \in Texts : Height[s] < Height[t] => f[s] = g[s]
        PROVE  B(t, f) = B(t, g)
    <2>1. \A p \in Parts(t) : f[p] = g[p]
      BY <1>2, PartsLower
    <2>2. {f[p] : p \in Parts(t)} = {g[p] : p \in Parts(t)}
      BY <2>1
    <2> QED
      BY <2>2, Zenon
  <1>3. PICK f \in [Texts -> V] : \A t \in Texts : f[t] = B(t, f)
    <2> HIDE DEF B
    <2>1. \A t \in Texts : \A f \in [Texts -> V] : F[<<t, f>>] = B(t, f)
      BY Zenon
    <2> HIDE DEF F
    <2>2. V # {} /\ Height \in [Texts -> Nat]
      BY TreeAssumption
    <2> HIDE DEF V
    <2>3. LooksBelow(Texts, Height, V, F)
      BY <1>1, <1>2, <2>1, <2>2 DEF LooksBelow
    <2>4. Defined(Texts, V, F) # {}
      BY <2>3, Recursion, Zenon
    <2> QED
      BY <2>1, <2>4, Zenon DEF Defined
  <1>4. f = [t \in Texts |-> B(t, f)]
    <2> HIDE DEF B
    <2> QED
      BY <1>3, Zenon
  <1>5. Subtexts = [t \in Texts |-> B(t, Subtexts)]
    BY <1>4, Zenon DEF Subtexts
  <1>6. \A t \in Texts : Subtexts[t] = B(t, Subtexts)
    <2> HIDE DEF B
    <2> QED
      BY <1>5, Zenon
  <1>7. Texts \subseteq {t \in Texts : Subtexts[t] \subseteq Texts}
    <2> DEFINE G == {t \in Texts : Subtexts[t] \subseteq Texts}
    <2>1. ASSUME NEW t \in Texts, \A s \in Texts : Height[s] < Height[t] => s \in G
          PROVE  t \in G
      <3>1. \A p \in Parts(t) : Subtexts[p] \subseteq Texts
        BY <2>1, PartsLower
      <3>2. B(t, Subtexts) \subseteq Texts
        BY <3>1
      <3> QED
        BY <1>6, <3>2
    <2> HIDE DEF G
    <2>2. Texts \subseteq G
      BY <2>1, EveryElement, TreeAssumption
    <2> QED
      BY <2>2 DEF G
  <1>8. Subtexts \in [Texts -> SUBSET Texts]
    <2>1. \A t \in Texts : B(t, Subtexts) \in SUBSET Texts
      BY <1>6, <1>7, Zenon
    <2> HIDE DEF B
    <2> QED
      BY <1>5, <2>1, Zenon
  <1> QED
    BY <1>6, <1>8

-----------------------------------------------------------------------------
(* StrictVisitor *)

Clean(t) == \A s \in Subtexts[t] : ~Ambiguous(s)

\* A text is clean if it is so at its top and in all its parts.
LEMMA CleanParts ==
    ASSUME NEW t \in Texts
    PROVE  Clean(t) <=> ~Ambiguous(t) /\ \A p \in Parts(t) : Clean(p)
  <1>1. Subtexts[t] = {t} \cup UNION {Subtexts[p] : p \in Parts(t)}
    BY SubtextsDef
  <1> QED
    BY <1>1, Zenon DEF Clean

\* The value of a result that holds one.
LEMMA UnwrapOk == \A v : Unwrap({v}) = v
  BY DEF Unwrap

Verdict(t) == IF Clean(t) THEN {t} ELSE {}

\* visit_seq keeps the items if all are clean, and fails if not.
LEMMA ReadsArray ==
    ASSUME NEW t \in Texts, t[1] = "array", NEW f, \A p \in Parts(t) : f[p] = Verdict(p)
    PROVE  StrictVisitor(t, f) = Verdict(t)
  <1> DEFINE results == [i \in DOMAIN t[2] |-> f[t[2][i]]]
  <1>1. t[2] \in Seq(Texts) /\ t = <<"array", t[2]>>
    BY TreeAssumption
  <1>2. Parts(t) = {t[2][i] : i \in DOMAIN t[2]}
    BY DEF Parts
  <1>3. StrictVisitor(t, f) = {<<"array", items>> : items \in visit_seq(results)}
    BY DEF StrictVisitor
  <1>4. \A i \in DOMAIN t[2] : results[i] = Verdict(t[2][i])
    BY <1>2
  <1>5. Clean(t) <=> \A i \in DOMAIN t[2] : Clean(t[2][i])
    <2>1. ~Ambiguous(t)
      BY DEF Ambiguous
    <2> QED
      BY <1>2, <2>1, CleanParts
  <1>6. DOMAIN results = DOMAIN t[2]
    OBVIOUS
  <1> HIDE DEF results
  <1>7. CASE Clean(t)
    <2>1. \A i \in DOMAIN t[2] : results[i] = {t[2][i]}
      BY <1>4, <1>5, <1>7, Zenon DEF Verdict
    <2>2. visit_seq(results) = {[i \in DOMAIN t[2] |-> Unwrap(results[i])]}
      BY <1>6, <2>1, Zenon DEF visit_seq, Err, Ok
    <2>3. [i \in DOMAIN t[2] |-> Unwrap(results[i])] = t[2]
      <3>1. \A i \in DOMAIN t[2] : Unwrap(results[i]) = t[2][i]
        BY <2>1, UnwrapOk, Zenon
      <3>2. t[2] = [i \in DOMAIN t[2] |-> t[2][i]]
        BY <1>1
      <3> QED
        BY <3>1, <3>2, Zenon
    <2>4. {<<"array", items>> : items \in {t[2]}} = {<<"array", t[2]>>}
      BY Zenon
    <2> QED
      BY <1>1, <1>3, <1>7, <2>2, <2>3, <2>4, Zenon DEF Verdict
  <1>8. CASE ~Clean(t)
    <2>1. \E i \in DOMAIN results : results[i] = {}
      BY <1>4, <1>5, <1>6, <1>8, Zenon DEF Verdict
    <2>2. visit_seq(results) = {}
      BY <2>1 DEF visit_seq, Err
    <2> QED
      BY <1>3, <1>8, <2>2 DEF Verdict
  <1> QED
    BY <1>7, <1>8

\* So does visit_map, which fails for a key that was seen as well.
LEMMA ReadsObject ==
    ASSUME NEW t \in Texts, t[1] = "object", NEW f, \A p \in Parts(t) : f[p] = Verdict(p)
    PROVE  StrictVisitor(t, f) = Verdict(t)
  <1> DEFINE keys == [i \in DOMAIN t[2] |-> t[2][i][1]]
             results == [i \in DOMAIN t[2] |-> f[t[2][i][2]]]
             seen(i) == keys[i] \in {keys[k] : k \in 1 .. i - 1}
  <1>1. t[2] \in Seq(Nat \X Texts) /\ t = <<"object", t[2]>>
    BY TreeAssumption
  <1>2. Parts(t) = {t[2][i][2] : i \in DOMAIN t[2]}
    BY DEF Parts
  <1>3. StrictVisitor(t, f) = {<<"object", map>> : map \in visit_map(keys, results)}
    BY DEF StrictVisitor
  <1>4. \A i \in DOMAIN t[2] : results[i] = Verdict(t[2][i][2])
    BY <1>2
  <1>5. (\E i \in DOMAIN t[2] : seen(i)) <=> Ambiguous(t)
    <2>1. DOMAIN t[2] = 1 .. Len(t[2]) /\ Len(t[2]) \in Nat
      BY <1>1
    <2>2. Ambiguous(t) <=> \E i, j \in DOMAIN t[2] : i # j /\ t[2][i][1] = t[2][j][1]
      BY DEF Ambiguous
    <2>3. ASSUME NEW i \in DOMAIN t[2]
          PROVE  seen(i) <=> \E k \in 1 .. i - 1 : t[2][i][1] = t[2][k][1]
      <3>1. \A k \in 1 .. i - 1 : k \in DOMAIN t[2]
        BY <2>1
      <3>2. keys[i] = t[2][i][1] /\ \A k \in 1 .. i - 1 : keys[k] = t[2][k][1]
        BY <3>1, Zenon
      <3> HIDE DEF keys
      <3> QED
        BY <3>2, Zenon
    <2>4. \A i, j \in DOMAIN t[2] : i # j => i \in 1 .. j - 1 \/ j \in 1 .. i - 1
      BY <2>1
    <2>5. \A i \in DOMAIN t[2] : \A k \in 1 .. i - 1 : k \in DOMAIN t[2] /\ k # i
      BY <2>1
    <2> HIDE DEF seen, keys
    <2> QED
      BY <2>2, <2>3, <2>4, <2>5, Zenon
  <1>6. Clean(t) <=> /\ ~\E i \in DOMAIN t[2] : seen(i)
                     /\ \A i \in DOMAIN t[2] : Clean(t[2][i][2])
    BY <1>2, <1>5, CleanParts
  <1>7. DOMAIN keys = DOMAIN t[2]
    OBVIOUS
  <1>8. \A i \in DOMAIN t[2] : t[2][i] = <<keys[i], t[2][i][2]>>
    BY <1>1
  <1> HIDE DEF results, keys
  <1>9. CASE Clean(t)
    <2>1. \A i \in DOMAIN t[2] : results[i] = {t[2][i][2]} /\ ~seen(i)
      BY <1>4, <1>6, <1>9, Zenon DEF Verdict
    <2>2. visit_map(keys, results) = {[i \in DOMAIN t[2] |-> <<keys[i], Unwrap(results[i])>>]}
      BY <1>7, <2>1, Zenon DEF visit_map, Err, Ok
    <2>3. [i \in DOMAIN t[2] |-> <<keys[i], Unwrap(results[i])>>] = t[2]
      <3>1. \A i \in DOMAIN t[2] : <<keys[i], Unwrap(results[i])>> = t[2][i]
        BY <1>8, <2>1, UnwrapOk, Zenon
      <3>2. t[2] = [i \in DOMAIN t[2] |-> t[2][i]]
        BY <1>1
      <3> QED
        BY <3>1, <3>2, Zenon
    <2>4. {<<"object", map>> : map \in {t[2]}} = {<<"object", t[2]>>}
      BY Zenon
    <2> QED
      BY <1>1, <1>3, <1>9, <2>2, <2>3, <2>4, Zenon DEF Verdict
  <1>10. CASE ~Clean(t)
    <2>1. \E i \in DOMAIN keys : seen(i) \/ results[i] = {}
      BY <1>4, <1>6, <1>7, <1>10, Zenon DEF Verdict
    <2>2. visit_map(keys, results) = {}
      BY <2>1 DEF visit_map, Err
    <2> QED
      BY <1>3, <1>10, <2>2 DEF Verdict
  <1> QED
    BY <1>9, <1>10

\* If the parts are read as they should be, so is the whole.
LEMMA ReadsPart ==
    ASSUME NEW t \in Texts, NEW f, \A p \in Parts(t) : f[p] = Verdict(p)
    PROVE  StrictVisitor(t, f) = Verdict(t)
  <1>1. CASE t[1] = "array"
    BY <1>1, ReadsArray, Zenon
  <1>2. CASE t[1] = "object"
    BY <1>2, ReadsObject, Zenon
  <1>3. CASE t[1] \notin {"array", "object"}
    <2>1. Parts(t) = {}
      BY <1>3 DEF Parts
    <2>2. Clean(t) <=> ~Ambiguous(t)
      BY <2>1, CleanParts, Zenon
    <2>3. CASE t[1] = "integer"
      <3>1. t = <<"integer", t[2]>> /\ t[2] \in Int
        BY <2>3, TreeAssumption
      <3>2. StrictVisitor(t, f) = visit_integer(t[2])
        BY <2>3 DEF StrictVisitor
      <3>3. Ambiguous(t) <=> t[2] > I64_MAX \/ t[2] < -I64_MAX - 1
        BY <2>3, <3>1, TreeAssumption DEF Ambiguous
      <3> QED
        BY <2>2, <3>1, <3>2, <3>3, Zenon DEF visit_integer, Verdict, Err, Ok
    <2>4. CASE t[1] = "float"
      BY <2>2, <2>4 DEF StrictVisitor, Ambiguous, Verdict, Err
    <2>5. CASE t[1] \notin {"integer", "float"}
      <3>1. StrictVisitor(t, f) = {t}
        BY <1>3, <2>5 DEF StrictVisitor, Ok
      <3>2. ~Ambiguous(t)
        BY <1>3, <2>5 DEF Ambiguous
      <3> QED
        BY <2>2, <3>1, <3>2, Zenon DEF Verdict
    <2> QED
      BY <2>3, <2>4, <2>5
  <1> QED
    BY <1>1, <1>2, <1>3

\* StrictValue yields the text itself if it is clean, and an error if not.
LEMMA ReadsTrue == \A t \in Texts : StrictValue[t] = Verdict(t)
  <1> DEFINE f == [t \in Texts |-> Verdict(t)]
  <1>1. \A t \in Texts : StrictVisitor(t, f) = Verdict(t)
    <2> SUFFICES ASSUME NEW t \in Texts PROVE StrictVisitor(t, f) = Verdict(t)
      BY Zenon
    <2>1. \A p \in Parts(t) : f[p] = Verdict(p)
      BY PartsLower
    <2> HIDE DEF f
    <2> QED
      BY <2>1, ReadsPart, Zenon
  <1>2. f = [t \in Texts |-> StrictVisitor(t, f)]
    <2>1. \A t \in Texts : f[t] = StrictVisitor(t, f)
      BY <1>1, Zenon
    <2> QED
      BY <1>1, <2>1, Zenon
  <1> HIDE DEF f
  <1>3. StrictValue = [t \in Texts |-> StrictVisitor(t, StrictValue)]
    <2>1. StrictValue = CHOOSE g : g = [t \in Texts |-> StrictVisitor(t, g)]
      BY Zenon DEF StrictValue
    <2> QED
      BY <1>2, <2>1, Zenon
  <1>4. \A t \in Texts : StrictValue[t] = StrictVisitor(t, StrictValue)
    BY <1>3, Zenon
  <1> DEFINE G == {t \in Texts : StrictValue[t] = Verdict(t)}
  <1>5. ASSUME NEW t \in Texts, \A s \in Texts : Height[s] < Height[t] => s \in G
        PROVE  t \in G
    <2>1. \A p \in Parts(t) : StrictValue[p] = Verdict(p)
      BY <1>5, PartsLower
    <2>2. StrictVisitor(t, StrictValue) = Verdict(t)
      BY <2>1, ReadsPart, Zenon
    <2> QED
      BY <1>4, <2>2
  <1>6. Texts \subseteq G
    <2> HIDE DEF G
    <2> QED
      BY <1>5, EveryElement, TreeAssumption
  <1> QED
    BY <1>6

\* A value is a clean text, and so are its parts.
LEMMA ValuesClean ==
    /\ Values \subseteq Texts
    /\ \A t \in Texts : t \in Values <=> Clean(t)
    /\ \A v \in Values : Parts(v) \subseteq Values /\ ~Ambiguous(v)
  <1>1. Values \subseteq Texts /\ \A t \in Texts : t \in Values <=> Clean(t)
    <2>1. Values \subseteq Texts
      BY DEF Values
    <2>2. \A t : {} # {t}
      OBVIOUS
    <2>3. ASSUME NEW t \in Texts PROVE t \in Values <=> Clean(t)
      <3>1. StrictValue[t] = Verdict(t)
        BY ReadsTrue, Zenon
      <3>2. Verdict(t) = {t} <=> Clean(t)
        BY <2>2, Zenon DEF Verdict
      <3> QED
        BY <3>1, <3>2, Zenon DEF Values, Ok
    <2> QED
      BY <2>1, <2>3, Zenon
  <1> QED
    BY <1>1, CleanParts, PartsLower

-----------------------------------------------------------------------------
(* Meaning *)

\* Whether u means what t means, if f says it of the parts of t.
Alike(t, f, u) ==
    /\ u[1] = t[1]
    /\ CASE t[1] = "array" ->
               /\ Len(u[2]) = Len(t[2])
               /\ \A i \in DOMAIN t[2] : f[t[2][i]][u[2][i]]
         [] t[1] = "object" ->
               /\ \A i \in DOMAIN t[2] : \E j \in DOMAIN u[2] :
                     u[2][j][1] = t[2][i][1] /\ f[t[2][i][2]][u[2][j][2]]
               /\ \A j \in DOMAIN u[2] : \E i \in DOMAIN t[2] :
                     u[2][j][1] = t[2][i][1] /\ f[t[2][i][2]][u[2][j][2]]
         [] OTHER -> u[2] = t[2]

\* SameMeaning is what its definition says.
LEMMA MeaningDef ==
    \A t \in Texts : \A u \in Texts : SameMeaning[t][u] = Alike(t, SameMeaning, u)
  <1> DEFINE V == [Texts -> BOOLEAN]
             B(t, f) == [u \in Texts |-> Alike(t, f, u)]
             F == [x \in Texts \X [Texts -> V] |-> B(x[1], x[2])]
  <1>1. \A t \in Texts : \A f \in [Texts -> V] : B(t, f) \in V
    <2>1. \A t, f, u : Alike(t, f, u) \in BOOLEAN
      BY Zenon DEF Alike
    <2> QED
      BY <2>1
  <1>2. ASSUME NEW t \in Texts, NEW f \in [Texts -> V], NEW g \in [Texts -> V],
               \A s \in Texts : Height[s] < Height[t] => f[s] = g[s]
        PROVE  B(t, f) = B(t, g)
    <2>1. \A p \in Parts(t) : f[p] = g[p]
      BY <1>2, PartsLower
    <2>2. \A u \in Texts : Alike(t, f, u) = Alike(t, g, u)
      <3>1. CASE t[1] = "array"
        <4>1. \A i \in DOMAIN t[2] : f[t[2][i]] = g[t[2][i]]
          BY <2>1, <3>1 DEF Parts
        <4> QED
          BY <3>1, <4>1 DEF Alike
      <3>2. CASE t[1] = "object"
        <4>1. \A i \in DOMAIN t[2] : f[t[2][i][2]] = g[t[2][i][2]]
          BY <2>1, <3>2 DEF Parts
        <4> SUFFICES ASSUME NEW u \in Texts PROVE Alike(t, f, u) = Alike(t, g, u)
          BY Zenon
        <4> DEFINE at(h, i, j) == u[2][j][1] = t[2][i][1] /\ h[t[2][i][2]][u[2][j][2]]
        <4>2. \A h : Alike(t, h, u) <=>
                  /\ u[1] = t[1]
                  /\ \A i \in DOMAIN t[2] : \E j \in DOMAIN u[2] : at(h, i, j)
                  /\ \A j \in DOMAIN u[2] : \E i \in DOMAIN t[2] : at(h, i, j)
          BY <3>2, Zenon DEF Alike
        <4>3. \A i \in DOMAIN t[2] : \A j : at(f, i, j) <=> at(g, i, j)
          BY <4>1, Zenon
        <4> HIDE DEF at
        <4>4. Alike(t, f, u) <=> Alike(t, g, u)
          BY <4>2, <4>3, Zenon
        <4>5. \A h : Alike(t, h, u) \in BOOLEAN
          BY Zenon DEF Alike
        <4> QED
          BY <4>4, <4>5, Zenon
      <3>3. CASE t[1] \notin {"array", "object"}
        BY <3>3, Zenon DEF Alike
      <3> QED
        BY <3>1, <3>2, <3>3, Zenon
    <2> QED
      BY <2>2
  <1>3. PICK f \in [Texts -> V] : \A t \in Texts : f[t] = B(t, f)
    <2> HIDE DEF B
    <2>1. \A t \in Texts : \A f \in [Texts -> V] : F[<<t, f>>] = B(t, f)
      BY Zenon
    <2> HIDE DEF F
    <2>2. V # {} /\ Height \in [Texts -> Nat]
      <3>1. [t \in Texts |-> TRUE] \in V
        OBVIOUS
      <3> QED
        BY <3>1, TreeAssumption, Zenon
    <2> HIDE DEF V
    <2>3. LooksBelow(Texts, Height, V, F)
      BY <1>1, <1>2, <2>1, <2>2 DEF LooksBelow
    <2>4. Defined(Texts, V, F) # {}
      BY <2>3, Recursion, Zenon
    <2> QED
      BY <2>1, <2>4, Zenon DEF Defined
  <1>4. f = [t \in Texts |-> B(t, f)]
    <2> HIDE DEF B
    <2> QED
      BY <1>3, Zenon
  <1>5. SameMeaning = [t \in Texts |-> B(t, SameMeaning)]
    <2>1. SameMeaning = CHOOSE g : g = [t \in Texts |-> B(t, g)]
      BY Zenon DEF SameMeaning, Alike
    <2> QED
      BY <1>4, <2>1, Zenon
  <1>6. \A t \in Texts : SameMeaning[t] = B(t, SameMeaning)
    <2> HIDE DEF B
    <2> QED
      BY <1>5, Zenon
  <1> QED
    BY <1>6, Zenon

\* A text means what it means.
LEMMA MeansItself == \A t \in Texts : SameMeaning[t][t]
  <1> DEFINE G == {t \in Texts : SameMeaning[t][t]}
  <1>1. ASSUME NEW t \in Texts, \A s \in Texts : Height[s] < Height[t] => s \in G
        PROVE  t \in G
    <2>1. \A p \in Parts(t) : SameMeaning[p][p]
      BY <1>1, PartsLower
    <2>2. Alike(t, SameMeaning, t)
      <3>1. CASE t[1] = "array"
        <4>1. \A i \in DOMAIN t[2] : SameMeaning[t[2][i]][t[2][i]]
          BY <2>1, <3>1 DEF Parts
        <4> QED
          BY <3>1, <4>1 DEF Alike
      <3>2. CASE t[1] = "object"
        <4>1. \A i \in DOMAIN t[2] : SameMeaning[t[2][i][2]][t[2][i][2]]
          BY <2>1, <3>2 DEF Parts
        <4> QED
          BY <3>2, <4>1 DEF Alike
      <3>3. CASE t[1] \notin {"array", "object"}
        BY <3>3 DEF Alike
      <3> QED
        BY <3>1, <3>2, <3>3
    <2> QED
      BY <2>2, MeaningDef, Zenon
  <1>2. Texts \subseteq G
    <2> HIDE DEF G
    <2> QED
      BY <1>1, EveryElement, TreeAssumption
  <1> QED
    BY <1>2

-----------------------------------------------------------------------------
(* Writing: the loop with its separators *)

\* What out is made of.
Token == {Punct(p) : p \in {"[", "]", "{", "}", ",", ":"}}
         \cup {KeyToken(k) : k \in Nat} \cup Texts

Out == Seq(Token)

\* A text of one token.
One(x) == <<x>>

\* The tokens between the values, by name.
Comma == Punct(",")
Colon == Punct(":")
OpenArray == Punct("[")
CloseArray == Punct("]")
OpenObject == Punct("{")
CloseObject == Punct("}")

\* What stands before the n-th part.
Sep(n) == IF n > 1 THEN One(Comma) ELSE <<>>

\* One text after another.
a ## b == a \o b

\* Concatenation of texts: closed, associative, cancelling on the left.
LEMMA OutEmpty == <<>> \in Out /\ \A a \in Out : <<>> ## a = a /\ a ## <<>> = a
  BY ConcatEmptySeq DEF Out, ##

\* One token is a text.
LEMMA OutOne == \A x \in Token : One(x) \in Out
  BY DEF Out, One

\* Two texts in a row are one.
LEMMA OutClosed == \A a, b \in Out : a ## b \in Out
  BY ConcatProperties DEF Out, ##

\* Three texts in a row.
LEMMA OutAssoc == \A a, b, c \in Out : (a ## b) ## c = a ## (b ## c)
  BY ConcatAssociative DEF Out, ##

\* What follows the same text.
LEMMA OutCancel == \A a, b, c \in Out : a ## b = a ## c => b = c
  BY ConcatSimplifications, Zenon DEF Out, ##

\* The members of a sequence of texts.
LEMMA OutParts ==
    \A parts \in Seq(Out) :
        /\ Len(parts) \in Nat
        /\ \A n \in 1 .. Len(parts) :
              /\ parts[n] \in Out
              /\ n \in Nat /\ n \in 0 .. Len(parts) /\ n - 1 \in 0 .. Len(parts)
  OBVIOUS

\* The separator is a text.
LEMMA SepOut == \A n \in Nat : Sep(n) \in Out
  <1>1. Comma \in Token
    BY Zenon DEF Token, Comma
  <1>2. <<>> \in Out /\ One(Comma) \in Out
    BY <1>1, OutEmpty, OutOne, Zenon
  <1> QED
    BY <1>2, Zenon DEF Sep

\* The first token of a text that begins with one.
LEMMA FirstToken ==
    \A x, y \in Token : \A a, b \in Out : One(x) ## a = One(y) ## b => x = y /\ a = b
  <1> SUFFICES ASSUME NEW x \in Token, NEW y \in Token, NEW a \in Out, NEW b \in Out,
                      One(x) ## a = One(y) ## b
               PROVE  x = y /\ a = b
    BY Zenon
  <1>1. (One(x) ## a)[1] = x /\ (One(y) ## b)[1] = y
    BY DEF Out, One, ##
  <1>2. x = y
    BY <1>1
  <1>3. a = b
    BY <1>2, OutOne, OutCancel, Zenon
  <1> QED
    BY <1>2, <1>3

\* Written is what its definition says.
LEMMA WrittenDef ==
    ASSUME NEW parts \in Seq(Out)
    PROVE  /\ Written(parts) \in [0 .. Len(parts) -> Out]
           /\ Written(parts)[0] = <<>>
           /\ \A n \in 1 .. Len(parts) :
                 Written(parts)[n] = (Written(parts)[n - 1] ## Sep(n)) ## parts[n]
  <1> DEFINE T == 0 .. Len(parts)
             H == [n \in T |-> n]
             B(n, f) == IF n = 0 THEN <<>> ELSE (f[n - 1] ## Sep(n)) ## parts[n]
             F == [x \in T \X [T -> Out] |-> B(x[1], x[2])]
  <1>1. Len(parts) \in Nat /\ \A n \in T : n # 0 => parts[n] \in Out
    OBVIOUS
  <1>2. \A n \in T : \A f : n = 0 \/ f[n - 1] \in Out => B(n, f) \in Out
    BY <1>1, OutEmpty, OutClosed, SepOut
  <1>3. \A n \in T : n = 0 \/ (n - 1 \in T /\ H[n - 1] < H[n])
    <2>1. \A n \in T : n = 0 \/ (n - 1 \in T /\ n - 1 < n)
      BY <1>1
    <2>2. \A n \in T : H[n] = n
      OBVIOUS
    <2> HIDE DEF H, T
    <2> QED
      BY <2>1, <2>2
  <1>4. \A n \in T : \A f \in [T -> Out] : B(n, f) \in Out
    BY <1>2, <1>3
  <1>5. \A n \in T : \A f, g : (n = 0 \/ f[n - 1] = g[n - 1]) => B(n, f) = B(n, g)
    OBVIOUS
  <1>6. H \in [T -> Nat]
    BY <1>1
  <1>7. PICK f \in [T -> Out] : \A n \in T : f[n] = B(n, f)
    <2> HIDE DEF B
    <2>1. \A n \in T : \A f \in [T -> Out] : F[<<n, f>>] = B(n, f)
      BY Zenon
    <2> HIDE DEF F, H
    <2>2. Out # {}
      BY OutEmpty
    <2> HIDE DEF T
    <2>3. LooksBelow(T, H, Out, F)
      <3>1. ASSUME NEW n \in T, NEW f \in [T -> Out], NEW g \in [T -> Out],
                   \A s \in T : H[s] < H[n] => f[s] = g[s]
            PROVE  F[<<n, f>>] = F[<<n, g>>]
        <4>1. n = 0 \/ f[n - 1] = g[n - 1]
          BY <1>3, <3>1
        <4>2. B(n, f) = B(n, g)
          BY <1>5, <4>1, Zenon
        <4> QED
          BY <2>1, <4>2, Zenon
      <3> QED
        BY <1>4, <1>6, <2>1, <2>2, <3>1, Zenon DEF LooksBelow
    <2>4. Defined(T, Out, F) # {}
      BY <2>3, Recursion, Zenon
    <2> QED
      BY <2>1, <2>4, Zenon DEF Defined
  <1>8. f = [n \in T |-> B(n, f)]
    <2> HIDE DEF B, T
    <2> QED
      BY <1>7, Zenon
  <1>9. Written(parts) = [n \in T |-> B(n, Written(parts))]
    <2>1. Written(parts) = CHOOSE g : g = [n \in T |-> B(n, g)]
      BY Zenon DEF Written, Sep, Comma, One, ##
    <2> QED
      BY <1>8, <2>1, Zenon
  <1>10. \A n \in T : Written(parts)[n] = B(n, Written(parts))
    <2> HIDE DEF B, T
    <2> QED
      BY <1>9, Zenon
  <1>11. T \subseteq {n \in T : Written(parts)[n] \in Out}
    <2> DEFINE G == {n \in T : Written(parts)[n] \in Out}
    <2>1. ASSUME NEW n \in T, \A s \in T : H[s] < H[n] => s \in G
          PROVE  n \in G
      <3>1. n = 0 \/ Written(parts)[n - 1] \in Out
        BY <1>3, <2>1, Zenon
      <3> HIDE DEF B
      <3> QED
        BY <1>2, <1>10, <3>1, Zenon
    <2> HIDE DEF G, H, T
    <2>2. T \subseteq G
      BY <1>6, <2>1, EveryElement
    <2> QED
      BY <2>2 DEF G
  <1> QED
    <2>1. Written(parts) \in [T -> Out]
      BY <1>9, <1>10, <1>11
    <2>2. 0 \in T /\ \A n \in 1 .. Len(parts) : n \in T /\ n # 0
      BY <1>1
    <2> QED
      BY <1>10, <2>1, <2>2

\* What was written stays: the whole begins with each of its earlier states.
LEMMA WrittenGrows ==
    ASSUME NEW parts \in Seq(Out), NEW n \in 0 .. Len(parts)
    PROVE  \E R \in Out : Written(parts)[Len(parts)] = Written(parts)[n] ## R
  <1> DEFINE W == Written(parts)
             Reaches(k) == \E R \in Out : W[k] = W[n] ## R
             G == {m \in Nat : n + m <= Len(parts) => Reaches(n + m)}
  <1>1. Len(parts) \in Nat /\ n \in Nat
    OBVIOUS
  <1>2. /\ W \in [0 .. Len(parts) -> Out]
        /\ \A k \in 1 .. Len(parts) : W[k] = (W[k - 1] ## Sep(k)) ## parts[k]
    BY WrittenDef, Zenon
  <1> HIDE DEF W
  <1>3. W[n] \in Out
    BY <1>2, Zenon
  <1>4. Reaches(n)
    BY <1>3, OutEmpty, Zenon
  <1>5. ASSUME NEW k \in 1 .. Len(parts), Reaches(k - 1)
        PROVE  Reaches(k)
    <2>1. PICK R \in Out : W[k - 1] = W[n] ## R
      BY <1>5
    <2>2. parts[k] \in Out /\ Sep(k) \in Out
      BY OutParts, SepOut, Zenon
    <2>3. W[k] = ((W[n] ## R) ## Sep(k)) ## parts[k]
      BY <1>2, <2>1, Zenon
    <2>4. W[n] ## R \in Out /\ Sep(k) ## parts[k] \in Out
      BY <1>3, <2>2, OutClosed, Zenon
    <2>5. W[k] = (W[n] ## R) ## (Sep(k) ## parts[k])
      BY <2>2, <2>3, <2>4, OutAssoc
    <2>6. W[k] = W[n] ## (R ## (Sep(k) ## parts[k]))
      BY <1>3, <2>4, <2>5, OutAssoc, Zenon
    <2> QED
      BY <2>4, <2>6, OutClosed, Zenon
  <1> HIDE DEF Reaches
  <1>6. 0 \in G
    <2>1. n + 0 = n
      BY <1>1
    <2> QED
      BY <1>4, <2>1
  <1>7. \A m \in Nat : m \in G => m + 1 \in G
    <2> SUFFICES ASSUME NEW m \in Nat, m \in G, n + (m + 1) <= Len(parts)
                 PROVE  Reaches(n + (m + 1))
      OBVIOUS
    <2>1. /\ n + (m + 1) \in 1 .. Len(parts)
          /\ (n + (m + 1)) - 1 = n + m
          /\ n + m <= Len(parts)
      BY <1>1
    <2> QED
      BY <1>5, <2>1
  <1>8. Nat \subseteq G
    <2> HIDE DEF G
    <2> QED
      BY <1>6, <1>7, EveryNumber
  <1>9. Len(parts) - n \in Nat /\ n + (Len(parts) - n) = Len(parts)
    BY <1>1
  <1>10. Reaches(Len(parts))
    <2>1. \A m \in Nat : n + m <= Len(parts) => Reaches(n + m)
      BY <1>8, Zenon
    <2>2. Len(parts) <= Len(parts)
      BY <1>1
    <2> QED
      BY <1>9, <2>1, <2>2, Zenon
  <1> QED
    BY <1>10, Zenon DEF W, Reaches

\* What is written of the parts from the n-th on.
LEMMA WrittenSplit ==
    ASSUME NEW parts \in Seq(Out), NEW n \in 1 .. Len(parts), NEW E \in Out
    PROVE  \E R \in Out : Separated(parts) ## E
                            = Written(parts)[n - 1] ## (Sep(n) ## (parts[n] ## R))
  <1> DEFINE W == Written(parts)
  <1>1. /\ n \in 0 .. Len(parts) /\ n - 1 \in 0 .. Len(parts)
        /\ parts[n] \in Out /\ Sep(n) \in Out
    BY OutParts, SepOut, Zenon
  <1>2. /\ W[n] = (W[n - 1] ## Sep(n)) ## parts[n]
        /\ W[n - 1] \in Out /\ W[n] \in Out
    BY <1>1, WrittenDef, Zenon
  <1>3. PICK R \in Out : Separated(parts) = W[n] ## R
    BY <1>1, WrittenGrows, Zenon DEF Separated
  <1> HIDE DEF W
  <1>4. /\ R ## E \in Out
        /\ W[n - 1] ## Sep(n) \in Out
    BY <1>1, <1>2, OutClosed, Zenon
  <1>5. parts[n] ## (R ## E) \in Out
    BY <1>1, <1>4, OutClosed, Zenon
  <1>6. (W[n] ## R) ## E = W[n] ## (R ## E)
    <2>1. W[n] \in Out
      BY <1>2
    <2> QED
      BY <2>1, OutAssoc, Zenon
  <1>7. ((W[n - 1] ## Sep(n)) ## parts[n]) ## (R ## E)
            = (W[n - 1] ## Sep(n)) ## (parts[n] ## (R ## E))
    <2>1. W[n - 1] ## Sep(n) \in Out /\ parts[n] \in Out /\ R ## E \in Out
      BY <1>1, <1>4
    <2> QED
      BY <2>1, OutAssoc
  <1>8. (W[n - 1] ## Sep(n)) ## (parts[n] ## (R ## E))
            = W[n - 1] ## (Sep(n) ## (parts[n] ## (R ## E)))
    <2>1. W[n - 1] \in Out /\ Sep(n) \in Out
      BY <1>1, <1>2
    <2> QED
      BY <1>5, <2>1, OutAssoc
  <1>9. Separated(parts) ## E = W[n - 1] ## (Sep(n) ## (parts[n] ## (R ## E)))
    <2>1. W[n] = (W[n - 1] ## Sep(n)) ## parts[n]
      BY <1>2
    <2> QED
      BY <1>3, <1>6, <1>7, <1>8, <2>1, Zenon
  <1> QED
    BY <1>4, <1>9, Zenon DEF W

\* A text that never begins with the token c, whatever follows.
NeverBegins(a, c) == \A x, y \in Out : a ## x # One(c) ## y

\* Texts that are told apart by what they begin with.
Apart(a, b) == \A x, y \in Out : a ## x = b ## y => a = b

\* Where another part follows, no closing token stands.
LEMMA PartFollows ==
    ASSUME NEW parts \in Seq(Out), NEW n \in 1 .. Len(parts), NEW c \in Token,
           c # Comma, NeverBegins(parts[n], c), NEW x \in Out, NEW y \in Out
    PROVE  Sep(n) ## (parts[n] ## x) # One(c) ## y
  <1>1. parts[n] \in Out /\ parts[n] ## x \in Out
    BY OutParts, OutClosed, Zenon
  <1>2. CASE n > 1
    <2>1. Sep(n) = One(Comma)
      BY <1>2, Zenon DEF Sep
    <2>2. Comma \in Token
      BY Zenon DEF Token, Comma
    <2> QED
      BY <1>1, <2>1, <2>2, FirstToken, Zenon
  <1>3. CASE ~(n > 1)
    <2>1. Sep(n) = <<>>
      BY <1>3, Zenon DEF Sep
    <2>2. Sep(n) ## (parts[n] ## x) = parts[n] ## x
      BY <1>1, <2>1, OutEmpty, Zenon
    <2> QED
      BY <2>2, Zenon DEF NeverBegins
  <1> QED
    BY <1>2, <1>3, Zenon

\* Two lists between the same brackets are told apart: the parts are the same, and
\* so is what follows.
LEMMA JoinedReads ==
    ASSUME NEW p \in Seq(Out), NEW q \in Seq(Out), NEW c \in Token, c # Comma,
           \A n \in 1 .. Len(p) : NeverBegins(p[n], c),
           \A n \in 1 .. Len(q) : NeverBegins(q[n], c),
           \A n \in 1 .. Len(p) : n \in 1 .. Len(q) => Apart(p[n], q[n]),
           NEW r \in Out, NEW s \in Out,
           Separated(p) ## (One(c) ## r) = Separated(q) ## (One(c) ## s)
    PROVE  p = q /\ r = s
  <1> DEFINE P == Written(p)
             Q == Written(q)
             G == {n \in Nat : n <= Len(p) =>
                      /\ n <= Len(q)
                      /\ P[n] = Q[n]
                      /\ n >= 1 => p[n] = q[n]}
  <1>0. Len(p) \in Nat /\ Len(q) \in Nat
    BY OutParts, Zenon
  <1>1. One(c) ## r \in Out /\ One(c) ## s \in Out
    BY OutOne, OutClosed, Zenon
  <1>2. /\ P \in [0 .. Len(p) -> Out] /\ Q \in [0 .. Len(q) -> Out]
        /\ P[0] = <<>> /\ Q[0] = <<>>
        /\ \A n \in 1 .. Len(p) : P[n] = (P[n - 1] ## Sep(n)) ## p[n]
        /\ \A n \in 1 .. Len(q) : Q[n] = (Q[n - 1] ## Sep(n)) ## q[n]
    BY WrittenDef, Zenon
  <1>3. Separated(p) = P[Len(p)] /\ Separated(q) = Q[Len(q)]
    BY Zenon DEF Separated
  <1>4. /\ \A n \in 1 .. Len(p) : \E R \in Out :
              Separated(p) ## (One(c) ## r) = P[n - 1] ## (Sep(n) ## (p[n] ## R))
        /\ \A n \in 1 .. Len(q) : \E R \in Out :
              Separated(q) ## (One(c) ## s) = Q[n - 1] ## (Sep(n) ## (q[n] ## R))
    BY <1>1, WrittenSplit, Zenon
  <1> HIDE DEF P, Q
  <1>5. ASSUME NEW n \in 1 .. Len(p), n - 1 = Len(q), P[n - 1] = Q[n - 1]
        PROVE  FALSE
    <2>1. PICK R \in Out : Separated(p) ## (One(c) ## r) = P[n - 1] ## (Sep(n) ## (p[n] ## R))
      BY <1>4, Zenon
    <2>2. p[n] ## R \in Out /\ Sep(n) \in Out /\ n - 1 \in 0 .. Len(p)
      BY OutParts, OutClosed, SepOut, Zenon
    <2>3. Sep(n) ## (p[n] ## R) \in Out /\ P[n - 1] \in Out
      BY <1>2, <2>2, OutClosed, Zenon
    <2>4. P[n - 1] ## (Sep(n) ## (p[n] ## R)) = P[n - 1] ## (One(c) ## s)
      BY <1>3, <1>5, <2>1, Zenon
    <2>5. Sep(n) ## (p[n] ## R) = One(c) ## s
      BY <1>1, <2>3, <2>4, OutCancel, Zenon
    <2> QED
      BY <2>5, PartFollows, Zenon
  <1>6. ASSUME NEW n \in 1 .. Len(q), n - 1 = Len(p), P[n - 1] = Q[n - 1]
        PROVE  FALSE
    <2>1. PICK R \in Out : Separated(q) ## (One(c) ## s) = Q[n - 1] ## (Sep(n) ## (q[n] ## R))
      BY <1>4, Zenon
    <2>2. q[n] ## R \in Out /\ Sep(n) \in Out /\ n - 1 \in 0 .. Len(q)
      BY OutParts, OutClosed, SepOut, Zenon
    <2>3. Sep(n) ## (q[n] ## R) \in Out /\ Q[n - 1] \in Out
      BY <1>2, <2>2, OutClosed, Zenon
    <2>4. Q[n - 1] ## (Sep(n) ## (q[n] ## R)) = Q[n - 1] ## (One(c) ## r)
      BY <1>3, <1>6, <2>1, Zenon
    <2>5. Sep(n) ## (q[n] ## R) = One(c) ## r
      BY <1>1, <2>3, <2>4, OutCancel, Zenon
    <2> QED
      BY <2>5, PartFollows, Zenon
  <1>7. ASSUME NEW n \in 1 .. Len(p), n \in 1 .. Len(q), P[n - 1] = Q[n - 1]
        PROVE  p[n] = q[n] /\ P[n] = Q[n]
    <2>1. PICK R \in Out : Separated(p) ## (One(c) ## r) = P[n - 1] ## (Sep(n) ## (p[n] ## R))
      BY <1>4, Zenon
    <2>2. PICK S \in Out : Separated(q) ## (One(c) ## s) = Q[n - 1] ## (Sep(n) ## (q[n] ## S))
      BY <1>4, <1>7, Zenon
    <2>3. /\ p[n] ## R \in Out /\ q[n] ## S \in Out
          /\ Sep(n) \in Out /\ n - 1 \in 0 .. Len(p)
      BY <1>7, OutParts, OutClosed, SepOut, Zenon
    <2>4. /\ Sep(n) ## (p[n] ## R) \in Out /\ Sep(n) ## (q[n] ## S) \in Out
          /\ P[n - 1] \in Out
      BY <1>2, <2>3, OutClosed, Zenon
    <2>5. P[n - 1] ## (Sep(n) ## (p[n] ## R)) = P[n - 1] ## (Sep(n) ## (q[n] ## S))
      BY <1>7, <2>1, <2>2, Zenon
    <2>6. Sep(n) ## (p[n] ## R) = Sep(n) ## (q[n] ## S)
      BY <2>4, <2>5, OutCancel, Zenon
    <2>7. p[n] ## R = q[n] ## S
      BY <2>3, <2>6, OutCancel, Zenon
    <2>8. p[n] = q[n]
      BY <1>7, <2>7, Zenon DEF Apart
    <2> QED
      BY <1>2, <1>7, <2>8, Zenon
  <1>8. 0 \in G
    BY <1>0, <1>2
  <1>9. ASSUME NEW n \in Nat, n \in G PROVE n + 1 \in G
    <2> SUFFICES ASSUME n + 1 <= Len(p)
                 PROVE  n + 1 <= Len(q) /\ P[n + 1] = Q[n + 1] /\ p[n + 1] = q[n + 1]
      OBVIOUS
    <2>1. n + 1 \in 1 .. Len(p) /\ (n + 1) - 1 = n /\ n <= Len(q) /\ P[n] = Q[n]
      BY <1>0, <1>9
    <2>2. n # Len(q)
      BY <1>5, <2>1, Zenon
    <2>3. n + 1 <= Len(q) /\ n + 1 \in 1 .. Len(q)
      BY <1>0, <2>1, <2>2
    <2> QED
      BY <1>7, <2>1, <2>3, Zenon
  <1>10. Nat \subseteq G
    <2> HIDE DEF G
    <2> QED
      BY <1>8, <1>9, EveryNumber
  <1>11. \A n \in Nat : n <= Len(p) => n <= Len(q) /\ P[n] = Q[n] /\ (n >= 1 => p[n] = q[n])
    BY <1>10, Zenon
  <1>12. Len(p) = Len(q)
    <2>1. Len(p) <= Len(p) /\ Len(p) <= Len(q) /\ P[Len(p)] = Q[Len(p)]
      BY <1>0, <1>11
    <2>2. CASE Len(p) < Len(q)
      <3>1. Len(p) + 1 \in 1 .. Len(q) /\ (Len(p) + 1) - 1 = Len(p)
        BY <1>0, <2>2
      <3> QED
        BY <1>6, <2>1, <3>1, Zenon
    <2> QED
      BY <1>0, <2>1, <2>2
  <1>13. p = q
    <2>1. \A n \in 1 .. Len(p) : p[n] = q[n]
      BY <1>0, <1>11
    <2> QED
      BY <1>12, <2>1
  <1>14. r = s
    <2>1. Separated(p) \in Out
      <3>1. Len(p) \in 0 .. Len(p)
        BY <1>0
      <3> QED
        BY <1>2, <1>3, <3>1, Zenon
    <2>2. One(c) ## r = One(c) ## s
      BY <1>1, <1>13, <2>1, OutCancel, Zenon
    <2> QED
      BY <2>2, FirstToken
  <1> QED
    BY <1>13, <1>14

\* The same, of lists that are given by what they fulfil.
JoinedAlike(p, q, c, r, s) ==
    /\ p \in Seq(Out) /\ q \in Seq(Out) /\ c \in Token /\ c # Comma
    /\ \A n \in 1 .. Len(p) : NeverBegins(p[n], c)
    /\ \A n \in 1 .. Len(q) : NeverBegins(q[n], c)
    /\ \A n \in 1 .. Len(p) : n \in 1 .. Len(q) => Apart(p[n], q[n])
    /\ r \in Out /\ s \in Out
    /\ Separated(p) ## (One(c) ## r) = Separated(q) ## (One(c) ## s)

\* Lists that are written alike have the same parts.
LEMMA JoinedSame ==
    ASSUME NEW p, NEW q, NEW c, NEW r, NEW s, JoinedAlike(p, q, c, r, s)
    PROVE  p = q
  <1>1. p \in Seq(Out) /\ q \in Seq(Out) /\ c \in Token /\ c # Comma /\ r \in Out /\ s \in Out
    BY Zenon DEF JoinedAlike
  <1>2. /\ \A n \in 1 .. Len(p) : NeverBegins(p[n], c)
        /\ \A n \in 1 .. Len(q) : NeverBegins(q[n], c)
        /\ \A n \in 1 .. Len(p) : n \in 1 .. Len(q) => Apart(p[n], q[n])
    BY Zenon DEF JoinedAlike
  <1>3. Separated(p) ## (One(c) ## r) = Separated(q) ## (One(c) ## s)
    BY Zenon DEF JoinedAlike
  <1> QED
    BY <1>1, <1>2, <1>3, JoinedReads

-----------------------------------------------------------------------------
(* Writing: the members of an object in the order of their keys *)

Members == Nat \X Texts

DistinctKeys(m) == \A i, j \in DOMAIN m : i # j => m[i][1] # m[j][1]

\* s holds the members of m, by ascending keys.
Arranged(m, s) ==
    /\ s \in [DOMAIN m -> {m[i] : i \in DOMAIN m}]
    /\ \A i \in DOMAIN m : \E j \in DOMAIN m : s[j] = m[i]
    /\ \A i, j \in DOMAIN m : i < j => s[i][1] < s[j][1]

\* One more member finds its place among those that are in order.
LEMMA Inserted ==
    ASSUME NEW n \in Nat, NEW m \in [1 .. n + 1 -> Members], DistinctKeys(m),
           NEW s, Arranged([i \in 1 .. n |-> m[i]], s)
    PROVE  \E z : Arranged(m, z)
  <1> DEFINE x == m[n + 1]
             later == {i \in 1 .. n + 1 : i <= n => x[1] < s[i][1]}
             most == [i \in 1 .. n |-> m[i]]
  <1>a. DOMAIN most = 1 .. n /\ \A i \in 1 .. n : most[i] = m[i]
    BY Zenon
  <1>b. Arranged(most, s)
    OBVIOUS
  <1> HIDE DEF most
  <1>c. \A i \in 1 .. n : i \in 1 .. n + 1 /\ i # n + 1
    OBVIOUS
  <1>1. \A i \in 1 .. n : \E k \in 1 .. n : s[i] = m[k]
    <2>1. \A i \in 1 .. n : s[i] \in {most[k] : k \in 1 .. n}
      BY <1>a, <1>b, Zenon DEF Arranged
    <2> QED
      BY <1>a, <2>1, Zenon
  <1>2. /\ x \in Members /\ x[1] \in Nat
        /\ \A i \in 1 .. n : s[i][1] \in Nat
    <2>1. \A i \in 1 .. n + 1 : m[i] \in Members /\ m[i][1] \in Nat
      BY DEF Members
    <2>2. n + 1 \in 1 .. n + 1
      OBVIOUS
    <2> QED
      BY <1>1, <1>c, <2>1, <2>2, Zenon
  <1>3. \A i \in 1 .. n : s[i][1] # x[1]
    <2>1. DOMAIN m = 1 .. n + 1 /\ n + 1 \in 1 .. n + 1
      OBVIOUS
    <2>2. \A k \in 1 .. n : m[k][1] # x[1]
      BY <1>c, <2>1, Zenon DEF DistinctKeys
    <2> QED
      BY <1>1, <2>2, Zenon
  <1>4. \A i, j \in 1 .. n : i < j => s[i][1] < s[j][1]
    BY <1>a, <1>b, Zenon DEF Arranged
  <1>5. \A i \in 1 .. n : \E j \in 1 .. n : s[j] = m[i]
    BY <1>a, <1>b, Zenon DEF Arranged
  <1> HIDE DEF x
  <1>6. PICK k \in later : \A i \in later : k <= i
    <2>1. later \in SUBSET Nat /\ n + 1 \in later
      OBVIOUS
    <2> HIDE DEF later
    <2> QED
      BY <2>1, LeastNumber
  <1>7. /\ k \in 1 .. n + 1
        /\ \A i \in 1 .. n : i < k => s[i][1] < x[1]
        /\ \A i \in 1 .. n : k <= i => x[1] < s[i][1]
    <2>1. k \in 1 .. n + 1
      BY <1>6
    <2>2. ASSUME NEW i \in 1 .. n, i < k PROVE s[i][1] < x[1]
      <3>1. i \notin later
        BY <1>6, <2>1, <2>2
      <3> QED
        BY <1>2, <1>3, <3>1
    <2>3. ASSUME NEW i \in 1 .. n, k <= i PROVE x[1] < s[i][1]
      <3>1. k <= n /\ x[1] < s[k][1]
        BY <1>6, <2>1, <2>3
      <3>2. k = i \/ s[k][1] < s[i][1]
        BY <1>4, <2>1, <2>3, <3>1
      <3> QED
        BY <1>2, <2>1, <3>1, <3>2
    <2> QED
      BY <2>1, <2>2, <2>3
  <1> HIDE DEF later
  <1> DEFINE z == [i \in 1 .. n + 1 |->
                     IF i < k THEN s[i] ELSE IF i = k THEN x ELSE s[i - 1]]
  <1>8. /\ \A i \in 1 .. n : i < k => z[i] = s[i]
        /\ z[k] = x
        /\ \A i \in 1 .. n : k <= i => z[i + 1] = s[i]
    BY <1>7
  <1>9. \A i \in 1 .. n + 1 : \/ i < k /\ i \in 1 .. n
                              \/ i = k
                              \/ i - 1 \in 1 .. n /\ k <= i - 1 /\ (i - 1) + 1 = i
    BY <1>7
  <1>10. DOMAIN z = 1 .. n + 1
    OBVIOUS
  <1>11. z = [i \in 1 .. n + 1 |-> z[i]]
    OBVIOUS
  <1> HIDE DEF z
  <1>12. \A i \in 1 .. n + 1 : \E j \in 1 .. n + 1 : z[i] = m[j]
    <2> SUFFICES ASSUME NEW i \in 1 .. n + 1 PROVE \E j \in 1 .. n + 1 : z[i] = m[j]
      OBVIOUS
    <2>1. CASE i = k
      BY <1>8, <2>1 DEF x
    <2>2. CASE i < k
      <3>1. i \in 1 .. n /\ z[i] = s[i]
        BY <1>7, <1>8, <2>2
      <3> QED
        BY <1>1, <1>c, <3>1, Zenon
    <2>3. CASE i - 1 \in 1 .. n /\ k <= i - 1 /\ (i - 1) + 1 = i
      <3>1. z[i] = s[i - 1]
        BY <1>8, <2>3
      <3> QED
        BY <1>1, <1>c, <2>3, <3>1, Zenon
    <2> QED
      BY <1>9, <2>1, <2>2, <2>3
  <1>13. \A i \in 1 .. n + 1 : \E j \in 1 .. n + 1 : z[j] = m[i]
    <2> SUFFICES ASSUME NEW i \in 1 .. n + 1 PROVE \E j \in 1 .. n + 1 : z[j] = m[i]
      BY Zenon
    <2>1. CASE i = n + 1
      BY <1>7, <1>8, <2>1 DEF x
    <2>2. CASE i \in 1 .. n
      <3>1. PICK j \in 1 .. n : s[j] = m[i]
        BY <1>5, <2>2, Zenon
      <3>2. j \in 1 .. n + 1 /\ j + 1 \in 1 .. n + 1
        OBVIOUS
      <3> QED
        BY <1>7, <1>8, <3>1, <3>2
    <2> QED
      BY <2>1, <2>2
  <1>14. \A i, j \in 1 .. n + 1 : i < j => z[i][1] < z[j][1]
    <2> SUFFICES ASSUME NEW i \in 1 .. n + 1, NEW j \in 1 .. n + 1, i < j
                 PROVE  z[i][1] < z[j][1]
      OBVIOUS
    <2>1. CASE j < k
      BY <1>4, <1>7, <1>8, <1>9, <2>1
    <2>2. CASE j = k
      BY <1>7, <1>8, <1>9, <2>2
    <2>3. CASE k < j
      <3>1. j - 1 \in 1 .. n /\ k <= j - 1 /\ z[j] = s[j - 1]
        BY <1>7, <1>8, <1>9, <2>3
      <3>2. CASE i < k
        <4>1. z[i] = s[i] /\ i \in 1 .. n /\ i < j - 1
          BY <1>7, <1>8, <3>1, <3>2
        <4> QED
          BY <1>4, <3>1, <4>1
      <3>3. CASE i = k
        BY <1>7, <1>8, <3>1, <3>3
      <3>4. CASE k < i
        <4>1. i - 1 \in 1 .. n /\ z[i] = s[i - 1] /\ i - 1 < j - 1
          BY <1>7, <1>8, <1>9, <3>4
        <4> QED
          BY <1>4, <3>1, <4>1
      <3> QED
        BY <1>7, <3>2, <3>3, <3>4
    <2> QED
      BY <1>7, <2>1, <2>2, <2>3
  <1>15. Arranged(m, z)
    <2>1. DOMAIN m = 1 .. n + 1
      OBVIOUS
    <2>2. z \in [DOMAIN m -> {m[i] : i \in DOMAIN m}]
      BY <1>11, <1>12, <2>1
    <2> QED
      BY <1>13, <1>14, <2>1, <2>2 DEF Arranged
  <1> QED
    BY <1>15

\* Members with distinct keys have an ascending arrangement.
LEMMA Arranges ==
    ASSUME NEW m \in Seq(Members), DistinctKeys(m)
    PROVE  \E s : Arranged(m, s)
  <1> DEFINE Can(n) == \A w \in [1 .. n -> Members] : DistinctKeys(w) => \E s : Arranged(w, s)
             G == {n \in Nat : Can(n)}
  <1>1. 0 \in G
    <2> SUFFICES ASSUME NEW w \in [1 .. 0 -> Members] PROVE Arranged(w, w)
      BY Zenon
    <2>1. DOMAIN w = {} /\ w = [i \in DOMAIN w |-> w[i]]
      OBVIOUS
    <2>2. w \in [DOMAIN w -> {w[i] : i \in DOMAIN w}]
      BY <2>1
    <2> QED
      BY <2>1, <2>2, Zenon DEF Arranged
  <1>2. ASSUME NEW n \in Nat, n \in G PROVE n + 1 \in G
    <2>0. n + 1 \in Nat
      OBVIOUS
    <2> SUFFICES ASSUME NEW w \in [1 .. n + 1 -> Members], DistinctKeys(w)
                 PROVE  \E s : Arranged(w, s)
      BY <2>0, Zenon
    <2> DEFINE v == [i \in 1 .. n |-> w[i]]
    <2>1. v \in [1 .. n -> Members] /\ DOMAIN v = 1 .. n
      OBVIOUS
    <2>2. \A i \in 1 .. n : i \in 1 .. n + 1 /\ v[i] = w[i]
      OBVIOUS
    <2>3. DOMAIN w = 1 .. n + 1
      OBVIOUS
    <2>4. DistinctKeys(v)
      <3> HIDE DEF v
      <3> QED
        BY <2>1, <2>2, <2>3, Zenon DEF DistinctKeys
    <2>5. PICK s : Arranged(v, s)
      <3> HIDE DEF v
      <3> QED
        BY <1>2, <2>1, <2>4, Zenon
    <2> QED
      BY <2>5, Inserted, Zenon
  <1>3. Nat \subseteq G
    <2> HIDE DEF G
    <2> QED
      BY <1>1, <1>2, EveryNumber
  <1>4. Len(m) \in Nat /\ m \in [1 .. Len(m) -> Members]
    OBVIOUS
  <1> QED
    BY <1>3, <1>4, Zenon

\* What keys.sort() and map[key] yield.
LEMMA SortedDef ==
    ASSUME NEW m \in Seq(Members), DistinctKeys(m)
    PROVE  /\ Sorted(m) \in Seq(Members) /\ Len(Sorted(m)) = Len(m)
           /\ \A i \in DOMAIN m : \E j \in DOMAIN m : Sorted(m)[i] = m[j]
           /\ \A i \in DOMAIN m : \E j \in DOMAIN m : Sorted(m)[j] = m[i]
           /\ \A i, j \in DOMAIN m : i < j => Sorted(m)[i][1] < Sorted(m)[j][1]
  <1> DEFINE D == [DOMAIN m -> {m[i] : i \in DOMAIN m}]
             Good(s) ==
                 /\ \A i \in DOMAIN m : \E j \in DOMAIN m : s[j] = m[i]
                 /\ \A i, j \in DOMAIN m : i < j => s[i][1] < s[j][1]
  <1>1. \E s \in D : Good(s)
    BY Arranges, Zenon DEF Arranged
  <1>2. Sorted(m) = CHOOSE s \in D : Good(s)
    BY Zenon DEF Sorted
  <1> HIDE DEF D, Good
  <1>3. Sorted(m) \in D /\ Good(Sorted(m))
    BY <1>1, <1>2, Zenon
  <1>4. DOMAIN m = 1 .. Len(m) /\ Len(m) \in Nat /\ \A i \in DOMAIN m : m[i] \in Members
    OBVIOUS
  <1>5. \A i \in DOMAIN m : \E j \in DOMAIN m : Sorted(m)[i] = m[j]
    BY <1>3, Zenon DEF D
  <1>6. Sorted(m) \in [1 .. Len(m) -> Members]
    <2>1. Sorted(m) \in [DOMAIN m -> Members]
      BY <1>3, <1>4 DEF D
    <2> QED
      BY <1>4, <2>1, Zenon
  <1>7. Sorted(m) \in Seq(Members) /\ Len(Sorted(m)) = Len(m)
    BY <1>4, <1>6
  <1> QED
    BY <1>3, <1>5, <1>7, Zenon DEF Good

\* The first k entries of a ascend.
Ascending(a, k) == \A i, j \in 1 .. k : i < j => a[i] < a[j]

\* Each of the first k entries of a is one of the first l of b.
Covers(a, k, b, l) == \A i \in 1 .. k : \E j \in 1 .. l : a[i] = b[j]

\* Two ascending lists of the same keys are the same list.
LEMMA SameKeys ==
    ASSUME NEW k \in Nat, NEW l \in Nat, NEW a \in [1 .. k -> Nat], NEW b \in [1 .. l -> Nat],
           Ascending(a, k), Ascending(b, l), Covers(a, k, b, l), Covers(b, l, a, k)
    PROVE  k = l /\ \A i \in 1 .. k : a[i] = b[i]
  <1> DEFINE differ == {i \in 1 .. k : ~(i <= l /\ a[i] = b[i])}
  <1>1. differ = {}
    <2> SUFFICES ASSUME differ # {} PROVE FALSE
      OBVIOUS
    <2>1. differ \in SUBSET Nat
      OBVIOUS
    <2>2. PICK n \in differ : \A i \in differ : n <= i
      BY <2>1, LeastNumber, Zenon
    <2>3. n \in 1 .. k /\ ~(n <= l /\ a[n] = b[n])
      BY <2>2, Zenon
    <2>4. \A i \in 1 .. k : i < n => i <= l /\ a[i] = b[i]
      <3>1. \A i \in 1 .. k : i \in differ \/ (i <= l /\ a[i] = b[i])
        BY Zenon
      <3>2. \A i \in 1 .. k : i < n => ~(n <= i)
        BY <2>3
      <3> QED
        BY <2>2, <3>1, <3>2, Zenon
    <2> HIDE DEF differ
    <2>5. PICK j \in 1 .. l : a[n] = b[j]
      BY <2>3, Zenon DEF Covers
    <2>6. n <= j
      <3> SUFFICES ASSUME j < n PROVE FALSE
        BY <2>3
      <3>1. j \in 1 .. k /\ a[j] = b[j]
        BY <2>3, <2>4
      <3>2. a[j] < a[n]
        BY <2>3, <3>1, Zenon DEF Ascending
      <3> QED
        BY <2>3, <2>5, <3>1, <3>2
    <2>7. n \in 1 .. l /\ n < j
      <3>1. n \in 1 .. l /\ n <= l
        BY <2>3, <2>6
      <3>2. n # j
        BY <2>3, <2>5, <3>1, Zenon
      <3> QED
        BY <2>6, <3>1, <3>2
    <2>8. PICK i \in 1 .. k : b[n] = a[i]
      BY <2>7, Zenon DEF Covers
    <2>9. n <= i
      <3> SUFFICES ASSUME i < n PROVE FALSE
        BY <2>3
      <3>1. i \in 1 .. l /\ a[i] = b[i]
        BY <2>4
      <3>2. b[i] < b[n]
        BY <2>7, <3>1, Zenon DEF Ascending
      <3> QED
        BY <2>7, <2>8, <3>1, <3>2
    <2>10. b[n] < b[j]
      BY <2>7, Zenon DEF Ascending
    <2>11. n = i \/ a[n] < a[i]
      <3>1. n = i \/ n < i
        BY <2>3, <2>9
      <3> QED
        BY <2>3, <3>1, Zenon DEF Ascending
    <2>12. a[n] \in Nat /\ a[i] \in Nat /\ b[n] \in Nat /\ b[j] \in Nat
      BY <2>3, <2>7
    <2>13. a[n] <= a[i]
      BY <2>11, <2>12
    <2> QED
      BY <2>5, <2>8, <2>10, <2>12, <2>13
  <1>2. \A i \in 1 .. k : i <= l /\ a[i] = b[i]
    BY <1>1, Zenon
  <1> HIDE DEF differ
  <1>3. k <= l
    <2>1. CASE k = 0
      BY <2>1
    <2>2. CASE k # 0
      BY <1>2, <2>2
    <2> QED
      BY <2>1, <2>2
  <1>4. ~(k < l)
    <2> SUFFICES ASSUME k < l PROVE FALSE
      OBVIOUS
    <2>1. k + 1 \in 1 .. l
      OBVIOUS
    <2>2. PICK i \in 1 .. k : b[k + 1] = a[i]
      BY <2>1, Zenon DEF Covers
    <2>3. i \in 1 .. l /\ a[i] = b[i] /\ i < k + 1
      BY <1>2
    <2>4. b[i] < b[k + 1]
      BY <2>1, <2>3, Zenon DEF Ascending
    <2> QED
      BY <2>1, <2>2, <2>3, <2>4
  <1> QED
    BY <1>2, <1>3, <1>4

-----------------------------------------------------------------------------
(* Writing: a whole value *)

\* The tokens are tokens, and differ; a value is none of the marks.
LEMMA Tokens ==
    /\ {Comma, Colon, OpenArray, CloseArray, OpenObject, CloseObject} \subseteq Token
    /\ Texts \subseteq Token /\ \A k \in Nat : KeyToken(k) \in Token
    /\ Comma # CloseArray /\ Comma # CloseObject
    /\ OpenArray # OpenObject /\ OpenArray # CloseArray /\ OpenArray # CloseObject
    /\ OpenObject # CloseArray /\ OpenObject # CloseObject
    /\ \A t \in Texts : t \notin {Comma, Colon, OpenArray, CloseArray, OpenObject, CloseObject}
    /\ \A k \in Nat : KeyToken(k) # CloseArray /\ KeyToken(k) # CloseObject
    /\ \A k, l \in Nat : KeyToken(k) = KeyToken(l) => k = l
  <1> DEFINE Marks == {"[", "]", "{", "}", ",", ":"}
  <1>1. \A x, y : Punct(x) = Punct(y) => x = y
    BY DEF Punct
  <1>2. \A k, x : KeyToken(k) # Punct(x)
    BY DEF Punct, KeyToken
  <1>3. \A t \in Texts : \A x : t # Punct(x)
    <2> SUFFICES ASSUME NEW t \in Texts, NEW x, t = Punct(x) PROVE FALSE
      BY Zenon
    <2>1. t[1] = "punct"
      BY DEF Punct
    <2> QED
      BY <2>1, TreeAssumption DEF Kinds, Scalars
  <1>4. \A k, l \in Nat : KeyToken(k) = KeyToken(l) => k = l
    BY DEF KeyToken
  <1>5. {Comma, Colon, OpenArray, CloseArray, OpenObject, CloseObject} \subseteq Token
    BY Zenon DEF Token, Comma, Colon, OpenArray, CloseArray, OpenObject, CloseObject
  <1>6. Texts \subseteq Token /\ \A k \in Nat : KeyToken(k) \in Token
    BY Zenon DEF Token
  <1>7. /\ Comma # CloseArray /\ Comma # CloseObject
        /\ OpenArray # OpenObject /\ OpenArray # CloseArray /\ OpenArray # CloseObject
        /\ OpenObject # CloseArray /\ OpenObject # CloseObject
    BY <1>1, Zenon DEF Comma, OpenArray, CloseArray, OpenObject, CloseObject
  <1>8. \A t \in Texts : t \notin {Comma, Colon, OpenArray, CloseArray, OpenObject, CloseObject}
    BY <1>3, Zenon DEF Comma, Colon, OpenArray, CloseArray, OpenObject, CloseObject
  <1>9. \A k \in Nat : KeyToken(k) # CloseArray /\ KeyToken(k) # CloseObject
    BY <1>2, Zenon DEF CloseArray, CloseObject
  <1> QED
    BY <1>4, <1>5, <1>6, <1>7, <1>8, <1>9, Zenon

\* The parts of a value are values; no key stands twice.
LEMMA ValueParts ==
    ASSUME NEW v \in Values
    PROVE  /\ v \in Texts /\ Height[v] \in Nat
           /\ \A p \in Parts(v) : p \in Values /\ p \in Texts /\ Height[p] < Height[v]
           /\ v[1] = "array" =>
                 /\ v[2] \in Seq(Texts)
                 /\ \A i \in DOMAIN v[2] : v[2][i] \in Parts(v)
           /\ v[1] = "object" =>
                 /\ v[2] \in Seq(Members) /\ DistinctKeys(v[2])
                 /\ \A i \in DOMAIN v[2] : v[2][i][2] \in Parts(v)
  <1>1. v \in Texts /\ ~Ambiguous(v)
    BY ValuesClean
  <1>2. \A p \in Parts(v) : p \in Values /\ p \in Texts /\ Height[p] < Height[v]
    BY <1>1, ValuesClean, PartsLower
  <1>3. v[1] = "array" =>
            v[2] \in Seq(Texts) /\ \A i \in DOMAIN v[2] : v[2][i] \in Parts(v)
    BY <1>1, TreeAssumption, Zenon DEF Parts
  <1>4. v[1] = "object" =>
            /\ v[2] \in Seq(Members) /\ DistinctKeys(v[2])
            /\ \A i \in DOMAIN v[2] : v[2][i][2] \in Parts(v)
    <2> SUFFICES ASSUME v[1] = "object"
                 PROVE  /\ v[2] \in Seq(Members) /\ DistinctKeys(v[2])
                        /\ \A i \in DOMAIN v[2] : v[2][i][2] \in Parts(v)
      BY Zenon
    <2>1. v[2] \in Seq(Members)
      BY <1>1, TreeAssumption, Zenon DEF Members
    <2>2. DistinctKeys(v[2])
      BY <1>1, Zenon DEF DistinctKeys, Ambiguous
    <2>3. Parts(v) = {v[2][i][2] : i \in DOMAIN v[2]}
      BY DEF Parts
    <2> QED
      BY <2>1, <2>2, <2>3, Zenon
  <1>5. Height[v] \in Nat
    BY <1>1, TreeAssumption
  <1> QED
    BY <1>1, <1>2, <1>3, <1>4, <1>5, Zenon

\* The members of an object as they are written.
LEMMA ObjectMembers ==
    ASSUME NEW v \in Values, v[1] = "object"
    PROVE  /\ Sorted(v[2]) \in Seq(Members) /\ Len(Sorted(v[2])) = Len(v[2])
           /\ DOMAIN v[2] = 1 .. Len(v[2]) /\ Len(v[2]) \in Nat
           /\ \A i \in DOMAIN v[2] :
                 Sorted(v[2])[i][1] \in Nat /\ Sorted(v[2])[i][2] \in Parts(v)
  <1>1. v[2] \in Seq(Members) /\ DistinctKeys(v[2])
        /\ \A i \in DOMAIN v[2] : v[2][i][2] \in Parts(v)
    BY ValueParts, Zenon
  <1>2. /\ Sorted(v[2]) \in Seq(Members) /\ Len(Sorted(v[2])) = Len(v[2])
        /\ \A i \in DOMAIN v[2] : \E j \in DOMAIN v[2] : Sorted(v[2])[i] = v[2][j]
    BY <1>1, SortedDef, Zenon
  <1>3. /\ DOMAIN v[2] = 1 .. Len(v[2]) /\ Len(v[2]) \in Nat
        /\ \A i \in DOMAIN v[2] : v[2][i][1] \in Nat
    BY <1>1 DEF Members
  <1> QED
    BY <1>1, <1>2, <1>3, Zenon

\* What is written between the brackets, part by part, if f is what is written for
\* the values below.
ArrayItems(v, f) == [i \in DOMAIN v[2] |-> f[v[2][i]]]

ObjectItems(v, f) ==
    [i \in DOMAIN v[2] |->
        <<KeyToken(Sorted(v[2])[i][1]), Colon>> ## f[Sorted(v[2])[i][2]]]

\* The three shapes of what is pushed.
LEMMA PushedShapes ==
    ASSUME NEW v, NEW f
    PROVE  /\ v[1] = "array" => Pushed(v, f) =
                 (One(OpenArray) ## Separated(ArrayItems(v, f))) ## One(CloseArray)
           /\ v[1] = "object" => Pushed(v, f) =
                 (One(OpenObject) ## Separated(ObjectItems(v, f))) ## One(CloseObject)
           /\ v[1] # "array" /\ v[1] # "object" => Pushed(v, f) = One(v)
  <1>1. v[1] = "array" => Pushed(v, f) =
            (One(OpenArray) ## Separated(ArrayItems(v, f))) ## One(CloseArray)
    BY Zenon DEF Pushed, ArrayItems, OpenArray, CloseArray, One, ##
  <1>2. v[1] = "object" => Pushed(v, f) =
            (One(OpenObject) ## Separated(ObjectItems(v, f))) ## One(CloseObject)
    BY Zenon DEF Pushed, ObjectItems, OpenObject, CloseObject, Colon, One, ##
  <1>3. v[1] # "array" /\ v[1] # "object" => Pushed(v, f) = One(v)
    BY Zenon DEF Pushed, One
  <1> QED
    BY <1>1, <1>2, <1>3, Zenon

\* A key and a colon before a text.
LEMMA KeyAndColon ==
    ASSUME NEW k \in Nat, NEW a \in Out
    PROVE  /\ <<KeyToken(k), Colon>> ## a = One(KeyToken(k)) ## (One(Colon) ## a)
           /\ <<KeyToken(k), Colon>> ## a \in Out
  <1>1. KeyToken(k) \in Token /\ Colon \in Token
    BY Tokens, Zenon
  <1>2. <<KeyToken(k), Colon>> = One(KeyToken(k)) ## One(Colon)
    BY DEF One, ##
  <1>3. One(KeyToken(k)) \in Out /\ One(Colon) \in Out
    BY <1>1, OutOne, Zenon
  <1>4. One(Colon) ## a \in Out
    BY <1>3, OutClosed, Zenon
  <1>5. (One(KeyToken(k)) ## One(Colon)) ## a = One(KeyToken(k)) ## (One(Colon) ## a)
    BY <1>3, OutAssoc, Zenon
  <1>6. One(KeyToken(k)) ## (One(Colon) ## a) \in Out
    BY <1>3, <1>4, OutClosed, Zenon
  <1> QED
    BY <1>2, <1>5, <1>6, Zenon

\* The parts between the brackets are texts, if those below are.
LEMMA ItemsOut ==
    ASSUME NEW v \in Values, NEW f, \A p \in Parts(v) : f[p] \in Out
    PROVE  /\ v[1] = "array" =>
                 /\ ArrayItems(v, f) \in Seq(Out) /\ Len(ArrayItems(v, f)) = Len(v[2])
                 /\ Len(v[2]) \in Nat /\ DOMAIN v[2] = 1 .. Len(v[2])
           /\ v[1] = "object" =>
                 /\ ObjectItems(v, f) \in Seq(Out) /\ Len(ObjectItems(v, f)) = Len(v[2])
  <1>1. CASE v[1] = "array"
    <2>1. Len(v[2]) \in Nat /\ DOMAIN v[2] = 1 .. Len(v[2])
      BY <1>1, ValueParts
    <2>2. \A i \in DOMAIN v[2] : f[v[2][i]] \in Out
      BY <1>1, ValueParts, Zenon
    <2>3. ArrayItems(v, f) \in [1 .. Len(v[2]) -> Out]
      BY <2>1, <2>2, Zenon DEF ArrayItems
    <2>4. ArrayItems(v, f) \in Seq(Out) /\ Len(ArrayItems(v, f)) = Len(v[2])
      BY <2>1, <2>3
    <2> QED
      BY <1>1, <2>1, <2>4, Zenon
  <1>2. CASE v[1] = "object"
    <2>1. /\ Len(v[2]) \in Nat /\ DOMAIN v[2] = 1 .. Len(v[2])
          /\ \A i \in DOMAIN v[2] : Sorted(v[2])[i][1] \in Nat /\ Sorted(v[2])[i][2] \in Parts(v)
      BY <1>2, ObjectMembers, Zenon
    <2>2. \A i \in DOMAIN v[2] :
              <<KeyToken(Sorted(v[2])[i][1]), Colon>> ## f[Sorted(v[2])[i][2]] \in Out
      BY <2>1, KeyAndColon, Zenon
    <2>3. ObjectItems(v, f) \in [1 .. Len(v[2]) -> Out]
      BY <2>1, <2>2, Zenon DEF ObjectItems
    <2>4. ObjectItems(v, f) \in Seq(Out) /\ Len(ObjectItems(v, f)) = Len(v[2])
      BY <2>1, <2>3
    <2> QED
      BY <1>2, <2>4, Zenon
  <1> QED
    BY <1>1, <1>2, Zenon

\* What is pushed for a value looks at its parts only, and is a text if they are.
LEMMA PushedBelow ==
    ASSUME NEW v \in Values
    PROVE  /\ \A f : (\A p \in Parts(v) : f[p] \in Out) => Pushed(v, f) \in Out
           /\ \A f, g : (\A p \in Parts(v) : f[p] = g[p]) => Pushed(v, f) = Pushed(v, g)
  <1>1. ASSUME NEW f, \A p \in Parts(v) : f[p] \in Out
        PROVE  Pushed(v, f) \in Out
    <2>1. \A parts \in Seq(Out) : Separated(parts) \in Out
      <3>1. \A parts \in Seq(Out) : Len(parts) \in 0 .. Len(parts)
        OBVIOUS
      <3> QED
        BY <3>1, WrittenDef, Zenon DEF Separated
    <2>2. /\ One(OpenArray) \in Out /\ One(CloseArray) \in Out
          /\ One(OpenObject) \in Out /\ One(CloseObject) \in Out /\ One(v) \in Out
      BY Tokens, OutOne, ValueParts, Zenon
    <2>3. CASE v[1] = "array"
      <3>1. One(OpenArray) ## Separated(ArrayItems(v, f)) \in Out
        BY <1>1, <2>1, <2>2, <2>3, ItemsOut, OutClosed, Zenon
      <3> QED
        BY <2>2, <2>3, <3>1, PushedShapes, OutClosed
    <2>4. CASE v[1] = "object"
      <3>1. One(OpenObject) ## Separated(ObjectItems(v, f)) \in Out
        BY <1>1, <2>1, <2>2, <2>4, ItemsOut, OutClosed, Zenon
      <3> QED
        BY <2>2, <2>4, <3>1, PushedShapes, OutClosed
    <2> QED
      BY <2>2, <2>3, <2>4, PushedShapes, Zenon
  <1>2. ASSUME NEW f, NEW g, \A p \in Parts(v) : f[p] = g[p]
        PROVE  Pushed(v, f) = Pushed(v, g)
    <2>1. CASE v[1] = "array"
      <3>1. \A i \in DOMAIN v[2] : f[v[2][i]] = g[v[2][i]]
        BY <1>2, <2>1, ValueParts, Zenon
      <3>2. ArrayItems(v, f) = ArrayItems(v, g)
        BY <3>1, Zenon DEF ArrayItems
      <3> QED
        BY <2>1, <3>2, PushedShapes, Zenon
    <2>2. CASE v[1] = "object"
      <3>1. \A i \in DOMAIN v[2] : f[Sorted(v[2])[i][2]] = g[Sorted(v[2])[i][2]]
        BY <1>2, <2>2, ObjectMembers, Zenon
      <3>2. ObjectItems(v, f) = ObjectItems(v, g)
        BY <3>1, Zenon DEF ObjectItems
      <3> QED
        BY <2>2, <3>2, PushedShapes, Zenon
    <2> QED
      BY <2>1, <2>2, PushedShapes, Zenon
  <1> QED
    BY <1>1, <1>2, Zenon

\* write_value is what its definition says.
LEMMA WriteDef ==
    \A v \in Values : write_value[v] \in Out /\ write_value[v] = Pushed(v, write_value)
  <1> DEFINE H == [v \in Values |-> Height[v]]
             F == [x \in Values \X [Values -> Out] |-> Pushed(x[1], x[2])]
  <1>1. H \in [Values -> Nat] /\ \A v \in Values : H[v] = Height[v]
    BY ValueParts, Zenon
  <1>2. \A v \in Values : \A f \in [Values -> Out] : F[<<v, f>>] = Pushed(v, f)
    BY Zenon
  <1> HIDE DEF F, H
  <1>3. \A v \in Values : \A p \in Parts(v) : p \in Values /\ H[p] < H[v]
    BY <1>1, ValueParts, Zenon
  <1>4. LooksBelow(Values, H, Out, F)
    <2>1. ASSUME NEW v \in Values, NEW f \in [Values -> Out] PROVE F[<<v, f>>] \in Out
      BY <1>2, <1>3, PushedBelow, Zenon
    <2>2. ASSUME NEW v \in Values, NEW f \in [Values -> Out], NEW g \in [Values -> Out],
                 \A s \in Values : H[s] < H[v] => f[s] = g[s]
          PROVE  F[<<v, f>>] = F[<<v, g>>]
      <3>1. \A p \in Parts(v) : f[p] = g[p]
        BY <1>3, <2>2, Zenon
      <3>2. Pushed(v, f) = Pushed(v, g)
        BY <3>1, PushedBelow, Zenon
      <3> QED
        BY <1>2, <3>2, Zenon
    <2>3. Out # {}
      BY OutEmpty, Zenon
    <2> QED
      BY <1>1, <2>1, <2>2, <2>3, Zenon DEF LooksBelow
  <1>5. Defined(Values, Out, F) # {}
    BY <1>4, Recursion, Zenon
  <1>6. PICK f \in [Values -> Out] : \A v \in Values : f[v] = Pushed(v, f)
    BY <1>2, <1>5, Zenon DEF Defined
  <1>7. f = [v \in Values |-> Pushed(v, f)]
    BY <1>6, Zenon
  <1>8. write_value = [v \in Values |-> Pushed(v, write_value)]
    <2>1. write_value = CHOOSE g : g = [v \in Values |-> Pushed(v, g)]
      BY Zenon DEF write_value
    <2> QED
      BY <1>7, <2>1, Zenon
  <1>9. \A v \in Values : write_value[v] = Pushed(v, write_value)
    BY <1>8, Zenon
  <1> DEFINE G == {v \in Values : write_value[v] \in Out}
  <1>10. ASSUME NEW v \in Values, \A s \in Values : H[s] < H[v] => s \in G
         PROVE  v \in G
    <2>1. \A p \in Parts(v) : write_value[p] \in Out
      BY <1>3, <1>10, Zenon
    <2> QED
      BY <1>9, <2>1, PushedBelow, Zenon
  <1>11. Values \subseteq G
    <2> HIDE DEF G
    <2> QED
      BY <1>1, <1>10, EveryElement
  <1> QED
    BY <1>9, <1>11, Zenon

-----------------------------------------------------------------------------
(* The canonical form tells apart what means different things *)

\* What stands first in a value, and what follows it.
LEMMA WriteShapes ==
    ASSUME NEW v \in Values, NEW x \in Out
    PROVE  /\ v[1] = "array" =>
                 /\ write_value[v] ## x
                      = One(OpenArray) ## (Separated(ArrayItems(v, write_value)) ## (One(CloseArray) ## x))
                 /\ Separated(ArrayItems(v, write_value)) ## (One(CloseArray) ## x) \in Out
           /\ v[1] = "object" =>
                 /\ write_value[v] ## x
                      = One(OpenObject) ## (Separated(ObjectItems(v, write_value)) ## (One(CloseObject) ## x))
                 /\ Separated(ObjectItems(v, write_value)) ## (One(CloseObject) ## x) \in Out
           /\ v[1] # "array" /\ v[1] # "object" => write_value[v] ## x = One(v) ## x
  <1>1. ASSUME NEW o \in Token, NEW c \in Token, NEW S \in Out
        PROVE  /\ ((One(o) ## S) ## One(c)) ## x = One(o) ## (S ## (One(c) ## x))
               /\ S ## (One(c) ## x) \in Out
    <2>1. One(o) \in Out /\ One(c) \in Out
      BY OutOne, Zenon
    <2>2. One(o) ## S \in Out /\ One(c) ## x \in Out
      BY <2>1, OutClosed, Zenon
    <2>3. ((One(o) ## S) ## One(c)) ## x = (One(o) ## S) ## (One(c) ## x)
      <3>1. One(o) ## S \in Out /\ One(c) \in Out
        BY <2>1, <2>2
      <3> QED
        BY <3>1, OutAssoc
    <2>4. (One(o) ## S) ## (One(c) ## x) = One(o) ## (S ## (One(c) ## x))
      <3>1. One(o) \in Out /\ One(c) ## x \in Out
        BY <2>1, <2>2
      <3> QED
        BY <3>1, OutAssoc
    <2>5. S ## (One(c) ## x) \in Out
      BY <2>2, OutClosed, Zenon
    <2> QED
      BY <2>3, <2>4, <2>5, Zenon
  <1>2. \A parts \in Seq(Out) : Separated(parts) \in Out
    <2>1. \A parts \in Seq(Out) : Len(parts) \in 0 .. Len(parts)
      OBVIOUS
    <2> QED
      BY <2>1, WrittenDef, Zenon DEF Separated
  <1>3. \A p \in Parts(v) : write_value[p] \in Out
    BY ValueParts, WriteDef, Zenon
  <1>4. write_value[v] = Pushed(v, write_value)
    BY WriteDef, Zenon
  <1>5. OpenArray \in Token /\ CloseArray \in Token /\ OpenObject \in Token /\ CloseObject \in Token
    BY Tokens, Zenon
  <1>6. CASE v[1] = "array"
    <2>1. Separated(ArrayItems(v, write_value)) \in Out
      BY <1>2, <1>3, <1>6, ItemsOut, Zenon
    <2>2. write_value[v] = (One(OpenArray) ## Separated(ArrayItems(v, write_value))) ## One(CloseArray)
      BY <1>4, <1>6, PushedShapes, Zenon
    <2> QED
      BY <1>1, <1>5, <1>6, <2>1, <2>2
  <1>7. CASE v[1] = "object"
    <2>1. Separated(ObjectItems(v, write_value)) \in Out
      BY <1>2, <1>3, <1>7, ItemsOut, Zenon
    <2>2. write_value[v] = (One(OpenObject) ## Separated(ObjectItems(v, write_value))) ## One(CloseObject)
      BY <1>4, <1>7, PushedShapes, Zenon
    <2> QED
      BY <1>1, <1>5, <1>7, <2>1, <2>2
  <1> QED
    BY <1>4, <1>6, <1>7, PushedShapes, Zenon

\* No value begins with a closing bracket.
LEMMA ValueBegins ==
    ASSUME NEW v \in Values, NEW c \in {CloseArray, CloseObject}
    PROVE  NeverBegins(write_value[v], c)
  <1> SUFFICES ASSUME NEW x \in Out, NEW y \in Out, write_value[v] ## x = One(c) ## y
               PROVE  FALSE
    BY Zenon DEF NeverBegins
  <1>1. c \in Token /\ v \in Token /\ OpenArray \in Token /\ OpenObject \in Token
    BY Tokens, ValueParts, Zenon
  <1>2. c # v /\ c # OpenArray /\ c # OpenObject
    BY Tokens, ValueParts, Zenon
  <1> QED
    BY <1>1, <1>2, WriteShapes, FirstToken

\* Nor does a member of an object.
LEMMA MemberBegins ==
    ASSUME NEW k \in Nat, NEW a \in Out
    PROVE  NeverBegins(<<KeyToken(k), Colon>> ## a, CloseObject)
  <1> SUFFICES ASSUME NEW x \in Out, NEW y \in Out,
                      (<<KeyToken(k), Colon>> ## a) ## x = One(CloseObject) ## y
               PROVE  FALSE
    BY Zenon DEF NeverBegins
  <1>1. KeyToken(k) \in Token /\ CloseObject \in Token /\ Colon \in Token /\ KeyToken(k) # CloseObject
    BY Tokens, Zenon
  <1>2. One(KeyToken(k)) \in Out /\ One(Colon) ## a \in Out
    BY <1>1, OutOne, OutClosed, Zenon
  <1>3. (One(KeyToken(k)) ## (One(Colon) ## a)) ## x = One(KeyToken(k)) ## ((One(Colon) ## a) ## x)
    BY <1>2, OutAssoc
  <1>4. One(KeyToken(k)) ## ((One(Colon) ## a) ## x) = One(CloseObject) ## y
    BY <1>3, KeyAndColon, Zenon
  <1>5. (One(Colon) ## a) ## x \in Out
    BY <1>2, OutClosed, Zenon
  <1> QED
    BY <1>1, <1>4, <1>5, FirstToken

\* Two members are told apart, if their values are.
LEMMA MembersApart ==
    ASSUME NEW k \in Nat, NEW l \in Nat, NEW a \in Out, NEW b \in Out, Apart(a, b)
    PROVE  Apart(<<KeyToken(k), Colon>> ## a, <<KeyToken(l), Colon>> ## b)
  <1> SUFFICES ASSUME NEW x \in Out, NEW y \in Out,
                      (<<KeyToken(k), Colon>> ## a) ## x = (<<KeyToken(l), Colon>> ## b) ## y
               PROVE  KeyToken(k) = KeyToken(l) /\ a = b
    BY Zenon DEF Apart
  <1>1. KeyToken(k) \in Token /\ KeyToken(l) \in Token /\ Colon \in Token
    BY Tokens, Zenon
  <1>2. ASSUME NEW j \in Nat, NEW d \in Out, NEW z \in Out
        PROVE  /\ (<<KeyToken(j), Colon>> ## d) ## z = One(KeyToken(j)) ## (One(Colon) ## (d ## z))
               /\ One(Colon) ## (d ## z) \in Out /\ d ## z \in Out
    <2>1. One(KeyToken(j)) \in Out /\ One(Colon) \in Out /\ d ## z \in Out
      BY Tokens, OutOne, OutClosed, Zenon
    <2>2. One(Colon) ## d \in Out
      BY <2>1, OutClosed, Zenon
    <2>3. (One(KeyToken(j)) ## (One(Colon) ## d)) ## z = One(KeyToken(j)) ## ((One(Colon) ## d) ## z)
      <3>1. One(KeyToken(j)) \in Out /\ One(Colon) ## d \in Out
        BY <2>1, <2>2
      <3> QED
        BY <3>1, OutAssoc
    <2>4. (One(Colon) ## d) ## z = One(Colon) ## (d ## z)
      <3>1. One(Colon) \in Out
        BY <2>1
      <3> QED
        BY <3>1, OutAssoc
    <2>5. (<<KeyToken(j), Colon>> ## d) ## z = One(KeyToken(j)) ## (One(Colon) ## (d ## z))
      BY <2>3, <2>4, KeyAndColon, Zenon
    <2> QED
      BY <2>1, <2>5, OutClosed, Zenon
  <1>3. One(KeyToken(k)) ## (One(Colon) ## (a ## x)) = One(KeyToken(l)) ## (One(Colon) ## (b ## y))
    BY <1>2
  <1>4. KeyToken(k) = KeyToken(l) /\ One(Colon) ## (a ## x) = One(Colon) ## (b ## y)
    BY <1>1, <1>2, <1>3, FirstToken
  <1>5. a ## x = b ## y
    BY <1>1, <1>2, <1>4, FirstToken
  <1> QED
    BY <1>4, <1>5, Zenon DEF Apart

\* What is written for v can be read back: a value whose form, whatever follows, begins
\* in the same way has the same form and means the same.
Readable(v) ==
    \A w \in Values : \A x, y \in Out :
        write_value[v] ## x = write_value[w] ## y =>
            SameMeaning[v][w] /\ write_value[v] = write_value[w]

\* Two readable values that are written alike.
LEMMA ReadableAlike ==
    ASSUME NEW v \in Values, NEW w \in Values, Readable(v)
    PROVE  /\ Apart(write_value[v], write_value[w])
           /\ write_value[v] = write_value[w] => SameMeaning[v][w]
  <1>1. Apart(write_value[v], write_value[w])
    BY DEF Apart, Readable
  <1>2. write_value[v] = write_value[w] => SameMeaning[v][w]
    BY OutEmpty DEF Readable
  <1> QED
    BY <1>1, <1>2

\* The token that a value begins with.
First(v) ==
    CASE v[1] = "array" -> OpenArray
      [] v[1] = "object" -> OpenObject
      [] OTHER -> v

\* It does begin with it.
LEMMA ValueStarts ==
    ASSUME NEW v \in Values, NEW x \in Out
    PROVE  First(v) \in Token /\ \E r \in Out : write_value[v] ## x = One(First(v)) ## r
  <1>1. v \in Token /\ OpenArray \in Token /\ OpenObject \in Token
    BY Tokens, ValueParts, Zenon
  <1>2. CASE v[1] = "array"
    <2>1. First(v) = OpenArray
      BY <1>2, Zenon DEF First
    <2> QED
      BY <1>1, <1>2, <2>1, WriteShapes, Zenon
  <1>3. CASE v[1] = "object"
    <2>1. First(v) = OpenObject
      BY <1>3, Zenon DEF First
    <2> QED
      BY <1>1, <1>3, <2>1, WriteShapes, Zenon
  <1>4. CASE v[1] # "array" /\ v[1] # "object"
    <2>1. First(v) = v
      BY <1>4, Zenon DEF First
    <2> QED
      BY <1>1, <1>4, <2>1, WriteShapes
  <1> QED
    BY <1>2, <1>3, <1>4, Zenon

\* The first token tells the kind of value.
LEMMA SameKind ==
    ASSUME NEW v \in Values, NEW w \in Values, NEW x \in Out, NEW y \in Out,
           write_value[v] ## x = write_value[w] ## y
    PROVE  /\ v[1] = "array" => w[1] = "array"
           /\ v[1] = "object" => w[1] = "object"
           /\ v[1] # "array" /\ v[1] # "object" => v = w
  <1>1. PICK r \in Out : write_value[v] ## x = One(First(v)) ## r
    BY ValueStarts, Zenon
  <1>2. PICK s \in Out : write_value[w] ## y = One(First(w)) ## s
    BY ValueStarts, Zenon
  <1>3. One(First(v)) ## r = One(First(w)) ## s
    BY <1>1, <1>2, Zenon
  <1>4. First(v) \in Token /\ First(w) \in Token
    BY OutEmpty, ValueStarts, Zenon
  <1>5. First(v) = First(w)
    BY <1>3, <1>4, FirstToken
  <1>6. /\ v # OpenArray /\ v # OpenObject /\ w # OpenArray /\ w # OpenObject
        /\ OpenArray # OpenObject
    BY Tokens, ValueParts, Zenon
  <1> QED
    BY <1>5, <1>6, Zenon DEF First

\* Arrays.
LEMMA ArrayReadable ==
    ASSUME NEW v \in Values, v[1] = "array", \A p \in Parts(v) : Readable(p)
    PROVE  Readable(v)
  <1> SUFFICES ASSUME NEW w \in Values, NEW x \in Out, NEW y \in Out,
                      write_value[v] ## x = write_value[w] ## y
               PROVE  SameMeaning[v][w] /\ write_value[v] = write_value[w]
    BY Zenon DEF Readable
  <1>1. w[1] = "array"
    BY SameKind, Zenon
  <1> DEFINE p == ArrayItems(v, write_value)
             q == ArrayItems(w, write_value)
  <1>2. /\ \A d \in Parts(v) : d \in Values /\ write_value[d] \in Out
        /\ \A d \in Parts(w) : d \in Values /\ write_value[d] \in Out
    BY ValueParts, WriteDef, Zenon
  <1>3. /\ p \in Seq(Out) /\ Len(p) = Len(v[2]) /\ Len(v[2]) \in Nat /\ DOMAIN v[2] = 1 .. Len(v[2])
        /\ q \in Seq(Out) /\ Len(q) = Len(w[2]) /\ Len(w[2]) \in Nat /\ DOMAIN w[2] = 1 .. Len(w[2])
    BY <1>1, <1>2, ItemsOut, Zenon
  <1>4. /\ \A n \in 1 .. Len(p) : p[n] = write_value[v[2][n]] /\ v[2][n] \in Parts(v)
        /\ \A n \in 1 .. Len(q) : q[n] = write_value[w[2][n]] /\ w[2][n] \in Parts(w)
    BY <1>1, <1>3, ValueParts, Zenon DEF ArrayItems
  <1>5. Separated(p) ## (One(CloseArray) ## x) = Separated(q) ## (One(CloseArray) ## y)
    <2>1. /\ write_value[v] ## x = One(OpenArray) ## (Separated(p) ## (One(CloseArray) ## x))
          /\ Separated(p) ## (One(CloseArray) ## x) \in Out
          /\ write_value[w] ## y = One(OpenArray) ## (Separated(q) ## (One(CloseArray) ## y))
          /\ Separated(q) ## (One(CloseArray) ## y) \in Out
      BY <1>1, WriteShapes, Zenon
    <2> DEFINE a == Separated(p) ## (One(CloseArray) ## x)
               b == Separated(q) ## (One(CloseArray) ## y)
    <2>2. One(OpenArray) ## a = One(OpenArray) ## b /\ a \in Out /\ b \in Out
      BY <2>1, Zenon
    <2>3. OpenArray \in Token
      BY Tokens, Zenon
    <2> HIDE DEF a, b
    <2>4. a = b
      BY <2>2, <2>3, FirstToken
    <2> QED
      BY <2>4, Zenon DEF a, b
  <1> HIDE DEF p, q
  <1>6. p = q
    <2>1. /\ \A n \in 1 .. Len(p) : NeverBegins(p[n], CloseArray)
          /\ \A n \in 1 .. Len(q) : NeverBegins(q[n], CloseArray)
      BY <1>2, <1>4, ValueBegins, Zenon
    <2>2. \A n \in 1 .. Len(p) : n \in 1 .. Len(q) => Apart(p[n], q[n])
      <3> SUFFICES ASSUME NEW n \in 1 .. Len(p), n \in 1 .. Len(q)
                   PROVE  Apart(p[n], q[n])
        BY Zenon
      <3>1. v[2][n] \in Values /\ w[2][n] \in Values /\ Readable(v[2][n])
        BY <1>2, <1>4, Zenon
      <3>2. Apart(write_value[v[2][n]], write_value[w[2][n]])
        BY <3>1, ReadableAlike, Zenon
      <3> QED
        BY <1>4, <3>2, Zenon
    <2>3. CloseArray \in Token /\ CloseArray # Comma
      BY Tokens, Zenon
    <2>4. JoinedAlike(p, q, CloseArray, x, y)
      BY <1>3, <1>5, <2>1, <2>2, <2>3, Zenon DEF JoinedAlike
    <2> QED
      BY <2>4, JoinedSame, Zenon
  <1>7. Len(w[2]) = Len(v[2]) /\ \A i \in DOMAIN v[2] : SameMeaning[v[2][i]][w[2][i]]
    <2>1. \A i \in DOMAIN v[2] : write_value[v[2][i]] = write_value[w[2][i]]
                                 /\ v[2][i] \in Parts(v) /\ w[2][i] \in Parts(w)
      BY <1>3, <1>4, <1>6, Zenon
    <2>2. \A i \in DOMAIN v[2] : Readable(v[2][i]) /\ v[2][i] \in Values /\ w[2][i] \in Values
      BY <1>2, <2>1, Zenon
    <2>3. \A i \in DOMAIN v[2] : SameMeaning[v[2][i]][w[2][i]]
      <3> TAKE i \in DOMAIN v[2]
      <3>1. write_value[v[2][i]] = write_value[w[2][i]]
        BY <2>1, Zenon
      <3>2. Readable(v[2][i]) /\ v[2][i] \in Values /\ w[2][i] \in Values
        BY <2>2, Zenon
      <3> QED
        BY <3>1, <3>2, ReadableAlike, Zenon
    <2> QED
      BY <1>3, <1>6, <2>3, Zenon
  <1>8. SameMeaning[v][w]
    <2>1. Alike(v, SameMeaning, w)
      BY <1>1, <1>7, Zenon DEF Alike
    <2> QED
      BY <2>1, MeaningDef, ValueParts, Zenon
  <1>9. write_value[v] = write_value[w]
    <2>1. Pushed(v, write_value) = (One(OpenArray) ## Separated(p)) ## One(CloseArray)
      BY PushedShapes, Zenon DEF p
    <2>2. Pushed(w, write_value) = (One(OpenArray) ## Separated(q)) ## One(CloseArray)
      BY <1>1, PushedShapes, Zenon DEF q
    <2>3. Pushed(v, write_value) = Pushed(w, write_value)
      BY <1>6, <2>1, <2>2, Zenon
    <2> QED
      BY <2>3, WriteDef, Zenon
  <1> QED
    BY <1>8, <1>9

\* Objects with the same keys in order, and values that mean the same, mean the same.
LEMMA SortedAlike ==
    ASSUME NEW v \in Values, NEW w \in Values, v[1] = "object", w[1] = "object",
           Len(v[2]) = Len(w[2]),
           \A i \in DOMAIN v[2] :
              /\ Sorted(v[2])[i][1] = Sorted(w[2])[i][1]
              /\ SameMeaning[Sorted(v[2])[i][2]][Sorted(w[2])[i][2]]
    PROVE  SameMeaning[v][w]
  <1> DEFINE a == Sorted(v[2])
             b == Sorted(w[2])
  <1>1. /\ DOMAIN v[2] = DOMAIN w[2]
        /\ v[2] \in Seq(Members) /\ DistinctKeys(v[2])
        /\ w[2] \in Seq(Members) /\ DistinctKeys(w[2])
    BY ValueParts, ObjectMembers, Zenon
  <1>2. /\ \A i \in DOMAIN v[2] : \E j \in DOMAIN v[2] : a[i] = v[2][j]
        /\ \A i \in DOMAIN v[2] : \E j \in DOMAIN v[2] : a[j] = v[2][i]
    BY <1>1, SortedDef, Zenon
  <1>3. /\ \A i \in DOMAIN w[2] : \E j \in DOMAIN w[2] : b[i] = w[2][j]
        /\ \A i \in DOMAIN w[2] : \E j \in DOMAIN w[2] : b[j] = w[2][i]
    BY <1>1, SortedDef, Zenon
  <1>4. \A i \in DOMAIN v[2] : a[i][1] = b[i][1] /\ SameMeaning[a[i][2]][b[i][2]]
    OBVIOUS
  <1> HIDE DEF a, b
  <1>5. \A i \in DOMAIN v[2] : \E j \in DOMAIN w[2] :
            w[2][j][1] = v[2][i][1] /\ SameMeaning[v[2][i][2]][w[2][j][2]]
    <2> TAKE i \in DOMAIN v[2]
    <2>1. PICK k \in DOMAIN v[2] : a[k] = v[2][i]
      BY <1>2, Zenon
    <2>2. PICK j \in DOMAIN w[2] : b[k] = w[2][j]
      BY <1>1, <1>3, Zenon
    <2>3. a[k][1] = b[k][1] /\ SameMeaning[a[k][2]][b[k][2]]
      BY <1>4, Zenon
    <2>4. w[2][j][1] = v[2][i][1] /\ SameMeaning[v[2][i][2]][w[2][j][2]]
      BY <2>1, <2>2, <2>3
    <2> QED
      BY <2>4
  <1>6. \A j \in DOMAIN w[2] : \E i \in DOMAIN v[2] :
            w[2][j][1] = v[2][i][1] /\ SameMeaning[v[2][i][2]][w[2][j][2]]
    <2> TAKE j \in DOMAIN w[2]
    <2>1. PICK k \in DOMAIN w[2] : b[k] = w[2][j]
      BY <1>3, Zenon
    <2>2. PICK i \in DOMAIN v[2] : a[k] = v[2][i]
      BY <1>1, <1>2, Zenon
    <2> QED
      BY <1>1, <1>4, <2>1, <2>2
  <1>7. Alike(v, SameMeaning, w)
    BY <1>5, <1>6, Zenon DEF Alike
  <1> QED
    BY <1>7, MeaningDef, ValueParts, Zenon

\* Objects.
LEMMA ObjectReadable ==
    ASSUME NEW v \in Values, v[1] = "object", \A p \in Parts(v) : Readable(p)
    PROVE  Readable(v)
  <1> SUFFICES ASSUME NEW w \in Values, NEW x \in Out, NEW y \in Out,
                      write_value[v] ## x = write_value[w] ## y
               PROVE  SameMeaning[v][w] /\ write_value[v] = write_value[w]
    BY Zenon DEF Readable
  <1>1. w[1] = "object"
    BY SameKind, Zenon
  <1> DEFINE p == ObjectItems(v, write_value)
             q == ObjectItems(w, write_value)
             a == Sorted(v[2])
             b == Sorted(w[2])
  <1>2. /\ \A d \in Parts(v) : d \in Values /\ write_value[d] \in Out
        /\ \A d \in Parts(w) : d \in Values /\ write_value[d] \in Out
    BY ValueParts, WriteDef, Zenon
  <1>3. /\ p \in Seq(Out) /\ Len(p) = Len(v[2])
        /\ q \in Seq(Out) /\ Len(q) = Len(w[2])
    BY <1>1, <1>2, ItemsOut, Zenon
  <1>4. /\ DOMAIN v[2] = 1 .. Len(v[2]) /\ DOMAIN w[2] = 1 .. Len(w[2])
        /\ \A n \in DOMAIN v[2] : a[n][1] \in Nat /\ a[n][2] \in Parts(v)
        /\ \A n \in DOMAIN w[2] : b[n][1] \in Nat /\ b[n][2] \in Parts(w)
    BY <1>1, ObjectMembers, Zenon
  <1>5. /\ \A n \in DOMAIN v[2] : p[n] = <<KeyToken(a[n][1]), Colon>> ## write_value[a[n][2]]
        /\ \A n \in DOMAIN w[2] : q[n] = <<KeyToken(b[n][1]), Colon>> ## write_value[b[n][2]]
    BY Zenon DEF ObjectItems
  <1>6. Separated(p) ## (One(CloseObject) ## x) = Separated(q) ## (One(CloseObject) ## y)
    <2>1. /\ write_value[v] ## x = One(OpenObject) ## (Separated(p) ## (One(CloseObject) ## x))
          /\ Separated(p) ## (One(CloseObject) ## x) \in Out
          /\ write_value[w] ## y = One(OpenObject) ## (Separated(q) ## (One(CloseObject) ## y))
          /\ Separated(q) ## (One(CloseObject) ## y) \in Out
      BY <1>1, WriteShapes, Zenon
    <2> DEFINE c == Separated(p) ## (One(CloseObject) ## x)
               d == Separated(q) ## (One(CloseObject) ## y)
    <2>2. One(OpenObject) ## c = One(OpenObject) ## d /\ c \in Out /\ d \in Out
      BY <2>1, Zenon
    <2>3. OpenObject \in Token
      BY Tokens, Zenon
    <2> HIDE DEF c, d
    <2>4. c = d
      BY <2>2, <2>3, FirstToken
    <2> QED
      BY <2>4, Zenon DEF c, d
  <1> HIDE DEF p, q, a, b
  <1>7. \A n \in DOMAIN v[2] : n \in DOMAIN w[2] => Apart(write_value[a[n][2]], write_value[b[n][2]])
    <2> SUFFICES ASSUME NEW n \in DOMAIN v[2], n \in DOMAIN w[2]
                 PROVE  Apart(write_value[a[n][2]], write_value[b[n][2]])
      BY Zenon
    <2>1. a[n][2] \in Values /\ b[n][2] \in Values /\ Readable(a[n][2])
      BY <1>2, <1>4, Zenon
    <2> QED
      BY <2>1, ReadableAlike, Zenon
  <1>8. p = q
    <2>1. \A n \in 1 .. Len(p) : NeverBegins(p[n], CloseObject)
      <3> SUFFICES ASSUME NEW n \in DOMAIN v[2] PROVE NeverBegins(p[n], CloseObject)
        BY <1>3, <1>4, Zenon
      <3>1. a[n][1] \in Nat /\ write_value[a[n][2]] \in Out
        BY <1>2, <1>4, Zenon
      <3>2. NeverBegins(<<KeyToken(a[n][1]), Colon>> ## write_value[a[n][2]], CloseObject)
        BY <3>1, MemberBegins, Zenon
      <3> QED
        BY <1>5, <3>2, Zenon
    <2>2. \A n \in 1 .. Len(q) : NeverBegins(q[n], CloseObject)
      <3> SUFFICES ASSUME NEW n \in DOMAIN w[2] PROVE NeverBegins(q[n], CloseObject)
        BY <1>3, <1>4, Zenon
      <3>1. b[n][1] \in Nat /\ write_value[b[n][2]] \in Out
        BY <1>2, <1>4, Zenon
      <3>2. NeverBegins(<<KeyToken(b[n][1]), Colon>> ## write_value[b[n][2]], CloseObject)
        BY <3>1, MemberBegins, Zenon
      <3> QED
        BY <1>5, <3>2, Zenon
    <2>3. \A n \in 1 .. Len(p) : n \in 1 .. Len(q) => Apart(p[n], q[n])
      <3> SUFFICES ASSUME NEW n \in DOMAIN v[2], n \in DOMAIN w[2] PROVE Apart(p[n], q[n])
        BY <1>3, <1>4, Zenon
      <3>1. /\ a[n][1] \in Nat /\ b[n][1] \in Nat
            /\ write_value[a[n][2]] \in Out /\ write_value[b[n][2]] \in Out
        BY <1>2, <1>4, Zenon
      <3>2. Apart(write_value[a[n][2]], write_value[b[n][2]])
        BY <1>7, Zenon
      <3>3. Apart(<<KeyToken(a[n][1]), Colon>> ## write_value[a[n][2]],
                  <<KeyToken(b[n][1]), Colon>> ## write_value[b[n][2]])
        BY <3>1, <3>2, MembersApart, Zenon
      <3> QED
        BY <1>5, <3>3, Zenon
    <2>4. CloseObject \in Token /\ CloseObject # Comma
      BY Tokens, Zenon
    <2>5. JoinedAlike(p, q, CloseObject, x, y)
      BY <1>3, <1>6, <2>1, <2>2, <2>3, <2>4, Zenon DEF JoinedAlike
    <2> QED
      BY <2>5, JoinedSame, Zenon
  <1>9. DOMAIN w[2] = DOMAIN v[2] /\ Len(v[2]) = Len(w[2])
    BY <1>3, <1>4, <1>8, Zenon
  <1>10. \A n \in DOMAIN v[2] : a[n][1] = b[n][1] /\ SameMeaning[a[n][2]][b[n][2]]
    <2> TAKE n \in DOMAIN v[2]
    <2>1. /\ a[n][1] \in Nat /\ b[n][1] \in Nat
          /\ a[n][2] \in Values /\ b[n][2] \in Values /\ Readable(a[n][2])
          /\ write_value[a[n][2]] \in Out /\ write_value[b[n][2]] \in Out
      BY <1>2, <1>4, <1>9, Zenon
    <2> DEFINE c == write_value[a[n][2]]
               d == write_value[b[n][2]]
               k == a[n][1]
               l == b[n][1]
    <2>2. k \in Nat /\ l \in Nat /\ c \in Out /\ d \in Out
      BY <2>1, Zenon
    <2>3. <<KeyToken(k), Colon>> ## c = <<KeyToken(l), Colon>> ## d
      BY <1>5, <1>8, <1>9, Zenon
    <2> HIDE DEF c, d, k, l
    <2>4. k = l /\ c = d
      <3>1. One(KeyToken(k)) ## (One(Colon) ## c) = One(KeyToken(l)) ## (One(Colon) ## d)
        BY <2>2, <2>3, KeyAndColon, Zenon
      <3>2. One(Colon) ## c \in Out /\ One(Colon) ## d \in Out
        BY <2>2, Tokens, OutOne, OutClosed, Zenon
      <3>3. KeyToken(k) \in Token /\ KeyToken(l) \in Token /\ Colon \in Token
        BY <2>2, Tokens, Zenon
      <3>4. KeyToken(k) = KeyToken(l) /\ One(Colon) ## c = One(Colon) ## d
        BY <3>1, <3>2, <3>3, FirstToken
      <3>5. c = d
        BY <2>2, <3>3, <3>4, FirstToken
      <3>6. k = l
        BY <2>2, <3>4, Tokens, Zenon
      <3> QED
        BY <3>5, <3>6
    <2>5. a[n][1] = b[n][1] /\ write_value[a[n][2]] = write_value[b[n][2]]
      BY <2>4, Zenon DEF c, d, k, l
    <2> QED
      BY <2>1, <2>5, ReadableAlike, Zenon
  <1>11. SameMeaning[v][w]
    BY <1>1, <1>9, <1>10, SortedAlike, Zenon DEF a, b
  <1>12. write_value[v] = write_value[w]
    <2>1. Pushed(v, write_value) = (One(OpenObject) ## Separated(p)) ## One(CloseObject)
      BY PushedShapes, Zenon DEF p
    <2>2. Pushed(w, write_value) = (One(OpenObject) ## Separated(q)) ## One(CloseObject)
      BY <1>1, PushedShapes, Zenon DEF q
    <2>3. Pushed(v, write_value) = Pushed(w, write_value)
      BY <1>8, <2>1, <2>2, Zenon
    <2> QED
      BY <2>3, WriteDef, Zenon
  <1> QED
    BY <1>11, <1>12

\* Every value is read back from what is written for it.
LEMMA EveryReadable == \A v \in Values : Readable(v)
  <1> DEFINE H == [v \in Values |-> Height[v]]
             G == {v \in Values : Readable(v)}
  <1>1. H \in [Values -> Nat] /\ \A v \in Values : \A p \in Parts(v) : p \in Values /\ H[p] < H[v]
    BY ValueParts, Zenon
  <1> HIDE DEF H
  <1>2. ASSUME NEW v \in Values, \A s \in Values : H[s] < H[v] => s \in G
        PROVE  v \in G
    <2>1. \A p \in Parts(v) : Readable(p)
      BY <1>1, <1>2, Zenon
    <2>2. CASE v[1] # "array" /\ v[1] # "object"
      <3>1. \A w \in Values : \A x, y \in Out :
                write_value[v] ## x = write_value[w] ## y => v = w
        BY <2>2, SameKind, Zenon
      <3>2. SameMeaning[v][v]
        BY ValueParts, MeansItself, Zenon
      <3> QED
        BY <3>1, <3>2, Zenon DEF Readable
    <2> QED
      BY <2>1, <2>2, ArrayReadable, ObjectReadable, Zenon
  <1>3. Values \subseteq G
    <2> HIDE DEF G
    <2> QED
      BY <1>1, <1>2, EveryElement
  <1> QED
    BY <1>3, Zenon

-----------------------------------------------------------------------------
(* What means the same has one canonical form *)

\* Objects that mean the same have the same keys in order, and at each key values
\* that mean the same.
LEMMA AlikeSorted ==
    ASSUME NEW v \in Values, NEW w \in Values, v[1] = "object", SameMeaning[v][w]
    PROVE  /\ w[1] = "object" /\ Len(v[2]) = Len(w[2])
           /\ \A i \in DOMAIN v[2] :
                 /\ Sorted(v[2])[i][1] = Sorted(w[2])[i][1]
                 /\ SameMeaning[Sorted(v[2])[i][2]][Sorted(w[2])[i][2]]
  <1> DEFINE a == Sorted(v[2])
             b == Sorted(w[2])
             k == Len(v[2])
             l == Len(w[2])
             ka == [i \in 1 .. k |-> a[i][1]]
             kb == [i \in 1 .. l |-> b[i][1]]
  <1>1. Alike(v, SameMeaning, w)
    BY MeaningDef, ValueParts, Zenon
  <1>2. /\ w[1] = "object"
        /\ \A i \in DOMAIN v[2] : \E j \in DOMAIN w[2] :
              w[2][j][1] = v[2][i][1] /\ SameMeaning[v[2][i][2]][w[2][j][2]]
        /\ \A j \in DOMAIN w[2] : \E i \in DOMAIN v[2] :
              w[2][j][1] = v[2][i][1] /\ SameMeaning[v[2][i][2]][w[2][j][2]]
    BY <1>1, Zenon DEF Alike
  <1>3. /\ DOMAIN v[2] = 1 .. k /\ k \in Nat /\ \A i \in 1 .. k : a[i][1] \in Nat
        /\ DOMAIN w[2] = 1 .. l /\ l \in Nat /\ \A i \in 1 .. l : b[i][1] \in Nat
    <2>1. DOMAIN v[2] = 1 .. k /\ k \in Nat /\ \A i \in DOMAIN v[2] : a[i][1] \in Nat
      BY ObjectMembers, Zenon
    <2>2. DOMAIN w[2] = 1 .. l /\ l \in Nat /\ \A i \in DOMAIN w[2] : b[i][1] \in Nat
      BY <1>2, ObjectMembers, Zenon
    <2> HIDE DEF a, b, k, l
    <2> QED
      BY <2>1, <2>2, Zenon
  <1>4. /\ \A i \in 1 .. k : \E j \in 1 .. k : a[i] = v[2][j]
        /\ \A i \in 1 .. k : \E j \in 1 .. k : a[j] = v[2][i]
        /\ \A i, j \in 1 .. k : i < j => a[i][1] < a[j][1]
    <2>1. v[2] \in Seq(Members) /\ DistinctKeys(v[2])
      BY ValueParts, Zenon
    <2>2. /\ \A i \in DOMAIN v[2] : \E j \in DOMAIN v[2] : a[i] = v[2][j]
          /\ \A i \in DOMAIN v[2] : \E j \in DOMAIN v[2] : a[j] = v[2][i]
          /\ \A i, j \in DOMAIN v[2] : i < j => a[i][1] < a[j][1]
      BY <2>1, SortedDef, Zenon
    <2>3. DOMAIN v[2] = 1 .. k
      BY <1>3, Zenon
    <2> HIDE DEF a, k
    <2> QED
      BY <2>2, <2>3, Zenon
  <1>5. /\ \A i \in 1 .. l : \E j \in 1 .. l : b[i] = w[2][j]
        /\ \A i \in 1 .. l : \E j \in 1 .. l : b[j] = w[2][i]
        /\ \A i, j \in 1 .. l : i < j => b[i][1] < b[j][1]
    <2>1. w[2] \in Seq(Members) /\ DistinctKeys(w[2])
      BY <1>2, ValueParts, Zenon
    <2>2. /\ \A i \in DOMAIN w[2] : \E j \in DOMAIN w[2] : b[i] = w[2][j]
          /\ \A i \in DOMAIN w[2] : \E j \in DOMAIN w[2] : b[j] = w[2][i]
          /\ \A i, j \in DOMAIN w[2] : i < j => b[i][1] < b[j][1]
      BY <2>1, SortedDef, Zenon
    <2>3. DOMAIN w[2] = 1 .. l
      BY <1>3, Zenon
    <2> HIDE DEF b, l
    <2> QED
      BY <2>2, <2>3, Zenon
  <1> HIDE DEF a, b, k, l
  <1>6. /\ ka \in [1 .. k -> Nat] /\ \A i \in 1 .. k : ka[i] = a[i][1]
        /\ kb \in [1 .. l -> Nat] /\ \A i \in 1 .. l : kb[i] = b[i][1]
    BY <1>3, Zenon
  <1> HIDE DEF ka, kb
  <1>7. Ascending(ka, k) /\ Ascending(kb, l)
    <2>1. Ascending(ka, k)
      BY <1>4, <1>6, Zenon DEF Ascending
    <2>2. Ascending(kb, l)
      BY <1>5, <1>6, Zenon DEF Ascending
    <2> QED
      BY <2>1, <2>2
  <1>8. Covers(ka, k, kb, l)
    <2> SUFFICES ASSUME NEW i \in 1 .. k PROVE \E j \in 1 .. l : ka[i] = kb[j]
      BY Zenon DEF Covers
    <2>1. PICK h \in 1 .. k : a[i] = v[2][h]
      BY <1>4, Zenon
    <2>a. h \in DOMAIN v[2] /\ DOMAIN w[2] = 1 .. l
      BY <1>3, Zenon
    <2>2. PICK g \in 1 .. l : w[2][g][1] = v[2][h][1]
      <3>1. \E g \in DOMAIN w[2] : w[2][g][1] = v[2][h][1]
        BY <1>2, <2>a, Zenon
      <3> QED
        BY <2>a, <3>1, Zenon
    <2>3. PICK j \in 1 .. l : b[j] = w[2][g]
      BY <1>5, Zenon
    <2> QED
      BY <1>6, <2>1, <2>2, <2>3
  <1>9. Covers(kb, l, ka, k)
    <2> SUFFICES ASSUME NEW j \in 1 .. l PROVE \E i \in 1 .. k : kb[j] = ka[i]
      BY Zenon DEF Covers
    <2>1. PICK g \in 1 .. l : b[j] = w[2][g]
      BY <1>5, Zenon
    <2>a. g \in DOMAIN w[2] /\ DOMAIN v[2] = 1 .. k
      BY <1>3, Zenon
    <2>2. PICK h \in 1 .. k : w[2][g][1] = v[2][h][1]
      <3>1. \E h \in DOMAIN v[2] : w[2][g][1] = v[2][h][1]
        BY <1>2, <2>a, Zenon
      <3> QED
        BY <2>a, <3>1, Zenon
    <2>3. PICK i \in 1 .. k : a[i] = v[2][h]
      BY <1>4, Zenon
    <2> QED
      BY <1>6, <2>1, <2>2, <2>3
  <1>10. k = l /\ \A i \in 1 .. k : ka[i] = kb[i]
    BY <1>3, <1>6, <1>7, <1>8, <1>9, SameKeys, Zenon
  <1>11. \A i \in 1 .. k : a[i][1] = b[i][1]
    BY <1>6, <1>10, Zenon
  <1>12. \A i \in 1 .. k : SameMeaning[a[i][2]][b[i][2]]
    <2> TAKE i \in 1 .. k
    <2>1. PICK h \in 1 .. k : a[i] = v[2][h]
      BY <1>4, Zenon
    <2>2. PICK g \in 1 .. l : w[2][g][1] = v[2][h][1] /\ SameMeaning[v[2][h][2]][w[2][g][2]]
      BY <1>2, <1>3, Zenon
    <2>3. PICK j \in 1 .. l : b[j] = w[2][g]
      BY <1>5, Zenon
    <2>4. b[j][1] = b[i][1] /\ i \in 1 .. l
      BY <1>10, <1>11, <2>1, <2>2, <2>3
    <2>5. i = j
      <3>1. b[i][1] \in Nat /\ ~(b[i][1] < b[j][1]) /\ ~(b[j][1] < b[i][1])
        BY <1>3, <2>4
      <3>2. ~(i < j) /\ ~(j < i)
        BY <1>5, <2>4, <3>1, Zenon
      <3>3. i \in Int /\ j \in Int
        OBVIOUS
      <3> QED
        BY <3>2, <3>3
    <2> QED
      BY <2>1, <2>2, <2>3, <2>5, Zenon
  <1> QED
    BY <1>2, <1>3, <1>10, <1>11, <1>12, Zenon DEF a, b, k, l

\* Values that mean the same are written alike.
LEMMA WrittenAlike ==
    \A v, w \in Values : SameMeaning[v][w] => write_value[v] = write_value[w]
  <1> DEFINE H == [v \in Values |-> Height[v]]
             Same(v) == \A w \in Values : SameMeaning[v][w] => write_value[v] = write_value[w]
             G == {v \in Values : Same(v)}
  <1>1. H \in [Values -> Nat] /\ \A v \in Values : \A p \in Parts(v) : p \in Values /\ H[p] < H[v]
    BY ValueParts, Zenon
  <1> HIDE DEF H
  <1>2. ASSUME NEW v \in Values, \A p \in Parts(v) : Same(p), NEW w \in Values, SameMeaning[v][w]
        PROVE  write_value[v] = write_value[w]
    <2>1. Alike(v, SameMeaning, w) /\ w[1] = v[1]
      BY <1>2, MeaningDef, ValueParts, Zenon DEF Alike
    <2>2. /\ \A p \in Parts(v) : p \in Values
          /\ \A p \in Parts(w) : p \in Values
      BY ValueParts, Zenon
    <2>3. Pushed(v, write_value) = Pushed(w, write_value)
      <3>1. CASE v[1] = "array"
        <4>1. Len(w[2]) = Len(v[2]) /\ \A i \in DOMAIN v[2] : SameMeaning[v[2][i]][w[2][i]]
          BY <2>1, <3>1, Zenon DEF Alike
        <4>2. DOMAIN v[2] = DOMAIN w[2]
          BY <2>1, <3>1, <4>1, ValueParts
        <4>3. \A i \in DOMAIN v[2] : write_value[v[2][i]] = write_value[w[2][i]]
          <5> TAKE i \in DOMAIN v[2]
          <5>1. v[2][i] \in Parts(v) /\ w[2][i] \in Values
            BY <2>1, <2>2, <3>1, <4>2, ValueParts, Zenon
          <5> QED
            BY <1>2, <4>1, <5>1, Zenon
        <4>4. ArrayItems(v, write_value) = ArrayItems(w, write_value)
          BY <4>2, <4>3, Zenon DEF ArrayItems
        <4> QED
          BY <2>1, <3>1, <4>4, PushedShapes, Zenon
      <3>2. CASE v[1] = "object"
        <4>1. /\ w[1] = "object" /\ Len(v[2]) = Len(w[2])
              /\ \A i \in DOMAIN v[2] :
                    /\ Sorted(v[2])[i][1] = Sorted(w[2])[i][1]
                    /\ SameMeaning[Sorted(v[2])[i][2]][Sorted(w[2])[i][2]]
          BY <1>2, <3>2, AlikeSorted, Zenon
        <4>2. DOMAIN v[2] = DOMAIN w[2]
          BY <3>2, <4>1, ObjectMembers, Zenon
        <4>3. \A i \in DOMAIN v[2] :
                  write_value[Sorted(v[2])[i][2]] = write_value[Sorted(w[2])[i][2]]
          <5> TAKE i \in DOMAIN v[2]
          <5>1. Sorted(v[2])[i][2] \in Parts(v) /\ Sorted(w[2])[i][2] \in Values
            BY <2>2, <3>2, <4>1, <4>2, ObjectMembers, Zenon
          <5> QED
            BY <1>2, <4>1, <5>1, Zenon
        <4>4. ObjectItems(v, write_value) = ObjectItems(w, write_value)
          <5>1. \A i \in DOMAIN v[2] :
                    <<KeyToken(Sorted(v[2])[i][1]), Colon>> ## write_value[Sorted(v[2])[i][2]]
                  = <<KeyToken(Sorted(w[2])[i][1]), Colon>> ## write_value[Sorted(w[2])[i][2]]
            BY <4>1, <4>3, Zenon
          <5> QED
            BY <4>2, <5>1, Zenon DEF ObjectItems
        <4> QED
          BY <3>2, <4>1, <4>4, PushedShapes, Zenon
      <3>3. CASE v[1] # "array" /\ v[1] # "object"
        <4>1. w[2] = v[2]
          BY <2>1, <3>3, Zenon DEF Alike
        <4>2. v = <<v[1], v[2]>> /\ w = <<w[1], w[2]>>
          BY ValueParts, TreeAssumption, Zenon
        <4> QED
          BY <2>1, <4>1, <4>2, Zenon
      <3> QED
        BY <3>1, <3>2, <3>3, Zenon
    <2> QED
      BY <2>3, WriteDef, Zenon
  <1>3. ASSUME NEW v \in Values, \A s \in Values : H[s] < H[v] => s \in G
        PROVE  v \in G
    <2>1. \A p \in Parts(v) : Same(p)
      BY <1>1, <1>3, Zenon
    <2> QED
      BY <1>2, <2>1, Zenon
  <1>4. Values \subseteq G
    <2> HIDE DEF G
    <2> QED
      BY <1>1, <1>3, EveryElement
  <1> QED
    BY <1>4, Zenon

\* The canonical form of two values is the same just when they mean the same.
THEOREM CanonicalFormIsFaithful ==
    \A v, w \in Values : write_value[v] = write_value[w] <=> SameMeaning[v][w]
  BY EveryReadable, ReadableAlike, WrittenAlike, Zenon

-----------------------------------------------------------------------------
(* The documents the relay has read *)

DocOf(t) == [text |-> t, value |-> StrictValue[t],
             bytes |-> UNION {Canonical(v) : v \in StrictValue[t]}]

JsonInv == docs \in Seq({DocOf(t) : t \in Texts})

\* Each document was made by one call of StrictValue and one of canonicalize.
LEMMA DocsAreRead == JsonSpec => []JsonInv
  <1> DEFINE D == {DocOf(t) : t \in Texts}
  <1>1. JsonInit => JsonInv
    BY DEF JsonInit, JsonInv
  <1>2. JsonInv /\ [JsonNext]_docs => JsonInv'
    <2> SUFFICES ASSUME docs \in Seq(D), [JsonNext]_docs PROVE docs' \in Seq(D)
      BY Zenon DEF JsonInv
    <2>1. ASSUME NEW text \in Texts, Receive(text) PROVE docs' \in Seq(D)
      <3>1. docs' = Append(docs, DocOf(text)) /\ DocOf(text) \in D
        BY <2>1, Zenon DEF Receive, DocOf
      <3> HIDE DEF D
      <3> QED
        BY <3>1
    <2> QED
      BY <2>1, Zenon DEF JsonNext
  <1> QED
    BY <1>1, <1>2, PTL DEF JsonSpec

\* What a document in the list holds.
LEMMA DocHolds ==
    ASSUME JsonInv, NEW i \in DOMAIN docs
    PROVE  /\ docs[i].text \in Texts
           /\ docs[i].value = Verdict(docs[i].text)
           /\ docs[i].value # Err =>
                 docs[i].text \in Values /\ docs[i].bytes = {write_value[docs[i].text]}
  <1> DEFINE D == {DocOf(t) : t \in Texts}
  <1>1. docs[i] \in D
    <2>1. docs \in Seq(D)
      BY Zenon DEF JsonInv
    <2> HIDE DEF D
    <2> QED
      BY <2>1
  <1>2. PICK t \in Texts : docs[i] = DocOf(t)
    BY <1>1, Zenon
  <1>3. /\ docs[i].text = t /\ docs[i].value = StrictValue[t]
        /\ docs[i].bytes = UNION {Canonical(v) : v \in StrictValue[t]}
    BY <1>2 DEF DocOf
  <1>4. StrictValue[t] = Verdict(t)
    BY ReadsTrue, Zenon
  <1>5. ASSUME Verdict(t) # Err
        PROVE  t \in Values /\ UNION {Canonical(v) : v \in Verdict(t)} = {write_value[t]}
    <2>1. Clean(t) /\ Verdict(t) = {t}
      BY <1>5, Zenon DEF Verdict, Err
    <2>2. t \in Values
      BY <2>1, ValuesClean, Zenon
    <2>3. Canonical(t) = {write_value[t]}
      <3>1. CASE t[1] = "object"
        <4>1. DistinctKeys(t[2]) /\ t = <<"object", t[2]>>
          BY <2>2, <3>1, ValueParts, TreeAssumption, Zenon
        <4>2. ~\E k, l \in DOMAIN t[2] : k # l /\ t[2][k][1] = t[2][l][1]
          BY <4>1, Zenon DEF DistinctKeys
        <4>3. canonicalize_object(t[2]) = {write_value[<<"object", t[2]>>]}
          BY <4>2, Zenon DEF canonicalize_object, Ok
        <4>4. Canonical(t) = canonicalize_object(t[2])
          BY <3>1, Zenon DEF Canonical
        <4> QED
          BY <4>1, <4>3, <4>4, Zenon
      <3>2. CASE t[1] # "object"
        BY <3>2, Zenon DEF Canonical, Ok
      <3> QED
        BY <3>1, <3>2, Zenon
    <2>4. UNION {Canonical(v) : v \in {t}} = Canonical(t)
      BY Zenon
    <2> QED
      BY <2>1, <2>2, <2>3, <2>4, Zenon
  <1> QED
    BY <1>3, <1>4, <1>5, Zenon

\* StrictVisitor refuses a text just when some part of it could be read in two ways,
\* and reads the rest in full, for texts of every width and depth.
THEOREM ReadsStrictly == JsonSpec => []RefusesTheAmbiguous
  <1>1. JsonInv => RefusesTheAmbiguous
    <2> SUFFICES ASSUME JsonInv, NEW i \in DOMAIN docs
                 PROVE  /\ (docs[i].value = Err) = (\E t \in Subtexts[docs[i].text] : Ambiguous(t))
                        /\ \A v \in docs[i].value : SameMeaning[docs[i].text][v]
      BY Zenon DEF RefusesTheAmbiguous
    <2>1. docs[i].text \in Texts /\ docs[i].value = Verdict(docs[i].text)
      BY DocHolds, Zenon
    <2>2. (docs[i].value = Err) <=> ~Clean(docs[i].text)
      BY <2>1, Zenon DEF Verdict, Err
    <2>3. (docs[i].value = Err) = (\E t \in Subtexts[docs[i].text] : Ambiguous(t))
      BY <2>2, Zenon DEF Clean
    <2>4. \A v \in docs[i].value : v = docs[i].text
      BY <2>1 DEF Verdict
    <2> QED
      BY <2>1, <2>3, <2>4, MeansItself, Zenon
  <1> QED
    BY <1>1, DocsAreRead, PTL

\* Two texts that the relay accepts have the same canonical form just when they mean
\* the same: what write_value writes can be read back in one way only, and
\* keys.sort() leaves one order.
THEOREM CanonicalFormIsOne == JsonSpec => []CanonicalMeansSame
  <1>1. JsonInv => CanonicalMeansSame
    <2> SUFFICES ASSUME JsonInv, NEW i \in DOMAIN docs, NEW j \in DOMAIN docs,
                        docs[i].value # Err, docs[j].value # Err
                 PROVE  (docs[i].bytes = docs[j].bytes)
                            = SameMeaning[docs[i].text][docs[j].text]
      BY Zenon DEF CanonicalMeansSame
    <2> DEFINE t == docs[i].text
               u == docs[j].text
    <2>1. /\ t \in Values /\ docs[i].bytes = {write_value[t]}
          /\ u \in Values /\ docs[j].bytes = {write_value[u]}
      BY DocHolds, Zenon
    <2> HIDE DEF t, u
    <2>2. (docs[i].bytes = docs[j].bytes) <=> write_value[t] = write_value[u]
      <3>1. \A a, b : {a} = {b} <=> a = b
        BY Zenon
      <3> QED
        BY <2>1, <3>1, Zenon
    <2>3. write_value[t] = write_value[u] <=> SameMeaning[t][u]
      <3>1. t \in Values /\ u \in Values
        BY <2>1, Zenon
      <3> QED
        BY <3>1, CanonicalFormIsFaithful, Zenon
    <2>4. SameMeaning[t][u] \in BOOLEAN
      <3>1. \A a, f, b : Alike(a, f, b) \in BOOLEAN
        BY Zenon DEF Alike
      <3>2. SameMeaning[t][u] = Alike(t, SameMeaning, u)
        BY <2>1, ValueParts, MeaningDef, Zenon
      <3> QED
        BY <3>1, <3>2, Zenon
    <2>5. (docs[i].bytes = docs[j].bytes) = SameMeaning[t][u]
      BY <2>2, <2>3, <2>4, Zenon
    <2> QED
      BY <2>5, Zenon DEF t, u
  <1> QED
    BY <1>1, DocsAreRead, PTL
=============================================================================
