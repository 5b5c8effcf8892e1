-------------------------- MODULE GroundworkProofs --------------------------
(***************************************************************************)
(* What the login rests on: a migrated database and stores that one process *)
(* syncs, for any number of processes, stores and faults; times in machine   *)
(* integers that are the exact ones; documents that can be written and      *)
(* signed and say one thing, for every width and for all times and texts;   *)
(* and the HTTPS client, for any answers of the resolver, any replies and    *)
(* any limits.                                                              *)
(***************************************************************************)
EXTENDS Startup, LoginDocuments, MachineTime, SiteClient, TLAPS

-----------------------------------------------------------------------------
(* Startup *)

\* IInv without what is said of the locks.
Progress ==
    /\ TypeOK
    /\ \A p \in Procs : pc[p] \notin {"down", "create"} => table
    /\ version => schema /\ table
    /\ \A p \in Procs : sync[p] => pc[p] \in {"bind", "serving"} /\ p \in MatrixEnabled
    /\ \A p \in Procs : pc[p] \in {"probe", "probed"} => p \notin MatrixEnabled
    /\ \A p \in Procs : pc[p] \in {"file", "client"} => p \in MatrixEnabled
    /\ MigratedBeforeUse
    /\ OneMigrates

StoresLocked == \A p \in Procs : HasStore(p) => SyncOver(p) \/ storeLock[StoreOf[p]] = p

Leads(p) == p \in MatrixEnabled /\ pc[p] \in {"file", "client", "spawn", "bind", "serving"}
LeaderLocked == ~lost => \A p \in Procs : Leads(p) => advisory = p

\* The initial states satisfy the three.
LEMMA InitParts == Init => Progress /\ StoresLocked /\ LeaderLocked
<1> SUFFICES ASSUME Init PROVE Progress /\ StoresLocked /\ LeaderLocked
    OBVIOUS
<1> USE ProcsAssumption DEF Init
<1>1. \A p \in Procs : pc[p] = "down" /\ ~sync[p] BY Zenon
<1>2. TypeOK BY Zenon DEF TypeOK, Points
<1>3. MigratedBeforeUse /\ OneMigrates BY <1>1 DEF MigratedBeforeUse, OneMigrates, Migrated
<1>4. Progress BY <1>1, <1>2, <1>3 DEF Progress
<1>5. StoresLocked BY <1>1 DEF StoresLocked, HasStore
<1>6. LeaderLocked BY <1>1 DEF LeaderLocked, Leads
<1> QED BY <1>4, <1>5, <1>6

\* The migration: no step skips it, and one process at a time inserts the version.
LEMMA NextProgress == ASSUME Progress, [Next]_vars PROVE Progress'
<1> USE ProcsAssumption DEF Progress, TypeOK, Points, Migrated, MigratedBeforeUse, OneMigrates,
           Moves, dbVars, lockVars
<1>1. ASSUME NEW p \in Procs, Start(p) PROVE Progress'
      BY <1>1 DEF Start
<1>2. ASSUME NEW p \in Procs, CreateTable(p) PROVE Progress'
      BY <1>2 DEF CreateTable
<1>3. ASSUME NEW p \in Procs, SelectVersion(p) PROVE Progress'
      BY <1>3 DEF SelectVersion
<1>4. ASSUME NEW p \in Procs, ApplySchema(p) PROVE Progress'
      BY <1>4 DEF ApplySchema
<1>5. ASSUME NEW p \in Procs, SchemaExists(p) PROVE Progress'
      BY <1>5 DEF SchemaExists, Ends, Unlocked
<1>6. ASSUME NEW p \in Procs, InsertVersion(p) PROVE Progress'
      BY <1>6 DEF InsertVersion
<1>7. ASSUME NEW p \in Procs, try_advisory_lock(p) PROVE Progress'
      BY <1>7 DEF try_advisory_lock
<1>8. ASSUME NEW p \in Procs, LeaderElsewhere(p) PROVE Progress'
      BY <1>8 DEF LeaderElsewhere, Ends, Unlocked
<1>9. ASSUME NEW p \in Procs, WithoutMatrix(p) PROVE Progress'
      BY <1>9 DEF WithoutMatrix
<1>10. ASSUME NEW p \in Procs, ProbeStore(p) PROVE Progress'
      BY <1>10 DEF ProbeStore, StoreFree
<1>11. ASSUME NEW p \in Procs, DropProbe(p) PROVE Progress'
      BY <1>11 DEF DropProbe, Unlocked
<1>12. ASSUME NEW p \in Procs, lock_crypto_store(p) PROVE Progress'
      BY <1>12 DEF lock_crypto_store, StoreFree
<1>13. ASSUME NEW p \in Procs, StoreInUse(p) PROVE Progress'
      BY <1>13 DEF StoreInUse, Ends, Unlocked, StoreFree
<1>14. ASSUME NEW p \in Procs, RestoreSession(p) PROVE Progress'
      BY <1>14 DEF RestoreSession
<1>15. ASSUME NEW p \in Procs, Spawn(p) PROVE Progress'
      BY <1>15 DEF Spawn
<1>16. ASSUME NEW p \in Procs, Bind(p) PROVE Progress'
      BY <1>16 DEF Bind
<1>17. ASSUME NEW p \in Procs, Stops(p) PROVE Progress'
      BY <1>17 DEF Stops, Ends, Unlocked, Fault
<1>18. ASSUME NEW p \in Procs, SyncEnds(p) PROVE Progress'
      BY <1>18 DEF SyncEnds, Unlocked, Fault
<1>19. ASSUME NEW p \in Procs, LosesConnection(p) PROVE Progress'
      BY <1>19 DEF LosesConnection, Fault
<1>20. CASE ServerReaps BY <1>20 DEF ServerReaps
<1>21. CASE UNCHANGED vars BY <1>21 DEF vars
<1> QED BY <1>1, <1>2, <1>3, <1>4, <1>5, <1>6, <1>7, <1>8, <1>9, <1>10, <1>11, <1>12,
           <1>13, <1>14, <1>15, <1>16, <1>17, <1>18, <1>19, <1>20, <1>21, Zenon DEF Next, Step

\* The lock of a store: taken before the store is opened, kept until its sync ends.
LEMMA NextStores == ASSUME Progress, StoresLocked, [Next]_vars PROVE StoresLocked'
<1> USE ProcsAssumption DEF Progress, TypeOK, Points, Migrated, StoresLocked, HasStore,
           SyncOver, Moves, dbVars, lockVars
<1>1. ASSUME NEW p \in Procs, Start(p) PROVE StoresLocked'
      BY <1>1 DEF Start
<1>2. ASSUME NEW p \in Procs, CreateTable(p) PROVE StoresLocked'
      BY <1>2 DEF CreateTable
<1>3. ASSUME NEW p \in Procs, SelectVersion(p) PROVE StoresLocked'
      BY <1>3 DEF SelectVersion
<1>4. ASSUME NEW p \in Procs, ApplySchema(p) PROVE StoresLocked'
      BY <1>4 DEF ApplySchema
<1>5. ASSUME NEW p \in Procs, SchemaExists(p) PROVE StoresLocked'
      BY <1>5 DEF SchemaExists, Ends, Unlocked
<1>6. ASSUME NEW p \in Procs, InsertVersion(p) PROVE StoresLocked'
      BY <1>6 DEF InsertVersion
<1>7. ASSUME NEW p \in Procs, try_advisory_lock(p) PROVE StoresLocked'
      BY <1>7 DEF try_advisory_lock
<1>8. ASSUME NEW p \in Procs, LeaderElsewhere(p) PROVE StoresLocked'
      BY <1>8 DEF LeaderElsewhere, Ends, Unlocked
<1>9. ASSUME NEW p \in Procs, WithoutMatrix(p) PROVE StoresLocked'
      BY <1>9 DEF WithoutMatrix
<1>10. ASSUME NEW p \in Procs, ProbeStore(p) PROVE StoresLocked'
      BY <1>10 DEF ProbeStore, StoreFree
<1>11. ASSUME NEW p \in Procs, DropProbe(p) PROVE StoresLocked'
      BY <1>11 DEF DropProbe, Unlocked
<1>12. ASSUME NEW p \in Procs, lock_crypto_store(p) PROVE StoresLocked'
      BY <1>12 DEF lock_crypto_store, StoreFree
<1>13. ASSUME NEW p \in Procs, StoreInUse(p) PROVE StoresLocked'
      BY <1>13 DEF StoreInUse, Ends, Unlocked, StoreFree
<1>14. ASSUME NEW p \in Procs, RestoreSession(p) PROVE StoresLocked'
      BY <1>14 DEF RestoreSession
<1>15. ASSUME NEW p \in Procs, Spawn(p) PROVE StoresLocked'
      BY <1>15 DEF Spawn
<1>16. ASSUME NEW p \in Procs, Bind(p) PROVE StoresLocked'
      BY <1>16 DEF Bind
<1>17. ASSUME NEW p \in Procs, Stops(p) PROVE StoresLocked'
      BY <1>17 DEF Stops, Ends, Unlocked, Fault
<1>18. ASSUME NEW p \in Procs, SyncEnds(p) PROVE StoresLocked'
      BY <1>18 DEF SyncEnds, Unlocked, Fault
<1>19. ASSUME NEW p \in Procs, LosesConnection(p) PROVE StoresLocked'
      BY <1>19 DEF LosesConnection, Fault
<1>20. CASE ServerReaps BY <1>20 DEF ServerReaps
<1>21. CASE UNCHANGED vars BY <1>21 DEF vars
<1> QED BY <1>1, <1>2, <1>3, <1>4, <1>5, <1>6, <1>7, <1>8, <1>9, <1>10, <1>11, <1>12,
           <1>13, <1>14, <1>15, <1>16, <1>17, <1>18, <1>19, <1>20, <1>21, Zenon DEF Next, Step

\* The advisory lock: held by the leader until a session is lost.
LEMMA NextLeader == ASSUME Progress, LeaderLocked, [Next]_vars PROVE LeaderLocked'
<1> USE ProcsAssumption DEF Progress, TypeOK, Points, Migrated, LeaderLocked, Leads,
           Moves, dbVars, lockVars
<1>1. ASSUME NEW p \in Procs, Start(p) PROVE LeaderLocked'
      BY <1>1 DEF Start
<1>2. ASSUME NEW p \in Procs, CreateTable(p) PROVE LeaderLocked'
      BY <1>2 DEF CreateTable
<1>3. ASSUME NEW p \in Procs, SelectVersion(p) PROVE LeaderLocked'
      BY <1>3 DEF SelectVersion
<1>4. ASSUME NEW p \in Procs, ApplySchema(p) PROVE LeaderLocked'
      BY <1>4 DEF ApplySchema
<1>5. ASSUME NEW p \in Procs, SchemaExists(p) PROVE LeaderLocked'
      BY <1>5 DEF SchemaExists, Ends, Unlocked
<1>6. ASSUME NEW p \in Procs, InsertVersion(p) PROVE LeaderLocked'
      BY <1>6 DEF InsertVersion
<1>7. ASSUME NEW p \in Procs, try_advisory_lock(p) PROVE LeaderLocked'
      BY <1>7 DEF try_advisory_lock
<1>8. ASSUME NEW p \in Procs, LeaderElsewhere(p) PROVE LeaderLocked'
      BY <1>8 DEF LeaderElsewhere, Ends, Unlocked
<1>9. ASSUME NEW p \in Procs, WithoutMatrix(p) PROVE LeaderLocked'
      BY <1>9 DEF WithoutMatrix
<1>10. ASSUME NEW p \in Procs, ProbeStore(p) PROVE LeaderLocked'
      BY <1>10 DEF ProbeStore, StoreFree
<1>11. ASSUME NEW p \in Procs, DropProbe(p) PROVE LeaderLocked'
      BY <1>11 DEF DropProbe, Unlocked
<1>12. ASSUME NEW p \in Procs, lock_crypto_store(p) PROVE LeaderLocked'
      BY <1>12 DEF lock_crypto_store, StoreFree
<1>13. ASSUME NEW p \in Procs, StoreInUse(p) PROVE LeaderLocked'
      BY <1>13 DEF StoreInUse, Ends, Unlocked, StoreFree
<1>14. ASSUME NEW p \in Procs, RestoreSession(p) PROVE LeaderLocked'
      BY <1>14 DEF RestoreSession
<1>15. ASSUME NEW p \in Procs, Spawn(p) PROVE LeaderLocked'
      BY <1>15 DEF Spawn
<1>16. ASSUME NEW p \in Procs, Bind(p) PROVE LeaderLocked'
      BY <1>16 DEF Bind
<1>17. ASSUME NEW p \in Procs, Stops(p) PROVE LeaderLocked'
      BY <1>17 DEF Stops, Ends, Unlocked, Fault
<1>18. ASSUME NEW p \in Procs, SyncEnds(p) PROVE LeaderLocked'
      BY <1>18 DEF SyncEnds, Unlocked, Fault
<1>19. ASSUME NEW p \in Procs, LosesConnection(p) PROVE LeaderLocked'
      BY <1>19 DEF LosesConnection, Fault
<1>20. CASE ServerReaps BY <1>20 DEF ServerReaps
<1>21. CASE UNCHANGED vars BY <1>21 DEF vars
<1> QED BY <1>1, <1>2, <1>3, <1>4, <1>5, <1>6, <1>7, <1>8, <1>9, <1>10, <1>11, <1>12,
           <1>13, <1>14, <1>15, <1>16, <1>17, <1>18, <1>19, <1>20, <1>21, Zenon DEF Next, Step

\* The three parts, and so IInv, are invariants.
LEMMA StartupInductive == Spec => [](Progress /\ StoresLocked /\ LeaderLocked)
<1>1. ASSUME Progress /\ StoresLocked /\ LeaderLocked, [Next]_vars
      PROVE (Progress /\ StoresLocked /\ LeaderLocked)'
      BY <1>1, NextProgress, NextStores, NextLeader
<1> QED BY <1>1, InitParts, PTL DEF Spec

\* IInv, which the run of four processes checks, holds for any number of them.
THEOREM StartupInvariant == Spec => []IInv
<1>1. Progress /\ StoresLocked /\ LeaderLocked => IInv
      BY DEF IInv, Progress, StoresLocked, LeaderLocked, Leads
<1> QED BY <1>1, StartupInductive, PTL

\* run_migrations: nothing runs on a database that is not migrated.
THEOREM AlwaysMigrated == Spec => []MigratedBeforeUse
<1>1. Progress => MigratedBeforeUse BY DEF Progress
<1> QED BY <1>1, StartupInductive, PTL

\* run_migrations: concurrent starts migrate once.
THEOREM MigratedOnce == Spec => []OneMigrates
<1>1. Progress => OneMigrates BY DEF Progress
<1> QED BY <1>1, StartupInductive, PTL

\* lock_crypto_store and try_advisory_lock together: two processes have one crypto
\* store open only after a lost session and the end of a sync thread.
THEOREM StoreExclusive == Spec => []StoreSharedByTwoFaults
<1>1. Progress /\ StoresLocked /\ LeaderLocked => StoreSharedByTwoFaults
  <2>1. \A p \in Procs : Progress /\ HasStore(p) => Leads(p)
        BY DEF Progress, HasStore, Leads
  <2> QED BY <2>1 DEF StoresLocked, LeaderLocked, StoreSharedByTwoFaults
<1> QED BY <1>1, StartupInductive, PTL

\* try_advisory_lock: one leader until a lock holder's session is lost.
THEOREM LeaderUnique == Spec => []OneLeaderUntilLost
<1>1. Progress /\ LeaderLocked => OneLeaderUntilLost
  <2>1. \A p \in Procs : Progress /\ HasStore(p) => Leads(p)
        BY DEF Progress, HasStore, Leads
  <2> QED BY <2>1 DEF LeaderLocked, OneLeaderUntilLost
<1> QED BY <1>1, StartupInductive, PTL

-----------------------------------------------------------------------------
(* Machine integers *)

\* A sum that fits is what the machine computes.
LEMMA WrapFits ==
    ASSUME NEW n \in I64
    PROVE  Wrap(n) = n
  BY TimeAssumption DEF I64, Wrap

\* One that is too large by less than the whole range comes out negative.
LEMMA WrapOver ==
    ASSUME NEW n \in Half .. Half + Half
    PROVE  Wrap(n) = n - 2 * Half
  BY TimeAssumption DEF Wrap

\* A time that the row or the replay tables are kept until is the exact sum: one that
\* wraps is none that chrono represents.
LEMMA KeptExact ==
    ASSUME NEW n \in I64, NEW t \in millis_to_utc(Wrap(n + REPLAY_GRACE_MS))
    PROVE  t = n + REPLAY_GRACE_MS /\ t \in I64
  <1> USE TimeAssumption
  <1>1. t = Wrap(n + REPLAY_GRACE_MS) /\ t \in -UtcLimit .. UtcLimit
    BY DEF millis_to_utc
  <1>2. CASE n + REPLAY_GRACE_MS \in I64
    BY <1>1, <1>2, WrapFits
  <1>3. CASE n + REPLAY_GRACE_MS \notin I64
    <2>1. n + REPLAY_GRACE_MS \in Half .. Half + Half
      <3>1. n \in Int /\ -Half <= n /\ n < Half /\ REPLAY_GRACE_MS < Half
        BY DEF I64
      <3>2. ~(n + REPLAY_GRACE_MS < Half)
        BY <1>3, <3>1 DEF I64
      <3> QED
        BY <3>1, <3>2
    <2>2. Wrap(n + REPLAY_GRACE_MS) = n + REPLAY_GRACE_MS - 2 * Half
      BY <2>1, WrapOver DEF I64
    <2>3. n + REPLAY_GRACE_MS - 2 * Half < -UtcLimit
      BY DEF I64
    <2> QED
      BY <1>1, <2>2, <2>3
  <1> QED
    BY <1>2, <1>3

\* validate_window accepts just the windows of at most MAX_TTL_MS.
LEMMA WindowExact ==
    ASSUME NEW iat \in I64, NEW exp \in I64
    PROVE  validate_window(iat, exp) <=> exp - iat \in 1 .. MAX_TTL_MS
  BY TimeAssumption DEF I64, validate_window, saturating_sub, Saturated

\* sent_at_in_qr_window accepts just the times of the window and the skew before it.
LEMMA SentExact ==
    ASSUME NEW sent_at \in I64, NEW iat \in I64, NEW exp \in I64
    PROVE  sent_at_in_qr_window(sent_at, iat, exp) <=> sent_at \in iat - CLOCK_SKEW_MS .. exp
  BY TimeAssumption DEF I64, sent_at_in_qr_window, saturating_sub, Saturated

\* The ends of a challenge and of an assertion, made at t.
LEMMA EndsExact ==
    ASSUME NEW t \in 0 .. MaxNow, NEW exp \in I64
    PROVE  /\ challenge_expires_at(t, exp) = Least(t + MAX_TTL_MS, exp)
           /\ Wrap(t + MAX_TTL_MS) = t + MAX_TTL_MS
           /\ Least(t + MAX_TTL_MS, exp) \in I64
  <1>1. t + MAX_TTL_MS \in I64 /\ t + MAX_TTL_MS < Half
    BY TimeAssumption DEF I64
  <1>2. saturating_add(t, MAX_TTL_MS) = t + MAX_TTL_MS
    BY <1>1, TimeAssumption DEF I64, saturating_add, Saturated
  <1> QED
    BY <1>1, <1>2, WrapFits DEF challenge_expires_at, Least

-----------------------------------------------------------------------------
(* The inductive invariant of the times *)

\* The three properties quantify over a session: without it nothing was made.
SessionFirst ==
    /\ session = {} => challenge = {} /\ assertion = {}
    /\ \A s \in session : session = {s}

TimeInv ==
    /\ TimeTypeOK
    /\ SessionFirst
    /\ SessionTimesExact
    /\ MessageTimesExact

\* register_session keeps TimeInv: the session it inserts has exact times.
LEMMA RegisterStep ==
    ASSUME TimeInv, NEW iat \in I64, NEW exp \in I64, RegisterTimes(iat, exp)
    PROVE  TimeInv'
  <1>1. session = {} /\ challenge = {} /\ assertion = {}
    BY DEF TimeInv, SessionFirst, RegisterTimes
  <1>2. UNCHANGED <<now, challenge, assertion>>
    BY DEF RegisterTimes
  <1>3. \A s \in session' :
           /\ s \in [iat : I64, exp : I64, expires_at : I64]
           /\ s.exp - s.iat \in 1 .. MAX_TTL_MS
           /\ s.expires_at = s.exp + REPLAY_GRACE_MS
    BY KeptExact, WindowExact DEF RegisterTimes
  <1>4. \A s \in session' : session' = {s}
    <2>1. \A m : millis_to_utc(m) = {} \/ millis_to_utc(m) = {m}
      BY DEF millis_to_utc
    <2> QED
      BY <2>1 DEF RegisterTimes
  <1>5. TimeTypeOK'
    BY <1>1, <1>2, <1>3 DEF TimeInv, TimeTypeOK
  <1>6. SessionFirst' /\ SessionTimesExact'
    BY <1>1, <1>2, <1>3, <1>4 DEF SessionFirst, SessionTimesExact
  <1>7. MessageTimesExact'
    BY <1>1, <1>2 DEF MessageTimesExact
  <1> QED
    BY <1>5, <1>6, <1>7 DEF TimeInv

\* process_request keeps TimeInv: its challenge ends at the exact minimum.
LEMMA RequestStep ==
    ASSUME TimeInv, NEW sent_at \in I64, RequestAt(sent_at)
    PROVE  TimeInv'
  <1>1. PICK s \in session :
           /\ sent_at_in_qr_window(sent_at, s.iat, s.exp)
           /\ challenge' = {[request |-> sent_at, at |-> now, kept_until |-> t,
                             expires_at |-> challenge_expires_at(now, s.exp)] :
                                t \in millis_to_utc(Wrap(s.exp + REPLAY_GRACE_MS))}
    BY DEF RequestAt
  <1>2. UNCHANGED <<now, session, assertion>>
    BY DEF RequestAt
  <1>3. s \in [iat : I64, exp : I64, expires_at : I64] /\ now \in 0 .. MaxNow
    BY DEF TimeInv, TimeTypeOK
  <1>4. \A c \in challenge' :
           /\ c \in [request : I64, at : 0 .. MaxNow, kept_until : I64, expires_at : I64]
           /\ c.request \in s.iat - CLOCK_SKEW_MS .. s.exp
           /\ c.kept_until = s.exp + REPLAY_GRACE_MS
           /\ c.expires_at = Least(c.at + MAX_TTL_MS, s.exp)
    BY <1>1, <1>3, KeptExact, SentExact, EndsExact
  <1>5. session' = {s}
    BY <1>2 DEF TimeInv, SessionFirst
  <1>6. TimeTypeOK'
    BY <1>2, <1>3, <1>4 DEF TimeInv, TimeTypeOK
  <1>7. SessionFirst' /\ SessionTimesExact'
    BY <1>2, <1>5 DEF TimeInv, SessionFirst, SessionTimesExact
  <1>8. MessageTimesExact'
    <2>1. \A c \in challenge' : c.kept_until >= s.exp
      BY <1>3, <1>4, TimeAssumption DEF I64
    <2> QED
      BY <1>2, <1>4, <1>5, <2>1 DEF TimeInv, MessageTimesExact
  <1> QED
    BY <1>6, <1>7, <1>8 DEF TimeInv

\* process_consent keeps TimeInv: so does its assertion.
LEMMA ConsentStep ==
    ASSUME TimeInv, NEW sent_at \in I64, ConsentAt(sent_at)
    PROVE  TimeInv'
  <1>1. PICK s \in session :
           /\ ~(s.exp < now)
           /\ sent_at_in_qr_window(sent_at, s.iat, s.exp)
           /\ assertion' = {[consent |-> sent_at, iat |-> now, kept_until |-> t,
                             exp |-> Least(s.exp, Wrap(now + MAX_TTL_MS))] :
                                t \in millis_to_utc(Wrap(s.exp + REPLAY_GRACE_MS))}
    BY DEF ConsentAt
  <1>2. UNCHANGED <<now, session, challenge>>
    BY DEF ConsentAt
  <1>3. s \in [iat : I64, exp : I64, expires_at : I64] /\ now \in 0 .. MaxNow
    BY DEF TimeInv, TimeTypeOK
  <1>4. /\ Wrap(now + MAX_TTL_MS) = now + MAX_TTL_MS
        /\ Least(s.exp, now + MAX_TTL_MS) = Least(now + MAX_TTL_MS, s.exp)
        /\ Least(now + MAX_TTL_MS, s.exp) \in I64
        /\ now <= Least(now + MAX_TTL_MS, s.exp)
    <2>1. s.exp \in Int /\ now \in Int /\ MAX_TTL_MS \in Nat
      BY <1>3, TimeAssumption DEF I64
    <2>2. /\ Least(s.exp, now + MAX_TTL_MS) = Least(now + MAX_TTL_MS, s.exp)
          /\ now <= Least(now + MAX_TTL_MS, s.exp)
      BY <1>1, <2>1 DEF Least
    <2> QED
      BY <1>3, <2>2, EndsExact
  <1>5. \A a \in assertion' :
           /\ a \in [consent : I64, iat : 0 .. MaxNow, kept_until : I64, exp : I64]
           /\ a.consent \in s.iat - CLOCK_SKEW_MS .. s.exp
           /\ a.kept_until = s.exp + REPLAY_GRACE_MS
           /\ a.exp = Least(a.iat + MAX_TTL_MS, s.exp) /\ a.iat <= a.exp
    BY <1>1, <1>3, <1>4, KeptExact, SentExact
  <1>6. session' = {s}
    BY <1>2 DEF TimeInv, SessionFirst
  <1>7. TimeTypeOK'
    BY <1>2, <1>3, <1>5 DEF TimeInv, TimeTypeOK
  <1>8. SessionFirst' /\ SessionTimesExact'
    BY <1>2, <1>6 DEF TimeInv, SessionFirst, SessionTimesExact
  <1>9. MessageTimesExact'
    <2>1. \A a \in assertion' : a.kept_until >= s.exp
      BY <1>3, <1>5, TimeAssumption DEF I64
    <2> QED
      BY <1>2, <1>5, <1>6, <2>1 DEF TimeInv, MessageTimesExact
  <1> QED
    BY <1>7, <1>8, <1>9 DEF TimeInv

\* TimeInv is an invariant of the times of a login, whatever a site and a user send.
THEOREM TimesInvariant == TimeSpec => []TimeInv
  <1>1. TimeInit => TimeInv
    BY DEF TimeInit, TimeInv, TimeTypeOK, SessionFirst, SessionTimesExact, MessageTimesExact
  <1>2. TimeInv /\ [TimeNext]_timeVars => TimeInv'
    <2> SUFFICES ASSUME TimeInv, [TimeNext]_timeVars PROVE TimeInv'
      OBVIOUS
    <2>1. ASSUME TimeTick \/ UNCHANGED timeVars PROVE TimeInv'
      <3>1. now' \in 0 .. MaxNow /\ UNCHANGED <<session, challenge, assertion>>
        BY <2>1, TimeAssumption DEF TimeInv, TimeTypeOK, TimeTick, timeVars
      <3> QED
        BY <3>1 DEF TimeInv, TimeTypeOK, SessionFirst, SessionTimesExact, MessageTimesExact
    <2> QED
      BY <2>1, RegisterStep, RequestStep, ConsentStep DEF TimeNext
  <1> QED
    BY <1>1, <1>2, PTL DEF TimeSpec

\* A session's length and the time its row is kept are exact (insert_registered).
THEOREM SessionsExact == TimeSpec => []SessionTimesExact
  BY TimesInvariant, PTL DEF TimeInv

\* Messages are taken only in the window, and remembered as long as they could be taken.
THEOREM MessagesExact == TimeSpec => []MessageTimesExact
  BY TimesInvariant, PTL DEF TimeInv

-----------------------------------------------------------------------------
(* What a signature says *)

\* The kind of a document, as the names of its fields tell it.
KindOf(fields) ==
    CASE "publicKey" \in DOMAIN fields -> "metadata"
      [] "session" \in DOMAIN fields -> "qr"
      [] "qrSignature" \in DOMAIN fields -> "registration"
      [] "approved" \in DOMAIN fields -> "consent"
      [] "subjectKeyVersion" \in DOMAIN fields -> "assertion"
      [] OTHER -> "revocation"

\* What the relay takes from a document of that kind.
SaysOf(fields) ==
    CASE KindOf(fields) = "metadata" -> fields.displayName
      [] KindOf(fields) = "qr" -> <<fields.domain, fields.session, fields.nonce>>
      [] KindOf(fields) = "registration" ->
            <<fields.domain, fields.sessionId, fields.nonce, fields.requestedDisplayName>>
      [] KindOf(fields) = "consent" -> <<fields.approved, fields.displayName>>
      [] KindOf(fields) = "assertion" -> <<fields.aud, fields.sub, fields.displayName>>
      [] OTHER -> <<fields.aud, fields.sub>>

Readable(d) == d.kind = KindOf(d.fields) /\ d.says = SaysOf(d.fields)

\* All that was signed can be read back from its canonical form alone.
SignedReadable == \A d \in signed : Readable(d)

\* If every signed document reads as what it is, equal fields mean equal documents.
LEMMA ReadableBinds == SignedReadable => SignaturesBind
  BY DEF SignedReadable, Readable, SignaturesBind

\* The canonical form of site metadata tells its kind and its display name.
LEMMA MetadataReadable ==
    ASSUME NEW m
    PROVE  Readable(Document("site", "metadata", metadata_canonical(m), m.display_name))
  <1> DEFINE f == metadata_canonical(m)
  <1>1. KindOf(f) = "metadata"
    BY DEF KindOf, metadata_canonical
  <1>2. SaysOf(f) = m.display_name
    BY <1>1 DEF SaysOf, metadata_canonical
  <1> QED
    BY <1>1, <1>2 DEF Readable, Document

\* That of a QR payload tells its kind, domain, session id and nonce.
LEMMA QrReadable ==
    ASSUME NEW r
    PROVE  Readable(Document("site", "qr", qr_canonical(r), <<r.domain, r.session_id, r.nonce>>))
  <1> DEFINE f == qr_canonical(r)
  <1>1. KindOf(f) = "qr"
    BY DEF KindOf, qr_canonical
  <1>2. SaysOf(f) = <<r.domain, r.session_id, r.nonce>>
    BY <1>1 DEF SaysOf, qr_canonical
  <1> QED
    BY <1>1, <1>2 DEF Readable, Document

\* That of a registration tells the same and the requested display name.
LEMMA RegistrationReadable ==
    ASSUME NEW r
    PROVE  Readable(Document("site", "registration", registration_canonical(r),
                             <<r.domain, r.session_id, r.nonce, r.requested_display_name>>))
  <1> DEFINE f == registration_canonical(r)
  <1>1. KindOf(f) = "registration"
    BY DEF KindOf, registration_canonical
  <1>2. SaysOf(f) = <<r.domain, r.session_id, r.nonce, r.requested_display_name>>
    BY <1>1 DEF SaysOf, registration_canonical
  <1> QED
    BY <1>1, <1>2 DEF Readable, Document

\* That of a consent tells its kind, the user's answer and the name.
LEMMA ConsentReadable ==
    ASSUME NEW m
    PROVE  Readable(Document("user", "consent", consent_signed_bytes(m),
                             <<m.approved, m.display_name>>))
  <1> DEFINE f == consent_signed_bytes(m)
  <1>1. KindOf(f) = "consent"
    BY DEF KindOf, consent_signed_bytes
  <1>2. SaysOf(f) = <<m.approved, m.display_name>>
    BY <1>1 DEF SaysOf, consent_signed_bytes
  <1> QED
    BY <1>1, <1>2 DEF Readable, Document

\* That of an assertion tells its kind, audience, subject and display name.
LEMMA AssertionReadable ==
    ASSUME NEW a
    PROVE  Readable(Document("relay", "assertion", assertion_canonical(a),
                             <<a.aud, a.sub, a.display_name>>))
  <1> DEFINE f == assertion_canonical(a)
  <1>1. KindOf(f) = "assertion"
    BY DEF KindOf, assertion_canonical
  <1>2. SaysOf(f) = <<a.aud, a.sub, a.display_name>>
    BY <1>1 DEF SaysOf, assertion_canonical
  <1> QED
    BY <1>1, <1>2 DEF Readable, Document

\* That of a revocation tells its kind, audience and subject.
LEMMA RevocationReadable ==
    ASSUME NEW v
    PROVE  Readable(Document("relay", "revocation", revocation_canonical(v), <<v.aud, v.sub>>))
  <1> DEFINE f == revocation_canonical(v)
  <1>1. KindOf(f) = "revocation"
    BY DEF KindOf, revocation_canonical
  <1>2. SaysOf(f) = <<v.aud, v.sub>>
    BY <1>1 DEF SaysOf, revocation_canonical
  <1> QED
    BY <1>1, <1>2 DEF Readable, Document

-----------------------------------------------------------------------------
(* What can be written *)

\* The texts that the relay makes itself are of the forms that it checks.
LEMMA OwnTexts ==
    /\ validate_site_account_id(Sub) /\ Sub.json = 43
    /\ validate_challenge_token(Challenge) /\ Challenge.json = 22
    /\ validate_reason(RequestCancelled) /\ RequestCancelled.json = 17
  BY DEF Sub, Challenge, CHALLENGE_BYTES, RequestCancelled, Encoded, Base64Length,
         validate_site_account_id, validate_challenge_token, validate_reason

\* What register_session has checked of a row that it inserts.
RowChecked(s) ==
    /\ s.session_id \in Ids /\ validate_id(s.session_id)
    /\ s.nonce \in Ids /\ validate_id(s.nonce)
    /\ s.domain \in Domains /\ validate_domain(s.domain)
    /\ s.site_name \in Names /\ s.site_name.bytes \in 1 .. MAX_DISPLAY_NAME
    /\ s.requested_display_name \in Names /\ s.requested_display_name.bytes <= MAX_DISPLAY_NAME

\* A length of at most n bytes.
UpTo(length, n) == length \in Nat /\ length <= n

\* However JSON writes them, such texts are short.
LEMMA RowIsShort ==
    ASSUME NEW s, RowChecked(s)
    PROVE  /\ UpTo(s.session_id.json, 768) /\ UpTo(s.nonce.json, 768)
           /\ UpTo(s.domain.json, 1518)
           /\ UpTo(s.site_name.json, 600) /\ UpTo(s.requested_display_name.json, 600)
  <1>1. \A t \in Ids \cup Names \cup Domains :
           t.bytes \in Nat /\ t.json \in Nat /\ t.json <= 6 * t.bytes
    BY TextAssumption, MeasureAssumption DEF Text
  <1>2. \A t \in Ids \cup Names \cup Domains :
           /\ t.bytes <= 128 => UpTo(t.json, 768)
           /\ t.bytes <= 253 => UpTo(t.json, 1518)
           /\ t.bytes <= 100 => UpTo(t.json, 600)
    BY <1>1 DEF UpTo
  <1>3. s.session_id \in Ids /\ s.session_id.bytes <= 128 /\ s.nonce \in Ids /\ s.nonce.bytes <= 128
    BY DEF RowChecked, validate_id
  <1>4. s.domain \in Domains /\ s.domain.bytes <= 253
    BY DEF RowChecked, validate_domain, MAX_DOMAIN
  <1>5. /\ s.site_name \in Names /\ s.site_name.bytes <= 100
        /\ s.requested_display_name \in Names /\ s.requested_display_name.bytes <= 100
    BY DEF RowChecked, MAX_DISPLAY_NAME
  <1> QED
    BY <1>2, <1>3, <1>4, <1>5

ChallengeNotice(s) ==
    [kind |-> "challenge", session_id |-> s.session_id, nonce |-> s.nonce,
     site_name |-> s.site_name, domain |-> s.domain,
     requested_display_name |-> s.requested_display_name, challenge |-> Challenge]

\* encode takes the challenge notice of every row that register_session has checked.
LEMMA ChallengeCanBeWritten ==
    ASSUME NEW s, RowChecked(s)
    PROVE  encode(ChallengeNotice(s))
  <1> DEFINE m == ChallengeNotice(s)
  <1>1. validate_outbound(m)
    BY OwnTexts DEF ChallengeNotice, RowChecked, validate_outbound
  <1>2. MessageBytes(m) = FRAME + s.session_id.json + s.nonce.json
           + (s.site_name.json + s.domain.json + s.requested_display_name.json + Challenge.json)
    BY DEF ChallengeNotice, MessageBytes, OwnJson
  <1>3. MessageBytes(m) <= MAX_DECODED_BODY
    <2>1. /\ UpTo(s.session_id.json, 768) /\ UpTo(s.nonce.json, 768)
          /\ UpTo(s.domain.json, 1518) /\ UpTo(s.site_name.json, 600)
          /\ UpTo(s.requested_display_name.json, 600) /\ Challenge.json = 22
      BY RowIsShort, OwnTexts
    <2> HIDE DEF m
    <2> QED
      BY <1>2, <2>1 DEF UpTo, FRAME, MAX_DECODED_BODY
  <1> QED
    BY <1>1, <1>3 DEF encode

\* encode takes every result notice of such a row.
LEMMA ResultCanBeWritten ==
    ASSUME NEW s, RowChecked(s),
           NEW account \in {None, Some(Sub)}, NEW reason \in {None, Some(RequestCancelled)}
    PROVE  encode(ResultNotice(s, account, reason))
  <1> DEFINE m == ResultNotice(s, account, reason)
  <1>1. validate_outbound(m)
    BY OwnTexts DEF ResultNotice, RowChecked, validate_outbound, None, Some
  <1>2. \A t : OptionJson(Some(t)) = t.json /\ OptionJson(None) = 0
    BY DEF OptionJson, Some, None
  <1>3. UpTo(OptionJson(account), 43) /\ UpTo(OptionJson(reason), 17)
    BY <1>2, OwnTexts DEF UpTo
  <1>4. MessageBytes(m) = FRAME + s.session_id.json + s.nonce.json
           + (OptionJson(account) + OptionJson(reason))
    BY DEF ResultNotice, MessageBytes, OwnJson
  <1>5. MessageBytes(m) <= MAX_DECODED_BODY
    <2>1. UpTo(s.session_id.json, 768) /\ UpTo(s.nonce.json, 768)
      BY RowIsShort
    <2> HIDE DEF m
    <2> QED
      BY <1>3, <1>4, <2>1 DEF UpTo, FRAME, MAX_DECODED_BODY
  <1> QED
    BY <1>1, <1>5 DEF encode

-----------------------------------------------------------------------------
(* The inductive invariant of the documents *)

LoginInv ==
    /\ \A s \in row : RowChecked(s)
    /\ \A a \in payloads : a.sub = Sub
    /\ CommittedCanBeTold
    /\ ApprovedIsSigned
    /\ SignedReadable

\* One more message is written: a notice that is owed passes encode, an assertion
\* is signed if the kid allows it.
LEMMA MessageWritten ==
    ASSUME LoginInv, NEW n, NEW ok, written' = written \cup {[message |-> n, ok |-> ok]}, kid' = kid,
           n.kind \in {"challenge", "result"} => ok,
           n.kind = "assertion" => ok = validate_kid(kid)
    PROVE  CommittedCanBeTold' /\ ApprovedIsSigned'
  <1> DEFINE w == [message |-> n, ok |-> ok]
  <1>1. w.message = n /\ w.ok = ok /\ written' = written \cup {w}
    OBVIOUS
  <1> HIDE DEF w
  <1>2. /\ \A x \in written' : x.message.kind \in {"challenge", "result"} => x.ok
        /\ \A x \in written' : x.message.kind = "assertion" => x.ok = validate_kid(kid)
    BY <1>1, Zenon DEF LoginInv, CommittedCanBeTold, ApprovedIsSigned
  <1>3. validate_kid(kid)' = validate_kid(kid)
    BY DEF validate_kid
  <1> QED
    BY <1>2, <1>3, Zenon DEF CommittedCanBeTold, ApprovedIsSigned

\* register_session keeps LoginInv: the row is checked, three documents are verified.
LEMMA RegisterSessionStep ==
    ASSUME LoginInv, NEW r \in Request, NEW m \in Metadata, RegisterSession(r, m)
    PROVE  LoginInv'
  <1>1. \A s \in row' : RowChecked(s)
    <2>1. m.display_name \in Names /\ m.display_name.bytes \in 1 .. MAX_DISPLAY_NAME
      <3> DEFINE t == m.display_name
      <3>1. t \in Names /\ ~t.blank /\ t.bytes <= MAX_DISPLAY_NAME
        BY Zenon DEF RegisterSession, validate_for_domain, Metadata
      <3> HIDE DEF t
      <3>2. t \in Text /\ (t.bytes = 0 => t.blank)
        BY <3>1, TextAssumption, MeasureAssumption
      <3>3. t.bytes \in Nat
        BY <3>2 DEF Text
      <3>4. t.bytes \in 1 .. MAX_DISPLAY_NAME
        BY <3>1, <3>2, <3>3 DEF MAX_DISPLAY_NAME
      <3> QED
        BY <3>1, <3>4 DEF t
    <2>2. /\ r.session_id \in Ids /\ validate_id(r.session_id)
          /\ r.nonce \in Ids /\ validate_id(r.nonce)
          /\ r.domain \in Domains /\ validate_domain(r.domain)
          /\ r.requested_display_name \in Names
          /\ r.requested_display_name.bytes <= MAX_DISPLAY_NAME
      BY Zenon DEF RegisterSession, validate, validate_display_name, Request
    <2>3. row' = {[domain |-> r.domain, session_id |-> r.session_id, nonce |-> r.nonce,
                   site_name |-> m.display_name,
                   requested_display_name |-> r.requested_display_name]}
      BY Zenon DEF RegisterSession, Some
    <2> QED
      BY <2>1, <2>2, <2>3 DEF RowChecked
  <1>2. SignedReadable'
    BY MetadataReadable, QrReadable, RegistrationReadable, ZenonT(30)
       DEF RegisterSession, LoginInv, SignedReadable
  <1>3. UNCHANGED <<kid, payloads, written>>
    BY DEF RegisterSession
  <1> QED
    BY <1>1, <1>2, <1>3 DEF LoginInv, CommittedCanBeTold, ApprovedIsSigned

\* process_request keeps LoginInv: it owes a challenge notice.
LEMMA ProcessRequestStep ==
    ASSUME LoginInv, NEW m \in RequestMessage, ProcessRequest(m)
    PROVE  LoginInv'
  <1>1. PICK s \in row :
           /\ <<s.domain, s.session_id, s.nonce>> = <<m.domain, m.session_id, m.nonce>>
           /\ written' = written \cup
                 {[message |-> ChallengeNotice(s), ok |-> encode(ChallengeNotice(s))]}
    BY Zenon DEF ProcessRequest, Writes, ChallengeNotice
  <1>2. encode(ChallengeNotice(s)) /\ ChallengeNotice(s).kind = "challenge"
    BY <1>1, ChallengeCanBeWritten, ZenonT(30) DEF LoginInv, ChallengeNotice
  <1>3. UNCHANGED <<kid, row, payloads, signed>>
    BY Zenon DEF ProcessRequest
  <1>4. CommittedCanBeTold' /\ ApprovedIsSigned'
    BY <1>1, <1>2, <1>3, MessageWritten, ZenonT(30)
  <1> QED
    BY <1>3, <1>4 DEF LoginInv, SignedReadable

\* after_assertion_accepted keeps LoginInv: it owes a result notice.
LEMMA AcceptedStep ==
    ASSUME LoginInv, AssertionAccepted
    PROVE  LoginInv'
  <1>1. PICK a \in payloads, s \in row :
           written' = written \cup
              {[message |-> ResultNotice(s, Some(a.sub), None),
                ok |-> encode(ResultNotice(s, Some(a.sub), None))]}
    BY DEF AssertionAccepted, Writes
  <1>2. /\ encode(ResultNotice(s, Some(a.sub), None))
        /\ ResultNotice(s, Some(a.sub), None).kind = "result"
    BY ResultCanBeWritten, Zenon DEF LoginInv, ResultNotice
  <1>3. UNCHANGED <<kid, row, payloads, signed>>
    BY DEF AssertionAccepted
  <1>4. CommittedCanBeTold' /\ ApprovedIsSigned'
    BY <1>1, <1>2, <1>3, MessageWritten, ZenonT(30)
  <1> QED
    BY <1>3, <1>4 DEF LoginInv, SignedReadable

\* What is signed for an approved consent can be signed, but for the kid.
LEMMA AssertionCanBeSigned ==
    ASSUME NEW s, RowChecked(s), NEW name, name.bytes \in 1 .. MAX_DISPLAY_NAME
    PROVE  sign_assertion(AssertionFor(s, name)) = validate_kid(kid)
  <1> DEFINE a == AssertionFor(s, name)
  <1>1. /\ a.kid = kid /\ a.session_id = s.session_id /\ a.nonce = s.nonce
        /\ a.sub = Sub /\ a.display_name = name
    BY DEF AssertionFor
  <1>2. validate_display_name(name, TRUE)
    BY DEF validate_display_name, MAX_DISPLAY_NAME
  <1> HIDE DEF a
  <1>3. sign_assertion(a) <=> validate_kid(kid)
    BY <1>1, <1>2, OwnTexts, Zenon DEF RowChecked, sign_assertion
  <1>4. sign_assertion(a) \in BOOLEAN /\ validate_kid(kid) \in BOOLEAN
    BY DEF sign_assertion, validate_kid
  <1> QED
    BY <1>3, <1>4 DEF a

\* An approved consent keeps LoginInv: it is signed for if the kid allows it.
LEMMA ApproveStep ==
    ASSUME LoginInv, NEW m \in ConsentMessage, ProcessConsent(m), m.approved
    PROVE  LoginInv'
  <1>1. PICK s \in row, name \in m.display_name : Approve(s, name)
    BY DEF ProcessConsent
  <1>2. RowChecked(s) /\ name.bytes \in 1 .. MAX_DISPLAY_NAME
    <2>1. m.kind = "consent"
      BY DEF ConsentMessage
    <2>2. NameAsApproved(m)
      BY <2>1 DEF ProcessConsent, decode, validate_inbound
    <2> QED
      BY <2>2 DEF NameAsApproved, LoginInv
  <1> DEFINE a == AssertionFor(s, name)
  <1>3. sign_assertion(a) = validate_kid(kid)
    BY <1>2, AssertionCanBeSigned, ZenonT(30)
  <1>4. a.kind = "assertion" /\ a.sub = Sub
    BY Zenon DEF AssertionFor
  <1>5. UNCHANGED <<kid, row>>
    BY DEF ProcessConsent
  <1>6. /\ written' = written \cup {[message |-> a, ok |-> sign_assertion(a)]}
        /\ payloads' \subseteq payloads \cup {a}
    BY <1>1, ZenonT(30) DEF Approve, Writes
  <1> HIDE DEF a
  <1>7. CommittedCanBeTold' /\ ApprovedIsSigned'
    BY <1>3, <1>4, <1>5, <1>6, MessageWritten, ZenonT(30)
  <1>8. \A b \in payloads' : b.sub = Sub
    BY <1>4, <1>6 DEF LoginInv
  <1>9. SignedReadable'
    BY ConsentReadable, AssertionReadable, Zenon DEF ProcessConsent, LoginInv, SignedReadable
  <1> QED
    BY <1>5, <1>7, <1>8, <1>9 DEF LoginInv

\* A refused consent keeps LoginInv: it owes a result notice.
LEMMA RefuseStep ==
    ASSUME LoginInv, NEW m \in ConsentMessage, ProcessConsent(m), ~m.approved
    PROVE  LoginInv'
  <1>1. PICK s \in row : Refuse(s)
    BY DEF ProcessConsent
  <1> DEFINE notice == ResultNotice(s, None, Some(RequestCancelled))
  <1>2. encode(notice) /\ notice.kind = "result"
    BY ResultCanBeWritten, Zenon DEF LoginInv, ResultNotice
  <1>3. UNCHANGED <<kid, row, payloads>>
    BY <1>1 DEF ProcessConsent, Refuse
  <1>4. written' = written \cup {[message |-> notice, ok |-> encode(notice)]}
    BY <1>1 DEF Refuse, Writes
  <1> HIDE DEF notice
  <1>5. CommittedCanBeTold' /\ ApprovedIsSigned'
    BY <1>2, <1>3, <1>4, MessageWritten, ZenonT(30)
  <1>6. SignedReadable'
    BY <1>3, ConsentReadable, Zenon DEF ProcessConsent, LoginInv, SignedReadable
  <1> QED
    BY <1>3, <1>5, <1>6 DEF LoginInv

\* process_revocation keeps LoginInv: it signs one revocation.
LEMMA ProcessRevocationStep ==
    ASSUME LoginInv, NEW m \in RevocationMessage, ProcessRevocation(m)
    PROVE  LoginInv'
  <1>1. PICK s, v :
           /\ s \in row
           /\ v.kind = "revocation" /\ v.aud = s.domain /\ v.sub = m.site_account_id
           /\ written' = written \cup {[message |-> v, ok |-> TRUE]}
           /\ signed' = signed \cup
                 {Document("relay", "revocation", revocation_canonical(v),
                           <<s.domain, m.site_account_id>>)}
    BY Zenon DEF ProcessRevocation, Writes
  <1>2. UNCHANGED <<kid, row, payloads>>
    BY Zenon DEF ProcessRevocation
  <1>3. CommittedCanBeTold' /\ ApprovedIsSigned'
    BY <1>1, <1>2, MessageWritten, ZenonT(30)
  <1>4. Document("relay", "revocation", revocation_canonical(v), <<s.domain, m.site_account_id>>)
           = Document("relay", "revocation", revocation_canonical(v), <<v.aud, v.sub>>)
    BY <1>1, ZenonT(30)
  <1>5. SignedReadable'
    BY <1>1, <1>4, RevocationReadable DEF LoginInv, SignedReadable
  <1> QED
    BY <1>2, <1>3, <1>5 DEF LoginInv

-----------------------------------------------------------------------------
(* What is signed and told *)

\* The documents of a login keep LoginInv: the row holds only what register_session
\* has checked, every notice made of it passes encode, and every signed document can
\* be read back from its canonical form alone.
THEOREM DocumentsInvariant == LoginSpec => []LoginInv
  <1>1. LoginInit => LoginInv
    BY DEF LoginInit, LoginInv, None, CommittedCanBeTold, ApprovedIsSigned, SignedReadable
  <1>2. LoginInv /\ [LoginNext]_loginVars => LoginInv'
    <2> SUFFICES ASSUME LoginInv, [LoginNext]_loginVars PROVE LoginInv'
      OBVIOUS
    <2>1. ASSUME NEW r \in Request, NEW m \in Metadata, RegisterSession(r, m) PROVE LoginInv'
      BY <2>1, RegisterSessionStep
    <2>2. ASSUME NEW m \in Message, Ignored(m) PROVE LoginInv'
      BY <2>2, Zenon DEF Ignored, LoginInv, CommittedCanBeTold, ApprovedIsSigned, SignedReadable
    <2>3. ASSUME NEW m \in RequestMessage, ProcessRequest(m) PROVE LoginInv'
      BY <2>3, ProcessRequestStep
    <2>4. ASSUME NEW m \in ConsentMessage, ProcessConsent(m) PROVE LoginInv'
      BY <2>4, ApproveStep, RefuseStep
    <2>5. CASE AssertionAccepted
      BY <2>5, AcceptedStep
    <2>6. ASSUME NEW m \in RevocationMessage, ProcessRevocation(m) PROVE LoginInv'
      BY <2>6, ProcessRevocationStep
    <2>7. CASE UNCHANGED loginVars
      BY <2>7, ZenonT(30) DEF loginVars, LoginInv, CommittedCanBeTold, ApprovedIsSigned, SignedReadable
    <2> QED
      BY <2>1, <2>2, <2>3, <2>4, <2>5, <2>6, <2>7 DEF LoginNext
  <1> QED
    BY <1>1, <1>2, PTL DEF LoginSpec

WrittenTyped == \A w \in written : w.message.kind \in WrittenKinds /\ w.ok \in BOOLEAN

\* One more message of a known kind keeps the type of what was written.
LEMMA WroteTyped ==
    ASSUME LoginTypeOK, NEW w, w.message.kind \in WrittenKinds, w.ok \in BOOLEAN,
           written' = written \cup {w}
    PROVE  WrittenTyped'
  BY Zenon DEF LoginTypeOK, WrittenTyped

\* A notice is such a message, whatever encode says of it.
LEMMA NoticeTyped ==
    ASSUME LoginTypeOK, NEW n, n.kind \in WrittenKinds, Writes(n, encode(n))
    PROVE  WrittenTyped'
  <1> DEFINE w == [message |-> n, ok |-> encode(n)]
  <1>1. w.message.kind \in WrittenKinds /\ w.ok \in BOOLEAN
    BY DEF encode
  <1>2. written' = written \cup {w}
    BY DEF Writes
  <1> HIDE DEF w
  <1> QED
    BY <1>1, <1>2, WroteTyped

\* So is an assertion, whatever sign_assertion says of it.
LEMMA AssertionTyped ==
    ASSUME LoginTypeOK, NEW a, a.kind \in WrittenKinds, Writes(a, sign_assertion(a))
    PROVE  WrittenTyped'
  <1> DEFINE w == [message |-> a, ok |-> sign_assertion(a)]
  <1>1. w.message.kind \in WrittenKinds /\ w.ok \in BOOLEAN
    BY DEF sign_assertion
  <1>2. written' = written \cup {w}
    BY DEF Writes
  <1> HIDE DEF w
  <1> QED
    BY <1>1, <1>2, WroteTyped

\* An event is counted.
LEMMA EventCounted ==
    ASSUME LoginTypeOK, Event
    PROVE  events' \in Nat
  <1>1. events \in Nat
    BY DEF LoginTypeOK
  <1> QED
    BY <1>1 DEF Event

\* The documents have their types; a login has one row, and only what the queue holds
\* is accepted.
THEOREM DocumentsTyped == LoginSpec => []LoginTypeOK
  <1>1. LoginInit => LoginTypeOK
    <2> SUFFICES ASSUME LoginInit PROVE LoginTypeOK
      OBVIOUS
    <2>1. kid \in Kids /\ row = {} /\ accepted = {} /\ written = {}
      BY DEF LoginInit, None
    <2>2. challenged \in BOOLEAN /\ granted \in BOOLEAN /\ events \in Nat
      BY Zenon DEF LoginInit
    <2> QED
      BY <2>1, <2>2 DEF LoginTypeOK
  <1>2. LoginTypeOK /\ [LoginNext]_loginVars => LoginTypeOK'
    <2> SUFFICES ASSUME LoginTypeOK, [LoginNext]_loginVars PROVE LoginTypeOK'
      OBVIOUS
    <2>1. ASSUME NEW r \in Request, NEW m \in Metadata, RegisterSession(r, m)
          PROVE  LoginTypeOK'
      <3>1. row' = {[domain |-> r.domain, session_id |-> r.session_id, nonce |-> r.nonce,
                     site_name |-> m.display_name,
                     requested_display_name |-> r.requested_display_name]}
        BY <2>1, Zenon DEF RegisterSession, Some
      <3>2. r.requested_display_name.bytes <= MAX_DISPLAY_NAME
        BY <2>1, Zenon DEF RegisterSession, validate, validate_display_name
      <3>3. row' \subseteq [domain : Domains, session_id : Ids, nonce : Ids, site_name : Names,
                            requested_display_name : {t \in Names : t.bytes <= MAX_DISPLAY_NAME}]
        BY <3>1, <3>2 DEF Request, Metadata
      <3>4. Event /\ UNCHANGED <<kid, challenged, payloads, accepted, granted, written>>
        BY <2>1, Zenon DEF RegisterSession
      <3>5. \A s \in row' : \A t \in row' : s = t
        BY <3>1, Zenon
      <3> QED
        BY <3>3, <3>4, <3>5, EventCounted DEF LoginTypeOK
    <2>2. ASSUME NEW m \in Message, Ignored(m) PROVE LoginTypeOK'
      <3>1. Event /\ UNCHANGED <<kid, row, challenged, payloads, accepted, granted, written>>
        BY <2>2, Zenon DEF Ignored, Inbound
      <3> QED
        BY <3>1, EventCounted, ZenonT(30) DEF LoginTypeOK
    <2>3. ASSUME NEW m \in RequestMessage, ProcessRequest(m) PROVE LoginTypeOK'
      <3>1. \E n : n.kind = "challenge" /\ Writes(n, encode(n))
        BY <2>3, Zenon DEF ProcessRequest
      <3>2. WrittenTyped'
        BY <3>1, NoticeTyped DEF WrittenKinds
      <3>3. /\ Event /\ challenged' = TRUE
            /\ UNCHANGED <<kid, row, payloads, accepted, granted>>
        BY <2>3, Zenon DEF ProcessRequest, Inbound
      <3> QED
        BY <3>2, <3>3, EventCounted DEF WrittenTyped, LoginTypeOK
    <2>4. ASSUME NEW m \in ConsentMessage, ProcessConsent(m) PROVE LoginTypeOK'
      <3>1. \/ \E a : a.kind = "assertion" /\ Writes(a, sign_assertion(a))
            \/ \E n : n.kind = "result" /\ Writes(n, encode(n))
        BY <2>4, Zenon DEF ProcessConsent, Approve, AssertionFor, Refuse, ResultNotice
      <3>2. WrittenTyped'
        BY <3>1, NoticeTyped, AssertionTyped DEF WrittenKinds
      <3>3. payloads \subseteq payloads' /\ granted' \in BOOLEAN
        BY <2>4, Zenon DEF ProcessConsent, Approve, sign_assertion, Refuse, LoginTypeOK
      <3>4. Event /\ UNCHANGED <<kid, row, challenged, accepted>>
        BY <2>4, Zenon DEF ProcessConsent, Inbound
      <3> QED
        BY <3>2, <3>3, <3>4, EventCounted DEF WrittenTyped, LoginTypeOK
    <2>5. CASE AssertionAccepted
      <3>1. \E n : n.kind = "result" /\ Writes(n, encode(n))
        BY <2>5 DEF AssertionAccepted, ResultNotice
      <3>2. WrittenTyped'
        BY <3>1, NoticeTyped DEF WrittenKinds
      <3> QED
        BY <2>5, <3>2, Zenon DEF AssertionAccepted, WrittenTyped, LoginTypeOK
    <2>6. ASSUME NEW m \in RevocationMessage, ProcessRevocation(m) PROVE LoginTypeOK'
      <3>1. PICK v : v.kind = "revocation" /\ written' = written \cup {[message |-> v, ok |-> TRUE]}
        BY <2>6, Zenon DEF ProcessRevocation, Writes
      <3> DEFINE w == [message |-> v, ok |-> TRUE]
      <3>2. w.message.kind \in WrittenKinds /\ w.ok \in BOOLEAN /\ written' = written \cup {w}
        BY <3>1 DEF WrittenKinds
      <3> HIDE DEF w
      <3>3. WrittenTyped'
        BY <3>2, WroteTyped
      <3>4. granted' \in BOOLEAN
        BY <2>6, Zenon DEF ProcessRevocation
      <3>5. Event /\ UNCHANGED <<kid, row, challenged, payloads, accepted>>
        BY <2>6, Zenon DEF ProcessRevocation, Inbound
      <3> QED
        BY <3>3, <3>4, <3>5, EventCounted DEF WrittenTyped, LoginTypeOK
    <2>7. CASE UNCHANGED loginVars
      BY <2>7 DEF loginVars, LoginTypeOK
    <2> QED
      BY <2>1, <2>2, <2>3, <2>4, <2>5, <2>6, <2>7 DEF LoginNext
  <1> QED
    BY <1>1, <1>2, PTL DEF LoginSpec

\* Whatever texts a site registers and publishes, encode refuses no notice that the
\* relay owes after a commit: each fits MAX_DECODED_BODY and passes validate_outbound.
THEOREM NoticesCanBeWritten == LoginSpec => []CommittedCanBeTold
  <1>1. LoginInv => CommittedCanBeTold
    BY DEF LoginInv
  <1> QED
    BY <1>1, DocumentsInvariant, PTL

\* Every approved consent that decode takes can be signed for, exactly if
\* RELAY_SIGNING_KID is a kid that sign_assertion takes.
THEOREM ApprovalsSigned == LoginSpec => []ApprovedIsSigned
  <1>1. LoginInv => ApprovedIsSigned
    BY DEF LoginInv
  <1> QED
    BY <1>1, DocumentsInvariant, PTL

\* No signature that the relay makes or verifies can be taken for that of another
\* document: the canonical form alone gives the kind and all that the relay reads.
THEOREM SignaturesBinding == LoginSpec => []SignaturesBind
  <1>1. LoginInv => SignaturesBind
    BY ReadableBinds DEF LoginInv
  <1> QED
    BY <1>1, DocumentsInvariant, PTL

-----------------------------------------------------------------------------
(* The choice of the address *)

LOCAL INSTANCE WellFoundedInduction

\* A list that has an index with some mark has a first such index.
LEMMA FirstIndex ==
    ASSUME NEW T \in SUBSET Nat, T # {}
    PROVE  \E x \in T : \A y \in T : x <= y
  <1> DEFINE R == {ss \in Nat \X Nat : ss[1] < ss[2]}
  <1>1. IsWellFoundedOn(R, Nat)
    BY NatLessThanWellFounded, Zenon DEF OpToRel
  <1> HIDE DEF R
  <1>2. PICK x \in T : \A y \in T : ~(<<y, x>> \in R)
    BY <1>1, WFMin, Zenon
  <1>3. \A y \in T : ~(y < x)
    BY <1>2, Zenon DEF R
  <1> QED
    BY <1>3

\* The two tests of ssrf.rs block an address just when its range is one of those named.
LEMMA BlockedRange ==
    ASSUME NEW a \in Address
    PROVE  is_blocked_ip(a) <=> a.range \notin NotListed
  BY DEF Address, is_blocked_ip, is_blocked_v4, is_blocked_v6, V4Blocked, V6Blocked,
         NotListed

\* pick_public_address yields the first address that is not blocked, and fails just
\* when there is none.
LEMMA PickedAddress ==
    ASSUME NEW answer \in Seq(Address)
    PROVE  \/ /\ pick_public_address(answer) = {}
              /\ \A i \in DOMAIN answer : answer[i].range \notin NotListed
           \/ \E i \in DOMAIN answer :
                 /\ pick_public_address(answer) = {answer[i]}
                 /\ answer[i] \in Address /\ ~is_blocked_ip(answer[i])
                 /\ answer[i].range \in NotListed
                 /\ \A k \in 1 .. i - 1 : answer[k].range \notin NotListed
  <1> DEFINE open == {j \in DOMAIN answer : answer[j].range \in NotListed}
  <1>1. \A j \in DOMAIN answer :
           j \in Nat \ {0} /\ answer[j] \in Address
           /\ (is_blocked_ip(answer[j]) <=> answer[j].range \notin NotListed)
    BY BlockedRange
  <1>2. CASE open = {}
    BY <1>1, <1>2 DEF pick_public_address
  <1>3. CASE open # {}
    <2>1. PICK i \in open : \A j \in open : i <= j
      BY <1>1, <1>3, FirstIndex, Zenon
    <2>2. \A k \in 1 .. i - 1 : k \in DOMAIN answer /\ answer[k].range \notin NotListed
      BY <1>1, <2>1
    <2>3. ASSUME NEW j \in DOMAIN answer, ~is_blocked_ip(answer[j]),
                 \A k \in 1 .. j - 1 : is_blocked_ip(answer[k])
          PROVE  j = i
      BY <1>1, <2>1, <2>3
    <2>4. \A k \in 1 .. i - 1 : is_blocked_ip(answer[k])
      BY <1>1, <2>2
    <2>5. pick_public_address(answer) = {answer[i]}
      BY <1>1, <2>1, <2>3, <2>4 DEF pick_public_address
    <2> QED
      BY <1>1, <2>1, <2>2, <2>5
  <1> QED
    BY <1>2, <1>3

-----------------------------------------------------------------------------
(* The inductive invariant *)

\* Nothing is decided while the request waits, nothing is read before the first byte,
\* and never more than the site sends.
RequestShape ==
    /\ stage \in Waits => outcome = "none"
    /\ stage \in Waits \ {"read"} => buf = 0
    /\ buf <= reply.bytes

SInv ==
    /\ SiteTypeOK
    /\ RequestShape
    /\ OnlyCheckedAddress
    /\ LengthBounded
    /\ AcceptedIsWhole

USE SizeAssumption, TimerAssumption, AddressAssumption, ReplyAssumption

\* The reply under way has its type.
LEMMA ReplyTyped ==
    ASSUME SiteTypeOK
    PROVE  reply \in Reply /\ reply.bytes \in Nat /\ reply.header \in Nat
  <1>1. NoReply \in Reply
    BY DEF NoReply, Reply
  <1>2. reply \in Reply
    BY <1>1 DEF SiteTypeOK
  <1> QED
    BY <1>2 DEF Reply

\* Types.
LEMMA TypesKept ==
    ASSUME SiteTypeOK, [SiteNext]_siteVars
    PROVE  SiteTypeOK'
  <1> USE DEF SiteTypeOK, Waits
  <1>1. ASSUME NEW k \in {"metadata", "post"}, Call(k) PROVE SiteTypeOK'
    BY <1>1 DEF Call
  <1>2. ASSUME NEW answer \in AddressLists, Resolved(answer) PROVE SiteTypeOK'
    <2>1. answer \in Seq(Address)
      OBVIOUS
    <2>2. pick_public_address(answer) \subseteq Address
      BY <2>1, PickedAddress
    <2> QED
      BY <1>2, <2>2 DEF Resolved, End, Await
  <1>3. ASSUME NEW r \in Replies, Connected(r) PROVE SiteTypeOK'
    BY <1>3 DEF Connected, Await
  <1>4. CASE HandshakeDone
    BY <1>4 DEF HandshakeDone, Await
  <1>5. CASE Written
    BY <1>5 DEF Written, Await
  <1>6. ASSUME NEW n \in 0 .. FirstChunk, FirstBytes(n) PROVE SiteTypeOK'
    BY <1>6 DEF FirstBytes, Await, Left
  <1>7. ASSUME NEW n \in 1 .. Chunk, ReadMore(n) PROVE SiteTypeOK'
    BY <1>7 DEF ReadMore, Left, BufferTooLong
  <1>8. CASE RefuseLength
    BY <1>8 DEF RefuseLength, End, BufferTooLong
  <1>9. CASE ReadEnd
    BY <1>9 DEF ReadEnd, End, Left, parse_http_response
  <1>10. CASE Fails
    BY <1>10 DEF Fails, Broken, End
  <1>11. CASE TimesOut
    BY <1>11 DEF TimesOut, TimerFires, OwnTimer, UnderTotalTimer, End
  <1>12. CASE Tick
    BY <1>12 DEF Tick
  <1>13. CASE UNCHANGED siteVars
    BY <1>13 DEF siteVars
  <1> QED
    BY <1>1, <1>2, <1>3, <1>4, <1>5, <1>6, <1>7, <1>8, <1>9, <1>10, <1>11, <1>12, <1>13, ZenonT(30) DEF SiteNext

\* Only the reading loop fills the buffer, from what the site has still to send.
LEMMA ShapeKept ==
    ASSUME SiteTypeOK, RequestShape, [SiteNext]_siteVars
    PROVE  RequestShape'
  <1>0. reply.bytes \in Nat /\ reply.header \in Nat
    BY ReplyTyped
  <1> USE DEF RequestShape, SiteTypeOK, Waits
  <1>1. ASSUME NEW k \in {"metadata", "post"}, Call(k) PROVE RequestShape'
    BY <1>1 DEF Call, NoReply
  <1>2. ASSUME NEW answer \in AddressLists, Resolved(answer) PROVE RequestShape'
    BY <1>2 DEF Resolved, End, Await
  <1>3. ASSUME NEW r \in Replies, Connected(r) PROVE RequestShape'
    BY <1>3 DEF Connected, Await, Reply
  <1>4. CASE HandshakeDone
    BY <1>4 DEF HandshakeDone, Await
  <1>5. CASE Written
    BY <1>5 DEF Written, Await
  <1>6. ASSUME NEW n \in 0 .. FirstChunk, FirstBytes(n) PROVE RequestShape'
    BY <1>6, <1>0 DEF FirstBytes, Await, Left
  <1>7. ASSUME NEW n \in 1 .. Chunk, ReadMore(n) PROVE RequestShape'
    BY <1>7, <1>0 DEF ReadMore, Left, BufferTooLong
  <1>8. CASE RefuseLength
    BY <1>8 DEF RefuseLength, End, BufferTooLong
  <1>9. CASE ReadEnd
    BY <1>9 DEF ReadEnd, End, Left
  <1>10. CASE Fails
    BY <1>10 DEF Fails, Broken, End
  <1>11. CASE TimesOut
    BY <1>11 DEF TimesOut, End
  <1>12. CASE Tick
    BY <1>12 DEF Tick
  <1>13. CASE UNCHANGED siteVars
    BY <1>13 DEF siteVars
  <1> QED
    BY <1>1, <1>2, <1>3, <1>4, <1>5, <1>6, <1>7, <1>8, <1>9, <1>10, <1>11, <1>12, <1>13, ZenonT(30) DEF SiteNext

\* Resolved is the one step that picks an address, and the one that goes on to connect.
LEMMA AddressKept ==
    ASSUME SiteTypeOK, RequestShape, OnlyCheckedAddress, [SiteNext]_siteVars
    PROVE  OnlyCheckedAddress'
  <1> USE DEF OnlyCheckedAddress, Waits
  <1>1. ASSUME NEW k \in {"metadata", "post"}, Call(k) PROVE OnlyCheckedAddress'
    BY <1>1 DEF Call
  <1>2. ASSUME NEW answer \in AddressLists, Resolved(answer) PROVE OnlyCheckedAddress'
    <2>1. answer \in Seq(Address)
      OBVIOUS
    <2>2. CASE pick_public_address(answer) = {}
      BY <1>2, <2>1, <2>2, PickedAddress, Zenon DEF Resolved, End
    <2>3. CASE pick_public_address(answer) # {}
      <3>1. PICK i \in DOMAIN answer :
               /\ pick_public_address(answer) = {answer[i]}
               /\ ~is_blocked_ip(answer[i])
               /\ answer[i].range \in NotListed
               /\ \A k \in 1 .. i - 1 : answer[k].range \notin NotListed
        BY <2>1, <2>3, PickedAddress, ZenonT(30)
      <3>2. stage' = "connect" /\ outcome' = outcome /\ ips' = answer /\ ip' = {answer[i]}
        BY <1>2, <3>1 DEF Resolved, Await
      <3>3. outcome' = "none"
        BY <1>2, <3>2 DEF RequestShape, Resolved
      <3> QED
        BY <3>1, <3>2, <3>3, ZenonT(30)
    <2> QED
      BY <2>2, <2>3
  <1>3. ASSUME NEW r \in Replies, Connected(r) PROVE OnlyCheckedAddress'
    BY <1>3 DEF Connected, Await
  <1>4. CASE HandshakeDone
    BY <1>4 DEF HandshakeDone, Await
  <1>5. CASE Written
    BY <1>5 DEF Written, Await
  <1>6. ASSUME NEW n \in 0 .. FirstChunk, FirstBytes(n) PROVE OnlyCheckedAddress'
    BY <1>6 DEF FirstBytes, Await, Left
  <1>7. ASSUME NEW n \in 1 .. Chunk, ReadMore(n) PROVE OnlyCheckedAddress'
    BY <1>7 DEF ReadMore, Left, BufferTooLong
  <1>8. CASE RefuseLength
    BY <1>8 DEF RefuseLength, End, BufferTooLong
  <1>9. CASE ReadEnd
    BY <1>9 DEF ReadEnd, End, Left, parse_http_response
  <1>10. CASE Fails
    BY <1>10 DEF Fails, Broken, End
  <1>11. CASE TimesOut
    BY <1>11 DEF TimesOut, End
  <1>12. CASE Tick
    BY <1>12 DEF Tick
  <1>13. CASE UNCHANGED siteVars
    BY <1>13 DEF siteVars
  <1> QED
    BY <1>1, <1>2, <1>3, <1>4, <1>5, <1>6, <1>7, <1>8, <1>9, <1>10, <1>11, <1>12, <1>13, ZenonT(30) DEF SiteNext

\* The loop looks at the buffer before each chunk, and refuses what the site did send.
LEMMA LengthKept ==
    ASSUME SiteTypeOK, RequestShape, LengthBounded, [SiteNext]_siteVars
    PROVE  LengthBounded'
  <1>0. reply.bytes \in Nat /\ reply.header \in Nat
    BY ReplyTyped
  <1> USE DEF LengthBounded, Body, SiteTypeOK, Waits
  <1>1. ASSUME NEW k \in {"metadata", "post"}, Call(k) PROVE LengthBounded'
    BY <1>1 DEF Call
  <1>2. ASSUME NEW answer \in AddressLists, Resolved(answer) PROVE LengthBounded'
    BY <1>2 DEF Resolved, End, Await
  <1>3. ASSUME NEW r \in Replies, Connected(r) PROVE LengthBounded'
    BY <1>3 DEF Connected, Await, RequestShape
  <1>4. CASE HandshakeDone
    BY <1>4 DEF HandshakeDone, Await
  <1>5. CASE Written
    BY <1>5 DEF Written, Await
  <1>6. ASSUME NEW n \in 0 .. FirstChunk, FirstBytes(n) PROVE LengthBounded'
    BY <1>6, <1>0 DEF FirstBytes, Await, Left, RequestShape
  <1>7. ASSUME NEW n \in 1 .. Chunk, ReadMore(n) PROVE LengthBounded'
    BY <1>7, <1>0 DEF ReadMore, Left, BufferTooLong, RequestShape
  <1>8. CASE RefuseLength
    BY <1>8, <1>0 DEF RefuseLength, End, BufferTooLong, RequestShape
  <1>9. CASE ReadEnd
    <2>1. outcome' = "too_long" => parse_http_response(reply) = "too_long"
      BY <1>9 DEF ReadEnd, End
    <2>2. parse_http_response(reply) = "too_long" => ~(Body(reply) <= MaxBody)
      BY DEF parse_http_response, BodyFits
    <2>3. UNCHANGED <<reply, buf>>
      BY <1>9 DEF ReadEnd
    <2> QED
      BY <1>0, <2>1, <2>2, <2>3
  <1>10. CASE Fails
    BY <1>10 DEF Fails, Broken, End
  <1>11. CASE TimesOut
    BY <1>11 DEF TimesOut, End
  <1>12. CASE Tick
    BY <1>12 DEF Tick
  <1>13. CASE UNCHANGED siteVars
    BY <1>13 DEF siteVars
  <1> QED
    BY <1>1, <1>2, <1>3, <1>4, <1>5, <1>6, <1>7, <1>8, <1>9, <1>10, <1>11, <1>12, <1>13, ZenonT(30) DEF SiteNext

\* Only the end of the stream yields Ok.
LEMMA WholeKept ==
    ASSUME SiteTypeOK, RequestShape, AcceptedIsWhole, [SiteNext]_siteVars
    PROVE  AcceptedIsWhole'
  <1>0. reply.bytes \in Nat /\ reply.header \in Nat
    BY ReplyTyped
  <1> USE DEF AcceptedIsWhole, Waits
  <1>1. ASSUME NEW k \in {"metadata", "post"}, Call(k) PROVE AcceptedIsWhole'
    BY <1>1 DEF Call
  <1>2. ASSUME NEW answer \in AddressLists, Resolved(answer) PROVE AcceptedIsWhole'
    BY <1>2 DEF Resolved, End, Await, RequestShape
  <1>3. ASSUME NEW r \in Replies, Connected(r) PROVE AcceptedIsWhole'
    BY <1>3 DEF Connected, Await, RequestShape
  <1>4. CASE HandshakeDone
    BY <1>4 DEF HandshakeDone, Await, RequestShape
  <1>5. CASE Written
    BY <1>5 DEF Written, Await, RequestShape
  <1>6. ASSUME NEW n \in 0 .. FirstChunk, FirstBytes(n) PROVE AcceptedIsWhole'
    BY <1>6 DEF FirstBytes, Await, Left, RequestShape
  <1>7. ASSUME NEW n \in 1 .. Chunk, ReadMore(n) PROVE AcceptedIsWhole'
    BY <1>7 DEF ReadMore, Left, BufferTooLong, RequestShape
  <1>8. CASE RefuseLength
    BY <1>8 DEF RefuseLength, End, BufferTooLong
  <1>9. CASE ReadEnd
    <2>1. buf = reply.bytes
      BY <1>0, <1>9 DEF ReadEnd, Left, SiteTypeOK
    <2>2. SUFFICES ASSUME outcome' = "ok" PROVE AcceptedIsWhole'
      BY DEF AcceptedIsWhole
    <2>3. parse_http_response(reply) = "ok" /\ StatusAccepted(reply)
      BY <1>9, <2>2 DEF ReadEnd, End, parse_http_response
    <2>4. reply.header # 0 /\ ~IsRedirect(reply) /\ Body(reply) <= MaxBody
      BY <2>3 DEF parse_http_response, BodyFits
    <2>5. reply.closes /\ UNCHANGED <<kind, reply, buf>>
      BY <1>9 DEF ReadEnd
    <2>6. reply.header > 0
      BY <1>0, <2>4
    <2> QED
      BY <2>1, <2>3, <2>4, <2>5, <2>6 DEF StatusAccepted
  <1>10. CASE Fails
    BY <1>10 DEF Fails, Broken, End
  <1>11. CASE TimesOut
    BY <1>11 DEF TimesOut, End
  <1>12. CASE Tick
    BY <1>12 DEF Tick, StatusAccepted, RequestShape
  <1>13. CASE UNCHANGED siteVars
    BY <1>13 DEF siteVars, StatusAccepted
  <1> QED
    BY <1>1, <1>2, <1>3, <1>4, <1>5, <1>6, <1>7, <1>8, <1>9, <1>10, <1>11, <1>12, <1>13, ZenonT(30) DEF SiteNext

\* At startup no request is under way.
LEMMA InitialRequest == SiteInit => SInv
  <1> SUFFICES ASSUME SiteInit PROVE SInv
    OBVIOUS
  <1>1. SiteTypeOK
    <2>1. calls \in 0 .. MaxCalls
      BY TimerAssumption DEF SiteInit
    <2>2. buf \in Nat /\ phase \in Nat /\ total \in Nat
      BY DEF SiteInit
    <2> QED
      BY <2>1, <2>2 DEF SiteInit, SiteTypeOK
  <1>2. RequestShape
    BY DEF SiteInit, RequestShape, NoReply, Waits
  <1>3. OnlyCheckedAddress
    BY DEF SiteInit, OnlyCheckedAddress, Waits
  <1>4. LengthBounded
    BY SizeAssumption DEF SiteInit, LengthBounded
  <1>5. AcceptedIsWhole
    BY DEF SiteInit, AcceptedIsWhole
  <1> QED
    BY <1>1, <1>2, <1>3, <1>4, <1>5 DEF SInv

-----------------------------------------------------------------------------
(* Theorems *)

\* SInv is an invariant of the HTTPS client (site_client.rs, request).
THEOREM RequestInvariant == SiteSpec => []SInv
  <1>1. SInv /\ [SiteNext]_siteVars => SInv'
    BY TypesKept, ShapeKept, AddressKept, LengthKept, WholeKept DEF SInv
  <1> QED
    BY InitialRequest, <1>1, PTL DEF SiteSpec

\* A request goes only to the first address of its own resolution that is not blocked.
THEOREM AddressChecked == SiteSpec => []OnlyCheckedAddress
  BY RequestInvariant, PTL DEF SInv

\* The buffer is bounded, and only what is too long is refused for its length.
THEOREM BufferBounded == SiteSpec => []LengthBounded
  BY RequestInvariant, PTL DEF SInv

\* What the callers build on is the whole of what the site sent.
THEOREM WholeResponses == SiteSpec => []AcceptedIsWhole
  BY RequestInvariant, PTL DEF SInv
=============================================================================
