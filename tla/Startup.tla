------------------------------- MODULE Startup -------------------------------
(***************************************************************************)
(* Processes of the relay that start, run and stop on one database: run in  *)
(* lib.rs up to the listener, the migration and the advisory lock in        *)
(* db/mod.rs, the lock of the crypto store in matrix/client.rs.  Every      *)
(* statement, lock and spawn is a step.  A step that fails ends the process *)
(* and the container starts it again (restart: unless-stopped).             *)
(***************************************************************************)
EXTENDS Naturals

CONSTANTS
    Procs,           \* containers with the relay and one device id
    MatrixEnabled,   \* those with MATRIX_ENABLED=true
    Stores,          \* CRYPTO_STORE_PATH, as a directory of some host
    StoreOf,
    Nobody,
    Orphan,          \* a database session whose process is gone
    MaxFaults        \* bound: failed steps, kills, lost connections

ASSUME ProcsAssumption ==
    /\ MatrixEnabled \subseteq Procs
    /\ StoreOf \in [Procs -> Stores]
    /\ Nobody \notin Procs /\ Orphan \notin Procs /\ Nobody # Orphan

VARIABLES
    pc,              \* where run is
    sync,            \* whether the matrix-sync thread runs
    table, schema,   \* schema_migrations exists; the tables of 0001_init exist
    version,         \* its row is in schema_migrations
    advisory,        \* whose session holds the advisory lock
    storeLock,       \* who holds .sync.lock of a store
    lost,            \* history: a lock holder's session was lost
    faults

vars == <<pc, sync, table, schema, version, advisory, storeLock, lost, faults>>
dbVars == <<table, schema, version>>
lockVars == <<advisory, storeLock>>

Migrated == {"lock", "file", "probe", "probed", "client", "spawn", "bind", "serving"}
Points == {"down", "create", "select", "batch", "insert"} \cup Migrated

\* The catalog, the locks and the point every process has reached.
TypeOK ==
    /\ pc \in [Procs -> Points]
    /\ sync \in [Procs -> BOOLEAN]
    /\ table \in BOOLEAN /\ schema \in BOOLEAN /\ version \in BOOLEAN
    /\ advisory \in Procs \cup {Nobody, Orphan}
    /\ storeLock \in [Stores -> Procs \cup {Nobody}]
    /\ lost \in BOOLEAN
    /\ faults \in Nat

Init ==
    /\ pc = [p \in Procs |-> "down"]
    /\ sync = [p \in Procs |-> FALSE]
    /\ table = FALSE /\ schema = FALSE /\ version = FALSE
    /\ advisory = Nobody
    /\ storeLock = [s \in Stores |-> Nobody]
    /\ lost = FALSE
    /\ faults = 0

Moves(p, from, to) == pc[p] = from /\ pc' = [pc EXCEPT ![p] = to]
Unlocked(p) == [s \in Stores |-> IF storeLock[s] = p THEN Nobody ELSE storeLock[s]]

\* Mutant: a lock file that outlives its process.
EndsLocked(p) ==
    /\ pc' = [pc EXCEPT ![p] = "down"]
    /\ sync' = [sync EXCEPT ![p] = FALSE]
    /\ storeLock' = storeLock
    /\ advisory' = IF advisory = p THEN Orphan ELSE advisory

\* The process ends: the kernel drops the file lock, the server will notice.
Ends(p) ==
    /\ pc' = [pc EXCEPT ![p] = "down"]
    /\ sync' = [sync EXCEPT ![p] = FALSE]
    /\ storeLock' = Unlocked(p)
    /\ advisory' = IF advisory = p THEN Orphan ELSE advisory

Fault == faults < MaxFaults /\ faults' = faults + 1

-----------------------------------------------------------------------------
(* run_migrations *)

Start(p) == Moves(p, "down", "create") /\ UNCHANGED <<sync, dbVars, lockVars, lost, faults>>

CreateTable(p) ==
    /\ Moves(p, "create", "select")
    /\ table' = TRUE
    /\ UNCHANGED <<sync, schema, version, lockVars, lost, faults>>

\* Mutant: the tables count as the migration.
SelectTables(p) ==
    /\ Moves(p, "select", IF schema THEN "lock" ELSE "batch")
    /\ UNCHANGED <<sync, dbVars, lockVars, lost, faults>>

SelectVersion(p) ==
    /\ Moves(p, "select", IF version THEN "lock" ELSE "batch")
    /\ UNCHANGED <<sync, dbVars, lockVars, lost, faults>>

\* Mutant: CREATE TABLE IF NOT EXISTS in 0001_init.sql.
ApplyAgain(p) ==
    /\ Moves(p, "batch", "insert")
    /\ schema' = TRUE
    /\ UNCHANGED <<sync, table, version, lockVars, lost, faults>>

\* One batch is one transaction: all tables or none.
ApplySchema(p) ==
    /\ ~schema
    /\ Moves(p, "batch", "insert")
    /\ schema' = TRUE
    /\ UNCHANGED <<sync, table, version, lockVars, lost, faults>>

\* CREATE TABLE of a table that exists fails.
SchemaExists(p) ==
    /\ pc[p] = "batch" /\ schema
    /\ Ends(p)
    /\ UNCHANGED <<dbVars, lost, faults>>

InsertVersion(p) ==
    /\ Moves(p, "insert", "lock")
    /\ version' = TRUE
    /\ UNCHANGED <<sync, table, schema, lockVars, lost, faults>>

-----------------------------------------------------------------------------
(* run, from the advisory lock to the listener *)

\* Mutant: the result of try_advisory_lock is ignored.
LeadsAnyway(p) ==
    /\ p \in MatrixEnabled
    /\ Moves(p, "lock", "file")
    /\ advisory' = p
    /\ UNCHANGED <<sync, dbVars, storeLock, lost, faults>>

try_advisory_lock(p) ==
    /\ p \in MatrixEnabled /\ advisory = Nobody
    /\ Moves(p, "lock", "file")
    /\ advisory' = p
    /\ UNCHANGED <<sync, dbVars, storeLock, lost, faults>>

LeaderElsewhere(p) ==
    /\ p \in MatrixEnabled /\ advisory # Nobody
    /\ pc[p] = "lock"
    /\ Ends(p)
    /\ UNCHANGED <<dbVars, lost, faults>>

WithoutMatrix(p) ==
    /\ p \notin MatrixEnabled
    /\ Moves(p, "lock", "probe")
    /\ UNCHANGED <<sync, dbVars, lockVars, lost, faults>>

\* Mutant: try_lock_exclusive does not exclude.
StoreShared(s) == TRUE

StoreFree(s) == storeLock[s] = Nobody

\* Without Matrix the guard is dropped in the statement that takes it, and a
\* failure is ignored.
ProbeStore(p) ==
    /\ Moves(p, "probe", IF StoreFree(StoreOf[p]) THEN "probed" ELSE "spawn")
    /\ storeLock' = IF StoreFree(StoreOf[p]) THEN [storeLock EXCEPT ![StoreOf[p]] = p]
                                             ELSE storeLock
    /\ UNCHANGED <<sync, dbVars, advisory, lost, faults>>

DropProbe(p) ==
    /\ Moves(p, "probed", "spawn")
    /\ storeLock' = Unlocked(p)
    /\ UNCHANGED <<sync, dbVars, advisory, lost, faults>>

lock_crypto_store(p) ==
    /\ StoreFree(StoreOf[p])
    /\ Moves(p, "file", "client")
    /\ storeLock' = [storeLock EXCEPT ![StoreOf[p]] = p]
    /\ UNCHANGED <<sync, dbVars, advisory, lost, faults>>

StoreInUse(p) ==
    /\ pc[p] = "file" /\ ~StoreFree(StoreOf[p])
    /\ Ends(p)
    /\ UNCHANGED <<dbVars, lost, faults>>

RestoreSession(p) ==
    /\ Moves(p, "client", "spawn")
    /\ UNCHANGED <<sync, dbVars, lockVars, lost, faults>>

\* The delivery loop and, with Matrix, the sync thread run from here on.
Spawn(p) ==
    /\ Moves(p, "spawn", "bind")
    /\ sync' = [sync EXCEPT ![p] = p \in MatrixEnabled]
    /\ UNCHANGED <<dbVars, lockVars, lost, faults>>

Bind(p) == Moves(p, "bind", "serving") /\ UNCHANGED <<sync, dbVars, lockVars, lost, faults>>

-----------------------------------------------------------------------------
(* What goes wrong *)

\* Any `?` of run and of what it calls, ctrl_c, or a kill.
Stops(p) ==
    /\ pc[p] # "down"
    /\ Fault
    /\ Ends(p)
    /\ UNCHANGED <<dbVars, lost>>

\* sync_with_result_callback returns: sync_forever drops the runtime and its lock.
SyncEnds(p) ==
    /\ sync[p]
    /\ Fault
    /\ sync' = [sync EXCEPT ![p] = FALSE]
    /\ storeLock' = Unlocked(p)
    /\ UNCHANGED <<pc, dbVars, advisory, lost>>

\* The pooled connection that took the advisory lock breaks, as when PostgreSQL
\* restarts.  Nothing in the process looks at it again.
LosesConnection(p) ==
    /\ advisory = p
    /\ Fault
    /\ advisory' = Nobody
    /\ lost' = TRUE
    /\ UNCHANGED <<pc, sync, dbVars, storeLock>>

\* The server ends the session of a process that is gone.
ServerReaps ==
    /\ advisory = Orphan
    /\ advisory' = Nobody
    /\ UNCHANGED <<pc, sync, dbVars, storeLock, lost, faults>>

Step(p) ==
    \/ Start(p) \/ CreateTable(p) \/ SelectVersion(p)
    \/ ApplySchema(p) \/ SchemaExists(p) \/ InsertVersion(p)
    \/ try_advisory_lock(p) \/ LeaderElsewhere(p) \/ WithoutMatrix(p)
    \/ ProbeStore(p) \/ DropProbe(p) \/ lock_crypto_store(p) \/ StoreInUse(p)
    \/ RestoreSession(p) \/ Spawn(p) \/ Bind(p)

Next ==
    \/ \E p \in Procs : Step(p) \/ Stops(p) \/ SyncEnds(p) \/ LosesConnection(p)
    \/ ServerReaps

Spec == Init /\ [][Next]_vars

\* A container that is down is started again, statements and locks return, and
\* the server ends dead sessions.
FairSpec == Spec /\ WF_vars(ServerReaps) /\ \A p \in Procs : WF_vars(Step(p))

-----------------------------------------------------------------------------
\* A process that delivers, syncs or serves, or is about to, has a database in
\* which the whole migration is done, whoever did it (run_migrations).
MigratedBeforeUse == \A p \in Procs : pc[p] \in Migrated => table /\ schema /\ version

\* Processes that start at the same time migrate once: one of them inserts the
\* version, and no row is in its way (run_migrations).
OneMigrates ==
    \A p \in Procs : pc[p] = "insert" =>
        /\ schema /\ ~version
        /\ \A q \in Procs : pc[q] = "insert" => q = p

\* With Matrix a process has its store open from the client on until it ends: the
\* MatrixSink of the delivery loop and the handlers has a clone of the client.
HasStore(p) == p \in MatrixEnabled /\ pc[p] \in {"client", "spawn", "bind", "serving"}

\* The sync thread is gone, and with it the lock of the store.
SyncOver(p) == pc[p] \in {"bind", "serving"} /\ ~sync[p]

\* Two processes have one crypto store open only after two faults: the session
\* with the advisory lock was lost, and the sync thread of one of the two has
\* ended while its process goes on.  Two never sync one store (MatrixRuntime,
\* lock_crypto_store, sync_forever).
StoreSharedByTwoFaults ==
    \A p, q \in Procs :
        HasStore(p) /\ HasStore(q) /\ StoreOf[p] = StoreOf[q] /\ p # q =>
            lost /\ (SyncOver(p) \/ SyncOver(q))

\* As long as no lock holder's session is lost, one process of all has a store
\* open, whichever store it is (try_advisory_lock in run).
OneLeaderUntilLost ==
    ~lost => \A p, q \in Procs : HasStore(p) /\ HasStore(q) => p = q

\* docs/web-login-relay-spec.md:375 "Never run concurrent containers over one
\* crypto store."
OneContainerPerStore ==
    \A p, q \in Procs : HasStore(p) /\ HasStore(q) /\ StoreOf[p] = StoreOf[q] => p = q

\* The tables are there, the version is not, and nobody will insert it: every
\* start ends in SchemaExists.
CutOff == schema /\ ~version /\ \A p \in Procs : pc[p] # "insert"

\* The leader serves without its sync thread and keeps the advisory lock.
Headless(p) == pc[p] = "serving" /\ p \in MatrixEnabled /\ ~sync[p]

\* Restarts converge: again and again some process syncs and serves, except in
\* the two states the code has no way out of, a migration cut off before its
\* version row and a leader whose sync thread has ended.
SyncReturns ==
    \/ []<>(\E p \in Procs : sync[p] /\ pc[p] = "serving")
    \/ <>[](CutOff \/ \E p \in Procs : Headless(p))

-----------------------------------------------------------------------------
\* The inductive invariant: who has a store open holds its lock until its sync
\* thread ends, and the leader the advisory lock until a session is lost.
IInv ==
    /\ TypeOK
    /\ \A p \in Procs : pc[p] \notin {"down", "create"} => table
    /\ version => schema /\ table
    /\ \A p \in Procs : sync[p] => pc[p] \in {"bind", "serving"} /\ p \in MatrixEnabled
    /\ \A p \in Procs : pc[p] \in {"probe", "probed"} => p \notin MatrixEnabled
    /\ \A p \in Procs : pc[p] \in {"file", "client"} => p \in MatrixEnabled
    /\ MigratedBeforeUse
    /\ OneMigrates
    /\ \A p \in Procs : HasStore(p) => SyncOver(p) \/ storeLock[StoreOf[p]] = p
    /\ \A p \in Procs : ~lost /\ p \in MatrixEnabled
                        /\ pc[p] \in {"file", "client", "spawn", "bind", "serving"}
                        => advisory = p
=============================================================================
