# A verification of the QR login relay

The relay stands between web sites, Matrix accounts on phones, and a PostgreSQL
database. A site registers a login session and shows its QR code; a phone that
scanned it sends a `Request` in an encrypted room; the relay answers with a
`Challenge`; the phone signs a `Consent`; the relay posts a signed assertion to
the site and tells the phone with a `Result`. Later the phone may send a
`Revocation`, which the relay posts to the site as well.

These TLA+ modules model that relay, TLC checks them on small instances, and
TLAPS proves the main safety properties for every value of the constants.
`PROJECT.json` maps each definition to the lines it models.

## Inventory

| Part | Source | State | Operations | Module |
|---|---|---|---|---|
| time windows | `protocol/time.rs`, `clock.rs` | the clock | window checks, lifetimes | `RelayTime`, `MachineTime` |
| database | `db/*.rs`, `migrations/0001_init.sql` | `sessions`, row locks, replay tables, `grants`, `delivery_jobs` | every statement the services run | `RelayDb` |
| registration | `services/registration.rs`, `protocol/registration.rs` | registrations in progress | validate, insert, fail | `RegistrationService` |
| login service | `services/login.rs` | local state of the handlers, notices sent | request, consent, revocation | `LoginService` |
| delivery queue | `delivery/queue.rs` | local state of the loops, what sites accepted, Results sent | claim, post, commit, send, mark | `DeliveryQueue` |
| relay process | `lib.rs`, `matrix/handler.rs` | all of the above | composition, clock, redelivery, crash | `Relay` |
| what all that promises | | logins, statements, who was told | open, bind, ask, state, accept, tell, settle | `LoginPromise`, `RelayPromise` |
| rooms, sync, readiness | `room_policy.rs`, `matrix/*.rs`, `http/routes.rs` | rooms at the homeserver and in the client, the loop, two atomics, probes | sync, check, reject, join, leave, store, probe | `MatrixSync` |
| startup | `db/mod.rs`, `lib.rs`, `matrix/client.rs` | processes, schema, version row, advisory and file locks | each statement, lock and spawn up to the listener | `Startup` |
| rate limiter | `http/routes.rs` | two atomics, the requests in between | load, two stores, fetch_add | `RateLimiter` |
| HTTPS client | `outbound/*.rs` | one request, its timers and buffer | resolve, connect, handshake, write, read, time out | `SiteClient` |
| documents | `protocol/*.rs` | what was read, signed and written for one login | register, request, consent, deliver, revoke | `LoginDocuments` |
| JSON | `json/strict.rs`, `crypto/jcs.rs` | the texts read | read strictly, write canonically | `StrictJson` |

The parts meet in the database. The handlers and the delivery loops run
concurrently, each in transactions that begin with `SELECT ... FOR UPDATE` on one
session row; between transactions they send Matrix notices and HTTPS requests
that may fail, or succeed without an answer.

What makes it hard: a handler reads the clock, waits for a connection and a row
lock, commits, and only then sends; Matrix may deliver an event again, or to two
tasks; the result of `cas_update` is mostly ignored; the lease of a job is
shorter than the time a POST may take; the process may stop anywhere.

What correctness means here: an assertion goes out only for a login the same account
asked for and approved; exactly one per accepted approval; within every time window;
a challenge a phone holds is one the relay will recognise; a phone is told of
success only when it is true; jobs are settled, truthfully; and the grant table
agrees with the last statement queued for the site. Around that core: messages count
only from a room of two; one process syncs a store, and what a second may still do
with it is known; the schema is complete before it is used; a slow or odd site
cannot hold or flood the relay; a signature covers one document; what is committed
can be told.

## Modules

`RelayTime` holds the pure time functions. `assertion_expires_at` is the `min` in
`process_consent`.

`RelayDb` holds the tables and one operator per statement. A statement returns
the new table or the rows it selects, and the service applies it in the step
that commits the transaction, since nothing is visible to others before. A
session row is named by the registration that inserted it. Columns nobody reads
back are left out; a hash or a ciphertext stands for its plaintext; the n-th
challenge drawn is `n`, and a job's jti is its index. Row locks are explicit
(`locks`), because the code's ignored `cas_update` results depend on them.
`jobs[j].event` is a history column, `due` is `next_retry_at <= NOW()`.

`RegistrationService` has one step for validation and one for the insertion,
because the site's metadata is fetched in between.

`LoginService` splits a handler where other tasks can run:

| `pc` | In the code |
|---|---|
| `received` | the message is decoded and verified, `now` is read, the transaction's first `SELECT` is still to come |
| `locked` | the row is read and locked; the whole rest of the transaction is one step |
| `send_challenge`, `send_failure` | the transaction has ended, the notice is still to be sent |

`IssueChallenge`, `RejectExpiredConsent`, `IgnoreConsent`, `RefuseConsent`,
`ApproveConsent`, `RevokeGrant` and the `Ignore*` actions are the ways out of
`locked`. `DbError` and `NoticeFails` are the error paths.

`DeliveryQueue` follows a tick: `ClaimDue`, then for each claimed job
`PostAccepted` or `PostFails` (with or without effect at the site),
`LockAccepted`, `CommitDelivered`, `SendResult` or `ResultFails` (the notice may
have gone out), `MarkDelivered` or `MarkFailed`. An error leaves the job pending
unless the claim was the last allowed. `MarkFails` is the `?` that ends a tick. A
claim takes the lowest due ids, but passes over any rows that another loop may have
locked at that moment (`LockedByOthers`, for `SKIP LOCKED`): one that is claiming, or
one that is marking that very job. So claims have no order among loops. A claim or
mark that takes effect while its answer is lost leaves the database as a crash right
after it does.

`Relay` composes them and adds the clock, `RetryTime` (a lease ends, whether or
not its holder is done), and `Crash` (locks and local state are gone, tables
stay). A phone knows a challenge from a notice and a subject from a Result only
(`KnownToSender`). `MCRelay` gives the instances.

`LoginPromise` is the abstract specification: logins are opened, bound once, asked,
approved into statements, accepted by the site, told and settled, each in one
step, without rows, locks, tasks, attempts or crashes. `RelayPromise` maps the
tables, notices and answers of `Relay` to it; `KeepsPromise` is the refinement.

`MatrixSync` has the rooms twice: `server` as the homeserver has them, `view` as
the client's store has them since the last sync. Users create rooms, invite, join,
leave and write at any moment. A round of the thread is `SyncOk`, one
`HandleMessage` per message, then `auto_join_invites` over the invitations in the
order of the client's list: `CheckInvite`, `Reject` or `Join`,
`RequestEncryption`, `CheckMembers`, `LeaveJoined`, and at last `StoreLast` and
`StoreReady`. Any request may fail, with or without effect. `direct[r]` is a
history variable, the accounts that were alone with the relay in `r` since the
last sync. The readiness probe is three reads. (It pings the database first; a
failed ping is just "not ready".)

`Startup` runs any number of processes through `run`: a table, the version query,
the schema batch, the version row, the advisory lock, the store lock, the session,
the spawned threads, the listener. `Orphan` holds the advisory lock of a process
that is gone until the server ends its session. A process whose sync thread has
ended gives up the store lock while its `MatrixSink` still has a clone of the client
to send with; `HasStore` counts it as having the store open until it ends.

`RateLimiter` splits `rate_limit_ok` into its atomic operations. They are
`Relaxed`, so the two stores happen in either order.

`SiteClient` follows one request after another through its awaits. An address is
its family and range, a reply its measures: bytes, header, status. `total` runs
from where `timeout(total_t, ..)` begins, `phase` from the await at hand. How long a
resolution takes is not counted, since nothing in the code bounds it.

`LoginDocuments` takes one login through its documents. A text is its characters,
bytes and JSON bytes, and whether it is in the alphabet it is matched with.
`written` is what the relay encodes, and `signed` every signed document with the
fields its canonical form holds.

`MachineTime` has the time functions and sums in integers of `Width` bits,
saturating or wrapping as the code says. `StrictJson` reads and writes syntax trees:
`StrictValue` and `write_value` are recursive functions, each one a step
(`StrictVisitor`, `Pushed`) applied to what the parts of a tree yield, beside reference
definitions of ambiguity and meaning. `Height` says that a tree is finite.

## Runs

| Run | Shows | Instance |
|---|---|---|
| `Race` | `IInv`, `RowLockGuardsSnapshot`, `ChallengeNoticeStaysValid`, `AssertionsFollowConsent`, `ConsentYieldsOneAssertion` | 4 registrations that share session id or nonce within and across sites, or are too long; 2 accounts, 2 rooms, 2 handlers, 3 events, 1 crash |
| `Expiry` | `AssertionWithinWindow` | clock 0..4, session 1..3, TTL 2, skew 1; messages at and beyond each boundary; a bad signature |
| `Delivery` | `GrantMatchesLastJob`, `BindingNeverChanges` | 4 events: consents and revocations in any order; batch of 1 |
| `TwoWorkers` | `SettledJobsAreTrue`, `SuccessIsTrue`, `KeepsPromise` | 2 delivery loops and 2 handlers, 2 attempts, 1 crash or failed statement |
| `Revocation` | `RevocationFollowsLogin`, `KeepsPromise` | 2 delivery loops, 3 events: a request, then consents and revocations, by the account or by another one |
| `Outbound` | `JobsSettle`; `OnlyCheckedAddress`, `LengthBounded`, `AcceptedIsWhole`, `RequestEnds` | `Fairness` and `SiteFairness`; 3 events with up to 2 jobs in a batch of 2, 1 crash or failed statement; 2 requests, body limit 3, replies at and around each limit |
| `Rooms` | `OnlyDirectRoomsHandled`, `ReadyMeansAnswered`, `UncheckedOnlyByFailure` | 2 rooms, 3 users, one of them a guest, 4 changes, 2 failures |
| `RoomsLiveness` | `ReadyIsRecent`, `InvitesAnswered`, `ReadyReturns` | `FairSpec`, 2 rooms, for the second of which the homeserver refuses every request; clock 0..3, staleness 1, 1 probe, 1 failure |
| `Startup` | `MigratedBeforeUse`, `OneMigrates`, `StoreSharedByTwoFaults`, `OneLeaderUntilLost`, `SyncReturns` | `FairSpec`, 4 processes, 1 of them without Matrix, 2 stores, 3 faults |
| `Protocol` | `CommittedCanBeTold`, `ApprovedIsSigned`, `SignaturesBind`; `SessionTimesExact`, `MessageTimesExact`; `RefusesTheAmbiguous`, `CanonicalMeansSame`; `ExactWithoutOverlap`, `NoSecondRefusesAll`, `OverrunIsBounded` | texts at and around each real limit, 4 events; every pair of 6-bit times; every pair of the JSON texts of `MCStrictJson`: up to 2 members or items, over leaves or over seven chosen inner values; limit 2, 3 tasks, 7 requests, 2 seconds |
| `OneConsent`, `OneStore` | violated: `OneConsentPerChallenge`, `OneContainerPerStore` | see below |

Bounds: `MaxNow` stops the clock, `MaxFaults` bounds crashes and failed `mark_*`
statements, `EventIds` bounds the distinct Matrix events (each may be delivered any
number of times), `MaxAttempts` is 1 or 2 instead of 8 and `BatchLimit` 1 or 2
instead of 10. Two events suffice for a login, three add a second consent or a
competing request, four a revocation and a second grant. Two attempts have a first,
a retried and an exhausting one; a batch of one leaves jobs behind. Events, handlers
and workers are interchangeable, so their permutations are symmetries. Runs with
liveness properties use none; in `Outbound` event ids are numbers that arrive in
their order (`ArriveInOrder`), which loses nothing, as a name of an event decides
nothing, and no fairness asks for an arrival. In the runs of `Relay` and
`MatrixSync` there is no deadlock: an event can always be delivered, the thread can
always sync again. The other runs end at a bound (requests, calls, events, texts,
faults).

In `Rooms` four changes create and fill a room, alter it or write in it; `MaxErrors`
bounds failed requests and crashes, and with two of them the snapshot after a failed
sync fails as well. In `Startup` three faults lose a session, stop its holder and
stop another. A limit of 2 and three tasks suffice for a store by a late request of
the second before. `SiteClient`'s sizes and times are scaled down, in the order of
the real ones (connect, first byte, total; a chunk is less than the limit).
`MachineTime` keeps skew, grace and TTL far below the width, and `UtcLimit` below
the largest integer, as `chrono` has it. The parts of `Protocol` share no state, nor
do the two of `Outbound`; `MCProtocol` and `MCOutbound` take one of them in each
behaviour.

Fairness (`Fairness` in `Relay`): a handler inside a transaction ends it; the
delivery loop goes on, since it ticks every second and every HTTPS step has a
timeout (name resolution excepted, which the code does not bound and the model
takes to return); PostgreSQL serves the waiters for a row lock in turn, so a
loop that can infinitely often get the lock gets it (strong fairness, as other
transactions take it in between); leases end. Nothing is assumed about sites,
phones, registrations, or that anything succeeds.

In `Startup`: a container that is down is started again (`restart:
unless-stopped`), statements return, the server ends dead sessions. `SyncReturns`
names the two states the code has no way out of: tables without their version
row, and a leader that serves without its sync thread. In `MatrixSync`: the thread
never waits for more than one request, and requests return. In `SiteClient`: time
passes, due timers fire, the loop reads on, and the resolver answers; nothing is
asked of the site.

### Where the documents and the code differ

Run `OneConsent` shows the first of these and run `OneStore` the second; the others are
read off the code, and the properties named in the last column say what does hold.

| The document | The code | What holds |
|---|---|---|
| "one consent per challenge" (`docs/web-login-relay-spec.md:207`) | `process_consent` reserves the event, not the challenge, and does not look at the session's state | `ConsentYieldsOneAssertion`, per consent |
| "Never run concurrent containers over one crypto store." (`:375`) | the store lock goes with the sync thread, the client stays with the `MatrixSink`; when the session with the advisory lock is lost too, the next leader opens the same store | `StoreSharedByTwoFaults` |
| "Refusal or terminal failure sends `success = false`" (`:317`) | `tick` marks the job failed and sends nothing | `SettledJobsAreTrue` |
| "yields one assertion and one `Result`" (`:412`) | a job whose `mark_delivered` failed is delivered again, Result included | `SuccessIsTrue`, `KeepsPromise` |
| `is_terminal` counts `REVOKED` (`src/db/sessions.rs:42`) | a delivery retry writes `ASSERTION_DELIVERED` over it | `GrantMatchesLastJob` |
| "Use one active sync leader per device." (`:375`) | the advisory lock is not looked at again: when its session is lost, the holder goes on beside the next leader | `OneLeaderUntilLost`, `StoreSharedByTwoFaults` |
| "Full membership is fetched and enforced immediately after joining." (`src/room_policy.rs:86`) | a failure after `join` leaves the room joined and unchecked | `UncheckedOnlyByFailure`, `OnlyDirectRoomsHandled` |
| "set strict connect, TLS, first-byte, and total timeouts" (`:370`) | the total timeout begins after the resolution, which has none | `RequestEnds`, if the resolver returns |
| "reject loopback, private, link-local, multicast, carrier-grade NAT, documentation, reserved, and cloud metadata ranges" (`:365`) | `is_blocked_v4` and `is_blocked_v6` list no reserved range such as 240.0.0.0/4 (only the broadcast address in it) | `OnlyCheckedAddress`, of the ranges that are listed |
| "non-empty display name of at most 100 characters when approved" (`:208`) | `decode` counts bytes | `ApprovedIsSigned` |
| "encodes and decodes exactly the five `kind` objects" (`:150`) and `tests/integration.rs:114` | `decode` refuses `Challenge` and `Result` | `CommittedCanBeTold` |

## Proofs

The `*Proofs` modules prove, for all sets of registrations, messages, events,
handlers, workers, processes, stores, rooms, users, tasks, addresses, replies,
texts, JSON trees and integer widths and all bounds:

| Theorem | States |
|---|---|
| `TypeCorrect` | `Spec => []TypeOK` |
| `LocksGuardSnapshots` | `Spec => []RowLockGuardsSnapshot` |
| `BindingPermanent` | `Spec => BindingNeverChanges` |
| `Inductive` | `Spec => []IInv` |
| `ChallengesValid` | `Spec => []ChallengeNoticeStaysValid` |
| `AssertionsConsented` | `Spec => []AssertionsFollowConsent` |
| `OneAssertionPerConsent` | `Spec => []ConsentYieldsOneAssertion` |
| `DeliveryInvariant` | `Spec => []DInv` |
| `AssertionsInTime` | `Spec => []AssertionWithinWindow` |
| `SettledTruthfully` | `Spec => []SettledJobsAreTrue` |
| `ResultsAreTrue` | `Spec => []SuccessIsTrue` |
| `GrantsAgree` | `Spec => []GrantMatchesLastJob` |
| `RevocationsFollowLogins` | `Spec => []RevocationFollowsLogin` |
| `RelayKeepsPromise` | `Spec => KeepsPromise` |
| `LimitExact`, `SomeonePasses`, `OverrunBounded` | the three properties of `RateLimiter` |
| `AlwaysMigrated`, `MigratedOnce`, `StoreExclusive`, `LeaderUnique` | the four safety properties of `Startup` |
| `DirectRooms`, `FlagMeansAnswered`, `CheckedUnlessFailed`, `ProbeIsRecent` | the four safety properties of `MatrixSync` |
| `AddressChecked`, `BufferBounded`, `WholeResponses` | the three safety properties of `SiteClient` |
| `SessionsExact`, `MessagesExact` | the two properties of `MachineTime` |
| `NoticesCanBeWritten`, `ApprovalsSigned`, `SignaturesBinding`, `DocumentsTyped` | the three properties and the types of `LoginDocuments` |
| `ReadsStrictly`, `CanonicalFormIsOne` | the two properties of `StrictJson` |
| `CanonicalFormIsFaithful` | `write_value` tells two values apart just when they differ in meaning |

`Relay` has five modules, each on top of the one before: `RelayTypeProofs` its
types, `RelayProofs` its locks and bindings, `RelayConsentProofs` what leads from a
challenge to an assertion, `RelayDeliveryProofs` its delivery, and
`RelayPromiseProofs` the refinement and what a revocation rests on. `RequestProofs`
has `RateLimiter` and `StrictJson`, `GroundworkProofs` has `Startup`, `MachineTime`,
`LoginDocuments` and `SiteClient`, and `MatrixSyncProofs` has `MatrixSync`.

Assumptions: the ones named in the modules, which TLC evaluates in every run.
Registrations and messages are typed, `None` and `Nobody` are none of the values
they are used beside, handlers and workers differ, and the numeric constants are
naturals. In `MachineTime` the largest time the clock shows lies a lifetime and the
grace below `UtcLimit`, and `UtcLimit` the grace below the largest integer. Of a text in
`LoginDocuments`, JSON takes at most six bytes for each of its bytes, and an empty
one is blank (`MeasureAssumption`). A tree of `StrictJson` has the shape of its kind and
only lower trees as its parts (`TreeAssumption`).

The argument. `StateOK` adds to the types what the local state of a task says: a
busy handler has an event it received, inside a transaction a row that exists and
that its message names; a worker's claims are on jobs that exist. With it
`RowLockGuardsSnapshot` is inductive: a row is written only by the holder of its
lock, a lock is granted only when free, and each way out of a transaction frees it.
From it follows that every `cas_update` matches, and that a task that waits for a
row waits for one that is inside a transaction and waits for nobody. `BindingOK`
says that challenge, account, room and expiry are set together and that no two
sessions share a challenge; `BoundByRequest` that a reserved request event explains
each binding. Since `process_request` refuses a row with a challenge, a binding
never changes, and everything that refers to one stays true: notices sent or still
in a handler (`NoticesOK`), and assertions (`AssertionsFollowConsent`). `EventsOK`
links the replay tables to received messages. A consent's reservation and its job
are one step, and the reservation excludes a second, which gives
`ConsentYieldsOneAssertion`. None of the last three is inductive alone: a handler's
snapshot might be stale without the lock, and a committed but unsent challenge might
clash without `NoticesOK`.

The per-action type lemmas come first, one per action, then one lemma per
conjunct of `IInv` over `Next`, so that each leaf expands one action.

On top of `IInv`, `DInv` is inductive. `ChallengeEnds` and `AssertionsBound` relate
the end of a challenge and an assertion to the session's; `WorkersTrue` says that
what a worker is about to do is justified (a claim counted its attempt, a commit
follows an acceptance, a Result is for an accepted assertion in its session's room),
which a lease that ended does not disturb; `ResultsTrue` and `SettledJobsAreTrue`
follow. For the refinement each action of `Relay` is shown to be a step of
`LoginPromise` or a stutter: `IssueChallenge` binds, `SendChallenge` asks,
`ApproveConsent` and `RevokeGrant` make statements, `PostAccepted` and the effective
case of `PostFails` accept, `SendResult` and the effective case of `ResultFails`
tell, the marks settle; all others, crashes included, leave the mapped state alone.
Binding once needs the row lock, one statement per approval the reservation, a true
Result `DInv`. `RevocationFollowsLogin` rests on `RevocationsKnown`: the subject
that a revocation names was in some Result, and `DInv` says of a Result that its
assertion was accepted, which was for the account that `process_revocation` compares
the sender with; a job is never taken back, nor is an acceptance.

`RateLimiter`: `OpenedByTurn` (a second in the window was opened by a request of its
own), `Budget` (what the count has let in and still may) and `Aligned` (the exact
state while requests run one at a time) make the three properties inductive.
`Startup`: a process that has a store open holds its lock until its sync thread
ends, and until a session is lost the leader holds the advisory lock. `MatrixSync`:
`ViewWasTrue` (what the store says of a room was so since the last sync), `LoopOK`
(the loop has all invitations not answered) and `TimesOK` (a time that can be read
is the time of a round).

`SiteClient`: `RequestShape` says that a running request has no outcome yet and that
the buffer is a part of the reply, empty before the first byte; `SInv` joins it to
the three properties and the types. The addresses of an answer
are a sequence of any length; that `pinned_socket` takes the first that is not
blocked is `PickedAddress`, which rests on `FirstIndex` (a nonempty set of indices
has a least one, from the well-foundedness of `<`).

`MachineTime`: `WrapFits` and `WrapOver` say when an addition of two's complement is
exact, and where it lands if not. The sum that could wrap, `exp + REPLAY_GRACE_MS`,
then lies below every time that `chrono` represents, so that `millis_to_utc` refuses
it (`KeptExact`); `validate_window` and `sent_at_in_qr_window` saturate only where the
answer is the same (`WindowExact`, `SentExact`). `TimeInv` adds to the properties that
a challenge or an assertion has a session (`SessionFirst`).

`LoginDocuments`: `RowChecked` is what `register_session` has looked at in a row; from
it every notice fits (`ChallengeCanBeWritten`, `ResultCanBeWritten`), as a text is at
most six times as long in JSON, and every approved name can be signed for
(`AssertionCanBeSigned`). For signatures, `KindOf` and `SaysOf` read the kind and the
content of a document off its canonical fields; every document signed or verified
reads as what it is (`SignedReadable`), so equal fields mean equal documents.
`LoginInv` joins these.

`StrictJson`: the library's induction takes an operator, so induction is over sets.
`EveryElement` says that a set which holds a tree whenever it holds all lower ones holds
every tree, from the least height of one that is missing; `Recursion` says that a
definition by recursion has the value its step gives it (`SubtextsDef`, `MeaningDef`
and `WriteDef` use it). Reading: `ReadsTrue` by that induction.
Writing: `SortedDef` says that members with distinct keys have an ascending order, by
insertion of one more, and `SameKeys` that they have one only. That the tokens can be
read back in one way is `EveryReadable`: no form of a value begins the form of another,
so that two lists of items that agree as written agree item by item (`JoinedReads`).
The other way round, values that mean the same are written alike (`WrittenAlike`).

Only model-checked: liveness (`JobsSettle`, `SyncReturns`, `InvitesAnswered`,
`ReadyReturns`, `RequestEnds`), since fairness and `ENABLED` are out of the prover's
reach.

## Not modelled

- Configuration (`config.rs`): environment variables parsed once, before anything
  runs, without state. What it leaves unchecked, the signing kid, is an input of
  `LoginDocuments`.
- The arithmetic of signatures, hashes, ciphers and keys (`crypto/`): the
  libraries' part. In `Relay` a signature is valid or not, a hash stands for what is
  hashed; in `LoginDocuments` a signature binds a canonical form.
- The tokens of JSON (escapes, the spelling of numbers) and the nesting that `serde_json`
  allows: the library's part. `StrictJson` begins at the syntax tree.
- In `Relay`, a message that fails its format or its room's check is one that never
  arrives; `LoginDocuments` and `MatrixSync` model those checks.
- Grant row locks: a transaction takes one grant lock after its session lock, so
  they add order between sessions of one subject and no deadlock.
- The constant answers of the liveness and key routes, the wording of problems,
  metrics and logging. Without Matrix the sync time is written once, so readiness
  ends after 120 seconds; nothing says what it should mean there.
- The 15 second limit on HTTP requests drops a registration at any await, which
  `RegistrationFails` covers.
