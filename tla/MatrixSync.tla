----------------------------- MODULE MatrixSync -----------------------------
(***************************************************************************)
(* The matrix-sync thread: sync_forever and auto_join_invites in            *)
(* matrix/client.rs, the snapshots in matrix/rooms.rs, the policy in        *)
(* room_policy.rs, and the readiness probe in http/routes.rs that reads     *)
(* what the thread stores.  Every request to the homeserver is a step:      *)
(* rooms change in between, requests fail, the process may stop.            *)
(***************************************************************************)
EXTENDS Integers, FiniteSets

CONSTANTS
    Rooms,
    Rank,            \* the place of a room in invited_rooms, the same in every round
    Users, RelayUser,
    Guests,          \* users with "guest" in their name
    Broken,          \* rooms the homeserver can no longer join or leave
    None,
    MATRIX_SYNC_STALE_MS,
    Probes,          \* requests of GET /health/ready that run at a time
    MaxNow, MaxChanges, MaxErrors

ASSUME RoomsAssumption ==
    /\ Rank \in [Rooms -> Nat]
    /\ RelayUser \notin Users /\ Guests \subseteq Users
    /\ Broken \subseteq Rooms
    /\ IsFiniteSet(Users)
    /\ None \notin Rooms /\ None \notin Rooms \X Users
    /\ MATRIX_SYNC_STALE_MS \in Nat

VARIABLES
    now,
    server,          \* the rooms as the homeserver has them
    queue,           \* messages of a room not yet synced, by sender
    view,            \* the rooms as the client store has them
    pc, room,        \* where the thread is, and the room it is at
    inbox,           \* messages of this sync response
    todo,            \* invitations still to be answered in this round
    sync_ready, last_matrix_sync_ms,
    probe,           \* local state of the probes
    unchecked,       \* history: rooms joined without the check after it
    direct,          \* history: peers a room was direct with since the last sync
    handled,         \* history: the last message given to the login service
    rounds,          \* history: when a round had answered all its invitations
    changes, errors

serverVars == <<server, queue, direct, changes>>
roundVars == <<view, pc, room, inbox, todo, unchecked, handled>>
flagVars == <<sync_ready, last_matrix_sync_ms, rounds>>
vars == <<now, serverVars, roundVars, flagVars, probe, errors>>

Everyone == Users \cup {RelayUser}
ServerRoom == [joined : SUBSET Everyone, invited : SUBSET Everyone, encrypted : BOOLEAN]
ViewRoom == [state : {"left", "invited", "joined"}, encrypted : BOOLEAN,
             members : SUBSET Everyone, fetched : BOOLEAN]
ProbeState == [pc : {"idle", "flag", "last"}, running : BOOLEAN, last : Nat, ok : BOOLEAN]

Points == {"sync", "handle", "next", "reject", "join", "encryption", "members", "leave", "ready"}

\* The client's rooms, the thread's place and the two atomics have their shape.
TypeOK ==
    /\ now \in Nat \ {0}
    /\ server \in [Rooms -> ServerRoom]
    /\ queue \in [Rooms -> SUBSET Users]
    /\ view \in [Rooms -> ViewRoom]
    /\ pc \in Points /\ room \in Rooms \cup {None}
    /\ inbox \in SUBSET (Rooms \X Users)
    /\ todo \in SUBSET Rooms
    /\ sync_ready \in BOOLEAN /\ last_matrix_sync_ms \in Nat
    /\ probe \in [Probes -> ProbeState]
    /\ unchecked \subseteq Rooms
    /\ direct \in [Rooms -> SUBSET Users]
    /\ handled \in (Rooms \X Users) \cup {None}
    /\ rounds \subseteq Nat
    /\ changes \in Nat /\ errors \in Nat

RoomOf(joined, invited, encrypted) ==
    [joined |-> joined, invited |-> invited, encrypted |-> encrypted]
Seen(state, encrypted, members, fetched) ==
    [state |-> state, encrypted |-> encrypted, members |-> members, fetched |-> fetched]

NoRoom == RoomOf({}, {}, FALSE)
Unknown == Seen("left", FALSE, {}, FALSE)
Probe(at, running, last, ok) == [pc |-> at, running |-> running, last |-> last, ok |-> ok]
IdleProbe == Probe("idle", FALSE, 0, FALSE)

Init ==
    /\ now = 1
    /\ server = [r \in Rooms |-> NoRoom]
    /\ queue = [r \in Rooms |-> {}]
    /\ view = [r \in Rooms |-> Unknown]
    /\ pc = "sync" /\ room = None
    /\ inbox = {} /\ todo = {}
    /\ sync_ready = FALSE /\ last_matrix_sync_ms = 0
    /\ probe = [q \in Probes |-> IdleProbe]
    /\ unchecked = {}
    /\ direct = [r \in Rooms |-> {}]
    /\ handled = None
    /\ rounds = {}
    /\ changes = 0 /\ errors = 0

-----------------------------------------------------------------------------
(* room_policy.rs *)

\* Mutant: a third member is let pass.
LooseRoom(s) ==
    /\ s.encrypted
    /\ RelayUser \in s.members
    /\ s.members \cap Guests = {}
    /\ s.sender # RelayUser /\ s.sender \in s.members

check_room(s) ==
    /\ s.encrypted
    /\ Cardinality(s.members) = 2
    /\ RelayUser \in s.members
    /\ s.members \cap Guests = {}
    /\ s.sender # RelayUser /\ s.sender \in s.members

\* The member counts of an invitation may be missing, then both are 0.
check_invite(s) ==
    LET summary_unknown == s.joined = 0 /\ s.invited = 0
        peers == s.members \ {RelayUser}
    IN  /\ s.encrypted \/ s.encryption_unknown
        /\ ~summary_unknown => s.joined = 1 /\ s.invited = 1
        /\ RelayUser \in s.members
        /\ Cardinality(peers) <= 1
        /\ summary_unknown => Cardinality(peers) = 1
        /\ peers \cap Guests = {}

\* What the homeserver may show of an invitation: the encryption or nothing of
\* it, the relay's member event and some of the others, the counts or none.
InviteSnapshots(s) ==
    {[encrypted |-> known /\ s.encrypted, encryption_unknown |-> ~known,
      joined |-> IF counts THEN Cardinality(s.joined) ELSE 0,
      invited |-> IF counts THEN Cardinality(s.invited) ELSE 0,
      members |-> visible \cup {RelayUser}] :
        known \in BOOLEAN, counts \in BOOLEAN, visible \in SUBSET (s.joined \cup s.invited)}

-----------------------------------------------------------------------------
(* The homeserver and the other users *)

DirectWith(s) == {u \in Users : s.encrypted /\ s.joined = {RelayUser, u}}

\* The room changes on the server.
ServerBecomes(r, s) ==
    /\ server' = [server EXCEPT ![r] = s]
    /\ direct' = [direct EXCEPT ![r] = @ \cup DirectWith(s)]

UserChanges(r, s) ==
    /\ changes < MaxChanges
    /\ changes' = changes + 1
    /\ ServerBecomes(r, s)
    /\ UNCHANGED <<now, queue, roundVars, flagVars, probe, errors>>

WithJoined(s, joined) == RoomOf(joined, s.invited, s.encrypted)

Create(r, u, encrypted) ==
    /\ server[r] = NoRoom
    /\ UserChanges(r, RoomOf({u}, {RelayUser}, encrypted))

PeerJoins(r, u) ==
    /\ server[r] # NoRoom /\ u \notin server[r].joined
    /\ UserChanges(r, WithJoined(server[r], server[r].joined \cup {u}))

PeerLeaves(r, u) ==
    /\ u \in server[r].joined
    /\ UserChanges(r, WithJoined(server[r], server[r].joined \ {u}))

Send(r, u) ==
    /\ u \in server[r].joined /\ RelayUser \in server[r].joined
    /\ u \notin queue[r]
    /\ changes < MaxChanges
    /\ changes' = changes + 1
    /\ queue' = [queue EXCEPT ![r] = @ \cup {u}]
    /\ UNCHANGED <<now, server, direct, roundVars, flagVars, probe, errors>>

UserStep ==
    \E r \in Rooms, u \in Users :
        \/ \E encrypted \in BOOLEAN : Create(r, u, encrypted)
        \/ PeerJoins(r, u) \/ PeerLeaves(r, u) \/ Send(r, u)

-----------------------------------------------------------------------------
(* sync_forever: one response, its messages, then the callback *)

\* The store after a sync: member lists that were fetched are kept up to date.
Synced(r) ==
    LET s == server[r]
        known == view[r].fetched /\ RelayUser \in s.joined
    IN  Seen(IF RelayUser \in s.joined THEN "joined"
             ELSE IF RelayUser \in s.invited THEN "invited" ELSE "left",
             s.encrypted, IF known THEN s.joined ELSE {}, known)

SyncOk ==
    /\ pc = "sync"
    /\ view' = [r \in Rooms |-> Synced(r)]
    /\ inbox' = {m \in Rooms \X Users : m[2] \in queue[m[1]] /\ RelayUser \in server[m[1]].joined}
    /\ queue' = [r \in Rooms |-> IF RelayUser \in server[r].joined THEN {} ELSE queue[r]]
    /\ direct' = [r \in Rooms |-> DirectWith(server[r])]
    /\ handled' = None
    /\ pc' = "handle"
    /\ UNCHANGED <<now, server, changes, room, todo, unchecked, flagVars, probe, errors>>

\* Mutant: a failed sync leaves the flag as it is.
KeepsFlag == sync_ready

FlagAfterError == FALSE

Error == errors < MaxErrors /\ errors' = errors + 1

\* The callback gets Err, or auto_join_invites returns it: the round is over.
RoundFails ==
    /\ sync_ready' = FlagAfterError
    /\ pc' = "sync" /\ room' = None /\ todo' = {}

SyncErr ==
    /\ pc = "sync"
    /\ Error
    /\ RoundFails
    /\ UNCHANGED <<now, serverVars, view, inbox, unchecked, handled, last_matrix_sync_ms, rounds,
                   probe>>

\* The handler takes a snapshot of the room as the store has it, fetching the
\* members first if it has none, and handle_inbound checks it.
HandleMessage(m) ==
    LET v == view[m[1]]
        members == IF v.fetched THEN v.members ELSE server[m[1]].joined
        snapshot == [encrypted |-> v.encrypted, members |-> members, sender |-> m[2]]
    IN  /\ pc = "handle" /\ m \in inbox
        /\ inbox' = inbox \ {m}
        /\ view' = [view EXCEPT ![m[1]] = Seen(v.state, v.encrypted, members, TRUE)]
        /\ handled' = IF check_room(snapshot) THEN m ELSE handled
        /\ UNCHANGED <<now, serverVars, pc, room, todo, unchecked, flagVars, probe, errors>>

\* The members cannot be fetched: the handler returns, the message is gone.
SnapshotFails(m) ==
    /\ pc = "handle" /\ m \in inbox /\ ~view[m[1]].fetched
    /\ Error
    /\ inbox' = inbox \ {m}
    /\ UNCHANGED <<now, serverVars, view, pc, room, todo, unchecked, handled, flagVars, probe>>

HandlersDone ==
    /\ pc = "handle" /\ inbox = {}
    /\ pc' = "next"
    /\ todo' = {r \in Rooms : view[r].state = "invited"}
    /\ UNCHANGED <<now, serverVars, view, room, inbox, unchecked, handled, flagVars, probe,
                   errors>>

-----------------------------------------------------------------------------
(* auto_join_invites *)

\* The next invitation: its snapshot, then to join or to leave.
CheckInvite(r, s) ==
    /\ pc = "next"
    /\ r \in todo /\ \A q \in todo : Rank[r] <= Rank[q]
    /\ room' = r
    /\ pc' = IF check_invite(s) THEN "join" ELSE "reject"
    /\ UNCHANGED <<now, serverVars, view, inbox, todo, unchecked, handled, flagVars, probe, errors>>

\* On to the next room.
Continue ==
    /\ pc' = "next" /\ room' = None
    /\ todo' = todo \ {room}
    /\ UNCHANGED <<now, queue, changes, inbox, handled, flagVars, probe, errors>>

\* Mutant: an unsafe invitation is skipped and stays.
SkipRoom ==
    /\ room \notin Broken
    /\ UNCHANGED <<server, direct, view, unchecked>>

LeftOnServer(s) ==
    RoomOf(s.joined \ {RelayUser}, s.invited \ {RelayUser}, s.encrypted)

\* room.leave(): the server and the store no longer have the relay in it.
LeaveRoom ==
    /\ room \notin Broken
    /\ ServerBecomes(room, LeftOnServer(server[room]))
    /\ view' = [view EXCEPT ![room] = Unknown]
    /\ unchecked' = unchecked \ {room}

Reject == pc = "reject" /\ LeaveRoom /\ Continue

JoinedOnServer(s) ==
    RoomOf(s.joined \cup {RelayUser}, s.invited \ {RelayUser}, s.encrypted)

SeenJoined(v) == Seen("joined", v.encrypted, v.members, v.fetched)

\* Mutant: the room is trusted once joined.
JoinTrusted ==
    /\ pc = "join" /\ room \notin Broken
    /\ ServerBecomes(room, JoinedOnServer(server[room]))
    /\ view' = [view EXCEPT ![room] = SeenJoined(view[room])]
    /\ unchecked' = unchecked \cup {room}
    /\ Continue

Join ==
    /\ pc = "join" /\ room \notin Broken
    /\ ServerBecomes(room, JoinedOnServer(server[room]))
    /\ view' = [view EXCEPT ![room] = SeenJoined(view[room])]
    /\ unchecked' = unchecked \cup {room}
    /\ pc' = "encryption"
    /\ UNCHANGED <<now, queue, changes, room, inbox, todo, handled, flagVars, probe, errors>>

\* joined_room_is_safe: the encryption state, then the members.
RequestEncryption ==
    /\ pc = "encryption"
    /\ view' = [view EXCEPT ![room] = Seen(@.state, server[room].encrypted, @.members, @.fetched)]
    /\ pc' = "members"
    /\ UNCHANGED <<now, serverVars, room, inbox, todo, unchecked, handled, flagVars, probe,
                   errors>>

JoinedRoomIsSafe(encrypted, members) ==
    \E peer \in members \ {RelayUser} :
        check_room([encrypted |-> encrypted, members |-> members, sender |-> peer])

CheckMembers ==
    /\ pc = "members"
    /\ view' = [view EXCEPT ![room] = Seen(@.state, @.encrypted, server[room].joined, TRUE)]
    /\ IF JoinedRoomIsSafe(view[room].encrypted, server[room].joined)
       THEN /\ unchecked' = unchecked \ {room}
            /\ Continue
       ELSE /\ pc' = "leave"
            /\ UNCHANGED <<now, queue, changes, room, inbox, todo, unchecked, handled, flagVars,
                           probe, errors>>
    /\ UNCHANGED <<server, direct>>

LeaveJoined == pc = "leave" /\ LeaveRoom /\ Continue

\* Any `?` of the loop: a request fails, and the join or the leave has had its
\* effect on the server or not; the store is as it was.
InviteFails ==
    /\ pc \in {"next", "reject", "join", "encryption", "members", "leave"}
    /\ pc = "next" => todo # {}
    /\ Error
    /\ RoundFails
    /\ \/ UNCHANGED <<server, direct, unchecked>>
       \/ /\ pc = "join" /\ room \notin Broken
          /\ ServerBecomes(room, JoinedOnServer(server[room]))
          /\ unchecked' = unchecked \cup {room}
       \/ /\ pc \in {"reject", "leave"} /\ room \notin Broken
          /\ ServerBecomes(room, LeftOnServer(server[room]))
          /\ unchecked' = unchecked \ {room}
    /\ UNCHANGED <<now, queue, changes, view, inbox, handled, last_matrix_sync_ms, rounds, probe>>

\* The homeserver refuses every request for this room.
RoomIsBroken ==
    /\ pc \in {"reject", "join"} /\ room \in Broken
    /\ RoundFails
    /\ UNCHANGED <<now, serverVars, view, inbox, unchecked, handled, last_matrix_sync_ms, rounds,
                   probe, errors>>

\* Mutant: the time of a round is stored whatever becomes of its invitations.
StoreAnyway ==
    /\ pc = "next"
    /\ last_matrix_sync_ms' = now
    /\ pc' = "ready"
    /\ UNCHANGED <<now, serverVars, view, room, inbox, todo, unchecked, handled, sync_ready, rounds,
                   probe, errors>>

\* All invitations are answered: the time, then the flag.
StoreLast ==
    /\ pc = "next" /\ todo = {}
    /\ last_matrix_sync_ms' = now
    /\ rounds' = rounds \cup {now}
    /\ pc' = "ready"
    /\ UNCHANGED <<now, serverVars, view, room, inbox, todo, unchecked, handled, sync_ready, probe,
                   errors>>

\* Mutant: the flag is cleared by an error and never set.
StoreNothing ==
    /\ pc = "ready"
    /\ pc' = "sync"
    /\ UNCHANGED <<now, serverVars, view, room, inbox, todo, unchecked, handled, flagVars, probe,
                   errors>>

StoreReady ==
    /\ pc = "ready"
    /\ sync_ready' = TRUE
    /\ pc' = "sync"
    /\ UNCHANGED <<now, serverVars, view, room, inbox, todo, unchecked, handled,
                   last_matrix_sync_ms, rounds, probe, errors>>

SyncThread ==
    \/ SyncOk \/ HandlersDone
    \/ \E m \in inbox : HandleMessage(m)
    \/ \E r \in todo : \E s \in InviteSnapshots(server[r]) : CheckInvite(r, s)
    \/ Reject \/ Join \/ RequestEncryption \/ CheckMembers \/ LeaveJoined
    \/ RoomIsBroken
    \/ StoreLast \/ StoreReady

Failure == SyncErr \/ InviteFails \/ \E m \in inbox : SnapshotFails(m)

\* The process stops and starts again; the store and the sync token are kept.
Crash ==
    /\ Error
    /\ pc' = "sync" /\ room' = None /\ todo' = {} /\ inbox' = {}
    /\ sync_ready' = FALSE /\ last_matrix_sync_ms' = 0
    /\ probe' = [q \in Probes |-> IdleProbe]
    /\ UNCHANGED <<now, serverVars, view, unchecked, handled, rounds>>

-----------------------------------------------------------------------------
(* GET /health/ready *)

matrix_sync_is_fresh(t, last, running) ==
    running /\ last > 0 /\ t - last <= MATRIX_SYNC_STALE_MS

ProbeGoes(q, state) ==
    /\ probe' = [probe EXCEPT ![q] = state]
    /\ UNCHANGED <<now, serverVars, roundVars, flagVars, errors>>

LoadReady(q) ==
    /\ probe[q].pc = "idle"
    /\ ProbeGoes(q, Probe("flag", sync_ready, 0, FALSE))

LoadLast(q) ==
    /\ probe[q].pc = "flag"
    /\ ProbeGoes(q, Probe("last", probe[q].running, last_matrix_sync_ms, FALSE))

\* The clock is read last, and the probe answers.
Answer(q) ==
    /\ probe[q].pc = "last"
    /\ ProbeGoes(q, Probe("idle", FALSE, now,
                          matrix_sync_is_fresh(now, probe[q].last, probe[q].running)))

ready(q) == LoadReady(q) \/ LoadLast(q) \/ Answer(q)

Tick ==
    /\ now < MaxNow
    /\ now' = now + 1
    /\ UNCHANGED <<serverVars, roundVars, flagVars, probe, errors>>

Next == Tick \/ UserStep \/ SyncThread \/ Failure \/ Crash \/ \E q \in Probes : ready(q)

Spec == Init /\ [][Next]_vars

\* The sync thread never waits for more than a request, which returns.
FairSpec == Spec /\ WF_vars(SyncThread)

-----------------------------------------------------------------------------
\* A message reaches the login service only from an encrypted room that had
\* exactly the relay and its sender as members, not guests, at some moment since
\* the sync that brought it.  That covers the rooms joined without the check,
\* and members who came or went unseen (snapshot, check_room, handle_inbound).
OnlyDirectRoomsHandled ==
    handled # None => handled[2] \in direct[handled[1]] \ Guests

\* Between rounds a set flag means that no invitation the client knows of is
\* left unanswered (auto_join_invites, sync_forever).
ReadyMeansAnswered ==
    sync_ready /\ pc = "sync" => \A r \in Rooms : view[r].state # "invited"

\* A room the relay joined and did not check is one it lost an answer for: while
\* no request has failed, the only such room is the one at hand.
UncheckedOnlyByFailure == errors = 0 => unchecked \subseteq {room}

\* A probe that answers 200 has seen the result of a round that ended, all its
\* invitations answered, no longer than MATRIX_SYNC_STALE_MS before (ready).
ReadyIsRecent ==
    \A q \in Probes : probe[q].ok =>
        \E t \in rounds : t <= probe[q].last /\ probe[q].last - t <= MATRIX_SYNC_STALE_MS

\* Every invitation is answered, unless one the homeserver refuses to answer is
\* listed before it: auto_join_invites gives up at the first failure.
InvitesAnswered ==
    \A r \in Rooms : RelayUser \in server[r].invited ~>
        \/ RelayUser \notin server[r].invited
        \/ \E q \in Broken : Rank[q] <= Rank[r] /\ RelayUser \in server[q].invited

\* Without such a room the flag is set again and again.
ReadyReturns == []<>(sync_ready \/ \E q \in Broken : RelayUser \in server[q].invited)

-----------------------------------------------------------------------------
\* What the store says of a room was so at some moment since the last sync.
ViewWasTrue ==
    /\ \A r \in Rooms : DirectWith(server[r]) \subseteq direct[r]
    /\ pc = "handle" => \A r \in Rooms :
          /\ view[r].encrypted => server[r].encrypted
          /\ view[r].fetched /\ view[r].encrypted =>
                \A u \in Users : view[r].members = {RelayUser, u} => u \in direct[r]
    /\ OnlyDirectRoomsHandled

AtRoom == {"reject", "join", "encryption", "members", "leave"}

\* The loop has its room, and the invitations it has not answered.
LoopOK ==
    /\ pc \in AtRoom => room \in todo
    /\ pc \notin AtRoom => room = None
    /\ pc \in {"encryption", "members", "leave"} => view[room].state = "joined"
    /\ pc \in {"sync", "handle", "ready"} => todo = {}
    /\ pc # "handle" => inbox = {}
    /\ pc \in AtRoom \cup {"next", "ready"} =>
          {r \in Rooms : view[r].state = "invited"} \subseteq todo
    /\ ReadyMeansAnswered
    /\ errors = 0 => unchecked \subseteq {room}
    /\ errors = 0 /\ pc \in {"reject", "join"} => unchecked = {}

\* A time a probe reads is the time of a round.
TimesOK ==
    /\ rounds \subseteq 1 .. now
    /\ last_matrix_sync_ms > 0 => last_matrix_sync_ms \in rounds
    /\ \A q \in Probes : probe[q].pc = "last" /\ probe[q].last > 0 => probe[q].last \in rounds
    /\ \A q \in Probes : probe[q].pc # "idle" => ~probe[q].ok
    /\ ReadyIsRecent

\* The inductive invariant.
IInv == TypeOK /\ ViewWasTrue /\ LoopOK /\ TimesOK
=============================================================================
