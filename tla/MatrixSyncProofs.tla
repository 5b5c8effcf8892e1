--------------------------- MODULE MatrixSyncProofs ---------------------------
(***************************************************************************)
(* The sync thread, the room policy and the readiness probe of MatrixSync,  *)
(* for all sets of rooms, users and probes.                                 *)
(***************************************************************************)
EXTENDS MatrixSync, FiniteSetTheorems, TLAPS

\* A finite set of two elements that has x and y is {x, y}.
LEMMA TwoElements ==
    ASSUME NEW S, IsFiniteSet(S), Cardinality(S) = 2, NEW x \in S, NEW y \in S, x # y
    PROVE  S = {x, y}
<1> DEFINE one == S \ {x}
           none == one \ {y}
<1>1. IsFiniteSet(one) /\ Cardinality(one) = 1
      BY FS_RemoveElement
<1>2. y \in one
      OBVIOUS
<1> HIDE DEF one
<1>3. IsFiniteSet(none) /\ Cardinality(none) = 0
      BY <1>1, <1>2, FS_RemoveElement
<1>4. none = {} BY <1>3, FS_EmptySet
<1> USE DEF one
<1> QED BY <1>4

\* check_room accepts a room of the relay and the sender, neither a guest.
LEMMA CheckRoomMeansDirect ==
    ASSUME NEW s, s.members \subseteq Everyone, check_room(s)
    PROVE  s.encrypted /\ s.members = {RelayUser, s.sender} /\ s.sender \notin Guests
<1>1. IsFiniteSet(s.members)
  <2>1. IsFiniteSet(Everyone) BY RoomsAssumption, FS_AddElement DEF Everyone
  <2> QED BY <2>1, FS_Subset
<1>2. /\ RelayUser \in s.members /\ s.sender \in s.members /\ s.sender # RelayUser
      /\ Cardinality(s.members) = 2
      BY DEF check_room
<1>3. s.members = {RelayUser, s.sender} BY <1>1, <1>2, TwoElements
<1> QED BY <1>2, <1>3 DEF check_room

\* The initial states satisfy IInv.
LEMMA InitIInv == Init => IInv
<1> SUFFICES ASSUME Init PROVE IInv
    OBVIOUS
<1> USE RoomsAssumption DEF Init
<1>1. TypeOK
  <2>1. NoRoom \in ServerRoom BY DEF NoRoom, RoomOf, ServerRoom
  <2>2. Unknown \in ViewRoom BY DEF Unknown, Seen, ViewRoom
  <2>3. IdleProbe \in ProbeState BY DEF IdleProbe, Probe, ProbeState
  <2>4. /\ server \in [Rooms -> ServerRoom] /\ queue \in [Rooms -> SUBSET Users]
        /\ view \in [Rooms -> ViewRoom] /\ probe \in [Probes -> ProbeState]
        /\ direct \in [Rooms -> SUBSET Users]
        BY <2>1, <2>2, <2>3
  <2>5. now \in Nat \ {0} /\ pc \in Points BY DEF Points
  <2> QED BY <2>4, <2>5, Zenon DEF TypeOK
<1>2. ViewWasTrue
      BY DEF ViewWasTrue, DirectWith, NoRoom, RoomOf, Unknown, Seen, OnlyDirectRoomsHandled
<1>3. LoopOK BY DEF LoopOK, AtRoom, ReadyMeansAnswered
<1>4. TimesOK BY DEF TimesOK, ReadyIsRecent, IdleProbe, Probe
<1> QED BY <1>1, <1>2, <1>3, <1>4 DEF IInv

\* A change of a room on the server keeps the types.
LEMMA ServerChangeTyped ==
    ASSUME server \in [Rooms -> ServerRoom], direct \in [Rooms -> SUBSET Users],
           NEW r \in Rooms, NEW s \in ServerRoom, ServerBecomes(r, s)
    PROVE  server' \in [Rooms -> ServerRoom] /\ direct' \in [Rooms -> SUBSET Users]
<1>1. DirectWith(s) \in SUBSET Users BY DEF DirectWith
<1> QED BY <1>1 DEF ServerBecomes

\* Every step keeps the types.
LEMMA NextTypeOK == ASSUME TypeOK, LoopOK, [Next]_vars PROVE TypeOK'
<1> USE RoomsAssumption DEF TypeOK, ServerRoom, ViewRoom, ProbeState, Points, Everyone, RoomOf,
        Seen, Probe, NoRoom, Unknown, IdleProbe, serverVars, roundVars, flagVars, LoopOK, AtRoom
<1>1. CASE Tick
      BY <1>1 DEF Tick
<1>2. CASE \E r \in Rooms, u \in Users, encrypted \in BOOLEAN : Create(r, u, encrypted)
  <2>1. PICK r \in Rooms, u \in Users, encrypted \in BOOLEAN : Create(r, u, encrypted) BY <1>2
  <2>2. RoomOf({u}, {RelayUser}, encrypted) \in ServerRoom
        OBVIOUS
  <2>3. ServerBecomes(r, RoomOf({u}, {RelayUser}, encrypted)) BY <2>1 DEF Create, UserChanges
  <2>4. server' \in [Rooms -> ServerRoom] /\ direct' \in [Rooms -> SUBSET Users]
        BY <2>2, <2>3, ServerChangeTyped
  <2> HIDE DEF ServerRoom
  <2> QED BY <2>1, <2>4 DEF Create, UserChanges
<1>3. CASE \E r \in Rooms, u \in Users : PeerJoins(r, u)
  <2>1. PICK r \in Rooms, u \in Users : PeerJoins(r, u) BY <1>3
  <2> DEFINE s == WithJoined(server[r], server[r].joined \cup {u})
  <2>2. s \in ServerRoom
        BY DEF WithJoined
  <2>3. ServerBecomes(r, s) BY <2>1 DEF PeerJoins, UserChanges
  <2> HIDE DEF s
  <2>4. server' \in [Rooms -> ServerRoom] /\ direct' \in [Rooms -> SUBSET Users]
        BY <2>2, <2>3, ServerChangeTyped
  <2> HIDE DEF ServerRoom
  <2> QED BY <2>1, <2>4 DEF PeerJoins, UserChanges
<1>4. CASE \E r \in Rooms, u \in Users : PeerLeaves(r, u)
  <2>1. PICK r \in Rooms, u \in Users : PeerLeaves(r, u) BY <1>4
  <2> DEFINE s == WithJoined(server[r], server[r].joined \ {u})
  <2>2. s \in ServerRoom
        BY DEF WithJoined
  <2>3. ServerBecomes(r, s) BY <2>1 DEF PeerLeaves, UserChanges
  <2> HIDE DEF s
  <2>4. server' \in [Rooms -> ServerRoom] /\ direct' \in [Rooms -> SUBSET Users]
        BY <2>2, <2>3, ServerChangeTyped
  <2> HIDE DEF ServerRoom
  <2> QED BY <2>1, <2>4 DEF PeerLeaves, UserChanges
<1>5. CASE \E r \in Rooms, u \in Users : Send(r, u)
      BY <1>5 DEF Send
<1>6. CASE SyncOk
  <2>1. \A r \in Rooms : Synced(r) \in ViewRoom BY DEF Synced
  <2>2. view' \in [Rooms -> ViewRoom] BY <1>6, <2>1 DEF SyncOk
  <2>3. direct' \in [Rooms -> SUBSET Users] BY <1>6 DEF SyncOk, DirectWith
  <2> HIDE DEF ServerRoom, ViewRoom
  <2>4. queue' \in [Rooms -> SUBSET Users] /\ inbox' \in SUBSET (Rooms \X Users)
        BY <1>6 DEF SyncOk
  <2> QED BY <1>6, <2>2, <2>3, <2>4 DEF SyncOk
<1>7. CASE HandlersDone
      BY <1>7 DEF HandlersDone
<1>8. CASE \E m \in inbox : HandleMessage(m)
      BY <1>8 DEF HandleMessage
<1>9. CASE \E r \in todo : \E s \in InviteSnapshots(server[r]) : CheckInvite(r, s)
      BY <1>9 DEF CheckInvite
<1>10. CASE Reject
  <2>1. room \in Rooms BY <1>10 DEF Reject
  <2> DEFINE s == LeftOnServer(server[room])
  <2>2. s \in ServerRoom
        BY <2>1 DEF LeftOnServer
  <2>3. ServerBecomes(room, s) BY <1>10 DEF Reject, LeaveRoom
  <2> HIDE DEF s
  <2>4. server' \in [Rooms -> ServerRoom] /\ direct' \in [Rooms -> SUBSET Users]
        BY <2>1, <2>2, <2>3, ServerChangeTyped
  <2>5. view' \in [Rooms -> ViewRoom] BY <1>10, <2>1 DEF Reject, LeaveRoom
  <2> HIDE DEF ServerRoom, ViewRoom
  <2> QED BY <1>10, <2>4, <2>5 DEF Reject, LeaveRoom, Continue
<1>11. CASE Join
  <2>1. room \in Rooms BY <1>11 DEF Join
  <2> DEFINE s == JoinedOnServer(server[room])
  <2>2. s \in ServerRoom
        BY <2>1 DEF JoinedOnServer
  <2>3. ServerBecomes(room, s) BY <1>11 DEF Join
  <2> HIDE DEF s
  <2>4. server' \in [Rooms -> ServerRoom] /\ direct' \in [Rooms -> SUBSET Users]
        BY <2>1, <2>2, <2>3, ServerChangeTyped
  <2>5. view' \in [Rooms -> ViewRoom] BY <1>11, <2>1 DEF Join, SeenJoined
  <2> HIDE DEF ServerRoom, ViewRoom
  <2> QED BY <1>11, <2>1, <2>4, <2>5 DEF Join
<1>12. CASE RequestEncryption
      BY <1>12 DEF RequestEncryption
<1>13. CASE CheckMembers
      BY <1>13, Zenon DEF CheckMembers, Continue
<1>14. CASE LeaveJoined
  <2>1. room \in Rooms BY <1>14 DEF LeaveJoined
  <2> DEFINE s == LeftOnServer(server[room])
  <2>2. s \in ServerRoom
        BY <2>1 DEF LeftOnServer
  <2>3. ServerBecomes(room, s) BY <1>14 DEF LeaveJoined, LeaveRoom
  <2> HIDE DEF s
  <2>4. server' \in [Rooms -> ServerRoom] /\ direct' \in [Rooms -> SUBSET Users]
        BY <2>1, <2>2, <2>3, ServerChangeTyped
  <2>5. view' \in [Rooms -> ViewRoom] BY <1>14, <2>1 DEF LeaveJoined, LeaveRoom
  <2> HIDE DEF ServerRoom, ViewRoom
  <2> QED BY <1>14, <2>4, <2>5 DEF LeaveJoined, LeaveRoom, Continue
<1>15. CASE RoomIsBroken
      BY <1>15, Zenon DEF RoomIsBroken, RoundFails, FlagAfterError
<1>16. CASE StoreLast
      BY <1>16 DEF StoreLast
<1>17. CASE StoreReady
      BY <1>17 DEF StoreReady
<1>18. CASE SyncErr
  <2>1. errors' \in Nat /\ sync_ready' = FALSE /\ pc' \in Points /\ room' = None /\ todo' = {}
        BY <1>18 DEF SyncErr, RoundFails, FlagAfterError, Error
  <2>2. UNCHANGED <<now, server, queue, direct, changes, view, inbox, unchecked, handled,
                    last_matrix_sync_ms, rounds, probe>>
        BY <1>18 DEF SyncErr
  <2> HIDE DEF ServerRoom, ViewRoom, ProbeState, Points
  <2> QED BY <2>1, <2>2, Zenon
<1>19. CASE InviteFails
  <2>1. server' \in [Rooms -> ServerRoom] /\ direct' \in [Rooms -> SUBSET Users]
        /\ unchecked' \subseteq Rooms
    <3>1. CASE UNCHANGED <<server, direct, unchecked>> BY <3>1
    <3>2. CASE ServerBecomes(room, JoinedOnServer(server[room])) /\ pc = "join"
               /\ unchecked' = unchecked \cup {room}
      <4>1. room \in Rooms BY <3>2
      <4>2. JoinedOnServer(server[room]) \in ServerRoom BY <4>1 DEF JoinedOnServer
      <4> QED BY <3>2, <4>1, <4>2, ServerChangeTyped
    <3>3. CASE ServerBecomes(room, LeftOnServer(server[room])) /\ pc \in {"reject", "leave"}
               /\ unchecked' = unchecked \ {room}
      <4>1. room \in Rooms BY <3>3
      <4>2. LeftOnServer(server[room]) \in ServerRoom BY <4>1 DEF LeftOnServer
      <4> QED BY <3>3, <4>1, <4>2, ServerChangeTyped
    <3> QED BY <1>19, <3>1, <3>2, <3>3 DEF InviteFails
  <2>2. errors' \in Nat /\ sync_ready' = FALSE /\ pc' \in Points /\ room' = None /\ todo' = {}
        BY <1>19 DEF InviteFails, RoundFails, FlagAfterError, Error
  <2>3. UNCHANGED <<now, queue, changes, view, inbox, handled, last_matrix_sync_ms, rounds, probe>>
        BY <1>19 DEF InviteFails
  <2> HIDE DEF ServerRoom, ViewRoom, ProbeState, Points
  <2> QED BY <2>1, <2>2, <2>3, Zenon
<1>20. CASE \E m \in inbox : SnapshotFails(m)
      BY <1>20 DEF SnapshotFails, Error
<1>21. CASE Crash
  <2>1. probe' \in [Probes -> ProbeState] BY <1>21 DEF Crash
  <2>2. errors' \in Nat /\ sync_ready' = FALSE /\ pc' \in Points /\ room' = None /\ todo' = {}
        /\ inbox' = {} /\ last_matrix_sync_ms' = 0
        BY <1>21 DEF Crash, Error
  <2>3. UNCHANGED <<now, server, queue, direct, changes, view, unchecked, handled, rounds>>
        BY <1>21 DEF Crash
  <2> HIDE DEF ServerRoom, ViewRoom, ProbeState, Points
  <2> QED BY <2>1, <2>2, <2>3, Zenon
<1>22. CASE \E q \in Probes : LoadReady(q)
      BY <1>22 DEF LoadReady, ProbeGoes
<1>23. CASE \E q \in Probes : LoadLast(q)
      BY <1>23 DEF LoadLast, ProbeGoes
<1>24. CASE \E q \in Probes : Answer(q)
      BY <1>24 DEF Answer, ProbeGoes, matrix_sync_is_fresh
<1>25. CASE UNCHANGED vars
      BY <1>25 DEF vars
<1> HIDE RoomsAssumption DEF TypeOK, ServerRoom, ViewRoom, ProbeState, Points, Everyone, RoomOf,
        Seen, Probe, NoRoom, Unknown, IdleProbe, serverVars, roundVars, flagVars, LoopOK, AtRoom
<1> QED BY <1>1, <1>2, <1>3, <1>4, <1>5, <1>6, <1>7, <1>8, <1>9, <1>10, <1>11, <1>12,
           <1>13, <1>14, <1>15, <1>16, <1>17, <1>18, <1>19, <1>20, <1>21, <1>22, <1>23,
           <1>24, <1>25 DEF Next, UserStep, SyncThread, Failure, ready

\* Whatever a change on the server makes of a room, direct remembers it.
LEMMA ServerChangeDirect ==
    ASSUME server \in [Rooms -> ServerRoom], direct \in [Rooms -> SUBSET Users],
           \A q \in Rooms : DirectWith(server[q]) \subseteq direct[q],
           NEW r \in Rooms, NEW s, ServerBecomes(r, s)
    PROVE  \A q \in Rooms : /\ direct[q] \subseteq direct'[q]
                            /\ DirectWith(server'[q]) \subseteq direct'[q]
<1>1. server' = [server EXCEPT ![r] = s] /\ direct' = [direct EXCEPT ![r] = @ \cup DirectWith(s)]
      BY DEF ServerBecomes
<1>2. ASSUME NEW q \in Rooms, q # r PROVE server'[q] = server[q] /\ direct'[q] = direct[q]
      BY <1>1, <1>2
<1>3. server'[r] = s /\ direct'[r] = direct[r] \cup DirectWith(s)
      BY <1>1
<1> QED BY <1>2, <1>3

\* Outside of "handle" the store owes nothing.
LEMMA NotHandling ==
    ASSUME \A q \in Rooms : /\ direct[q] \subseteq direct'[q]
                            /\ DirectWith(server'[q]) \subseteq direct'[q],
           OnlyDirectRoomsHandled, TypeOK, pc' # "handle", handled' = handled
    PROVE  ViewWasTrue'
<1>1. OnlyDirectRoomsHandled' BY DEF OnlyDirectRoomsHandled, TypeOK
<1> QED BY <1>1 DEF ViewWasTrue

\* The store is never ahead of the server, and handled messages came from direct rooms.
LEMMA NextView == ASSUME TypeOK, LoopOK, ViewWasTrue, [Next]_vars PROVE ViewWasTrue'
<1>1. /\ server \in [Rooms -> ServerRoom] /\ direct \in [Rooms -> SUBSET Users]
      /\ \A q \in Rooms : DirectWith(server[q]) \subseteq direct[q]
      /\ OnlyDirectRoomsHandled
      BY DEF TypeOK, ViewWasTrue
<1>2. ASSUME UNCHANGED <<server, direct, view, pc, handled>> PROVE ViewWasTrue'
      BY <1>2 DEF ViewWasTrue, OnlyDirectRoomsHandled
<1>3. ASSUME UNCHANGED <<server, direct, handled>>, pc' # "handle" PROVE ViewWasTrue'
      BY <1>1, <1>3, NotHandling
<1>4. ASSUME NEW r \in Rooms, NEW s, ServerBecomes(r, s), handled' = handled, pc' # "handle"
      PROVE  ViewWasTrue'
      BY <1>1, <1>4, ServerChangeDirect, NotHandling
<1>5. ASSUME NEW r \in Rooms, NEW s, UserChanges(r, s), server[r].encrypted => s.encrypted
      PROVE  ViewWasTrue'
  <2>1. ServerBecomes(r, s) /\ UNCHANGED <<view, pc, handled>>
        BY <1>5 DEF UserChanges, roundVars
  <2>2. \A q \in Rooms : /\ direct[q] \subseteq direct'[q]
                         /\ DirectWith(server'[q]) \subseteq direct'[q]
        BY <1>1, <2>1, ServerChangeDirect
  <2>3. \A q \in Rooms : server[q].encrypted => server'[q].encrypted
        BY <1>1, <1>5, <2>1 DEF ServerBecomes
  <2>4. OnlyDirectRoomsHandled'
        BY <1>1, <2>1, <2>2 DEF OnlyDirectRoomsHandled, TypeOK
  <2> QED BY <2>1, <2>2, <2>3, <2>4 DEF ViewWasTrue
<1>6. CASE \/ Tick \/ \E q \in Probes : ready(q)
           \/ \E r \in Rooms, u \in Users : Send(r, u)
           \/ \E m \in inbox : SnapshotFails(m)
           \/ UNCHANGED vars
      BY <1>2, <1>6, Zenon DEF Tick, ready, LoadReady, LoadLast, Answer, ProbeGoes, Send,
                               SnapshotFails, vars, serverVars, roundVars
<1>7. CASE \/ HandlersDone \/ RequestEncryption \/ RoomIsBroken \/ StoreLast \/ StoreReady
           \/ SyncErr \/ Crash
      BY <1>3, <1>7 DEF HandlersDone, RequestEncryption, RoomIsBroken, RoundFails, StoreLast,
                        StoreReady, SyncErr, Crash, serverVars
<1>8. CASE \E m \in inbox : HandleMessage(m)
  <2>1. PICK r \in Rooms, u \in Users : HandleMessage(<<r, u>>)
        BY <1>8 DEF TypeOK
  <2> DEFINE members == IF view[r].fetched THEN view[r].members ELSE server[r].joined
             s == [encrypted |-> view[r].encrypted, members |-> members, sender |-> u]
  <2>2. /\ pc = "handle" /\ UNCHANGED <<server, direct, pc>>
        /\ view' = [view EXCEPT ![r] = Seen(view[r].state, view[r].encrypted, members, TRUE)]
        /\ handled' = IF check_room(s) THEN <<r, u>> ELSE handled
        BY <2>1 DEF HandleMessage, serverVars
  <2>3. members \subseteq Everyone
        BY DEF TypeOK, ViewRoom, ServerRoom
  <2>4. \A q \in Rooms :
          /\ view[q].encrypted => server[q].encrypted
          /\ view[q].fetched /\ view[q].encrypted =>
                \A w \in Users : view[q].members = {RelayUser, w} => w \in direct[q]
        BY <2>2, Zenon DEF ViewWasTrue
  <2>5. ASSUME NEW w \in Users, view[r].encrypted, members = {RelayUser, w}
        PROVE  w \in direct[r]
    <3>1. CASE view[r].fetched
          BY <2>4, <2>5, <3>1
    <3>2. CASE ~view[r].fetched
      <4>1. server[r].encrypted /\ server[r].joined = {RelayUser, w}
            BY <2>4, <2>5, <3>2
      <4>2. w \in DirectWith(server[r]) BY <4>1 DEF DirectWith
      <4> QED BY <1>1, <4>2
    <3> QED BY <3>1, <3>2
  <2>6. view' \in [Rooms -> ViewRoom] /\ view'[r].members = members
        /\ \A q \in Rooms : view'[q].encrypted = view[q].encrypted /\ (q # r => view'[q] = view[q])
    <3>1. Seen(view[r].state, view[r].encrypted, members, TRUE) \in ViewRoom
          BY <2>3 DEF Seen, ViewRoom, TypeOK
    <3>2. view \in [Rooms -> ViewRoom] BY DEF TypeOK
    <3> HIDE DEF members
    <3> QED BY <2>2, <3>1, <3>2 DEF Seen
  <2>7. s.encrypted = view[r].encrypted /\ s.members = members /\ s.sender = u
        OBVIOUS
  <2> HIDE DEF members, s
  <2>8. ASSUME check_room(s) PROVE u \in direct[r] \ Guests
    <3>1. view[r].encrypted /\ members = {RelayUser, u} /\ u \notin Guests
          BY <2>3, <2>7, <2>8, CheckRoomMeansDirect
    <3> QED BY <2>5, <3>1
  <2>9. OnlyDirectRoomsHandled'
    <3>1. CASE check_room(s)
      <4>1. handled'[1] = r /\ handled'[2] = u BY <2>2, <3>1
      <4> QED BY <2>2, <2>8, <3>1, <4>1 DEF OnlyDirectRoomsHandled
    <3>2. CASE ~check_room(s)
          BY <1>1, <2>2, <3>2 DEF OnlyDirectRoomsHandled
    <3> QED BY <3>1, <3>2
  <2>10. \A q \in Rooms : view'[q].fetched /\ view'[q].encrypted =>
                \A w \in Users : view'[q].members = {RelayUser, w} => w \in direct'[q]
         BY <2>2, <2>4, <2>5, <2>6, Zenon
  <2> QED BY <1>1, <2>2, <2>4, <2>6, <2>9, <2>10, Zenon DEF ViewWasTrue
<1>9. CASE \E r \in todo : \E s \in InviteSnapshots(server[r]) : CheckInvite(r, s)
  <2>1. UNCHANGED <<server, direct, handled>> /\ pc' \in {"join", "reject"}
        BY <1>9 DEF CheckInvite, serverVars
  <2> QED BY <1>3, <2>1
<1>10. CASE CheckMembers
  <2>1. UNCHANGED <<server, direct, handled>> /\ pc' \in {"next", "leave"}
        BY <1>10 DEF CheckMembers, Continue
  <2> QED BY <1>3, <2>1
<1>11. CASE Reject \/ LeaveJoined \/ Join
  <2>1. room \in Rooms BY <1>11 DEF Reject, LeaveJoined, Join, LoopOK, AtRoom, TypeOK
  <2>2. \E s : ServerBecomes(room, s)
        BY <1>11 DEF Reject, LeaveJoined, Join, LeaveRoom
  <2>3. handled' = handled /\ pc' # "handle"
        BY <1>11 DEF Reject, LeaveJoined, Join, Continue
  <2> QED BY <1>4, <2>1, <2>2, <2>3
<1>12. CASE InviteFails
  <2>1. handled' = handled /\ pc' # "handle"
        BY <1>12 DEF InviteFails, RoundFails
  <2>2. \/ UNCHANGED <<server, direct>>
        \/ pc \in {"join", "reject", "leave"} /\ \E s : ServerBecomes(room, s)
        BY <1>12 DEF InviteFails
  <2>3. pc \in {"join", "reject", "leave"} => room \in Rooms BY DEF LoopOK, AtRoom, TypeOK
  <2> QED BY <1>3, <1>4, <2>1, <2>2, <2>3
<1>13. CASE UserStep
  <2>1. PICK r \in Rooms, u \in Users :
           \/ \E encrypted \in BOOLEAN : Create(r, u, encrypted)
           \/ PeerJoins(r, u) \/ PeerLeaves(r, u) \/ Send(r, u)
        BY <1>13 DEF UserStep
  <2>2. CASE \E encrypted \in BOOLEAN : Create(r, u, encrypted)
        BY <1>5, <2>2 DEF Create, NoRoom, RoomOf
  <2>3. CASE PeerJoins(r, u) \/ PeerLeaves(r, u)
        BY <1>5, <2>3 DEF PeerJoins, PeerLeaves, WithJoined, RoomOf
  <2> QED BY <1>6, <2>1, <2>2, <2>3
<1>14. CASE SyncOk
  <2>1. /\ \A r \in Rooms : view'[r] = Synced(r) /\ direct'[r] = DirectWith(server'[r])
        /\ server' = server /\ handled' = None
        BY <1>14 DEF SyncOk
  <2>2. ASSUME NEW r \in Rooms
        PROVE  /\ Synced(r).encrypted = server[r].encrypted
               /\ Synced(r).fetched => Synced(r).members = server[r].joined
        BY Zenon DEF Synced, Seen
  <2>3. ASSUME NEW r \in Rooms, view'[r].fetched, view'[r].encrypted, NEW u \in Users,
               view'[r].members = {RelayUser, u}
        PROVE  u \in direct'[r]
        BY <2>1, <2>2, <2>3 DEF DirectWith
  <2>4. \A r \in Rooms : view'[r].encrypted => server'[r].encrypted
        BY <2>1, <2>2
  <2> QED BY <2>1, <2>3, <2>4 DEF ViewWasTrue, OnlyDirectRoomsHandled
<1> QED BY <1>6, <1>7, <1>8, <1>9, <1>10, <1>11, <1>12, <1>13, <1>14
        DEF Next, SyncThread, Failure

\* The loop answers every invitation it found, or the flag is cleared.
LEMMA NextLoop == ASSUME TypeOK, LoopOK, [Next]_vars PROVE LoopOK'
<1>1. pc \in AtRoom => room \in todo /\ room \in Rooms
      BY DEF TypeOK, LoopOK
<1>2. ASSUME UNCHANGED <<view, pc, room, inbox, todo, unchecked, sync_ready, errors>>
      PROVE  LoopOK'
      BY <1>2 DEF LoopOK, ReadyMeansAnswered
<1>3. CASE Tick \/ UserStep \/ (\E q \in Probes : ready(q)) \/ UNCHANGED vars
  <2>1. CASE Tick \/ UNCHANGED vars
        BY <1>2, <2>1 DEF Tick, vars, roundVars, flagVars
  <2>2. CASE UserStep
        BY <1>2, <2>2 DEF UserStep, Create, PeerJoins, PeerLeaves, Send, UserChanges, roundVars,
                          flagVars
  <2>3. CASE \E q \in Probes : ready(q)
        BY <1>2, <2>3, Zenon DEF ready, LoadReady, LoadLast, Answer, ProbeGoes, roundVars, flagVars
  <2> QED BY <1>3, <2>1, <2>2, <2>3
<1>4. CASE SyncErr \/ InviteFails \/ Crash
  <2>1. /\ pc' = "sync" /\ sync_ready' = FALSE /\ todo' = {} /\ room' = None
        /\ errors' = errors + 1
        BY <1>4 DEF SyncErr, InviteFails, Crash, RoundFails, FlagAfterError, Error
  <2>2. inbox' = {}
        BY <1>4, Zenon DEF SyncErr, InviteFails, Crash, LoopOK
  <2>3. errors' # 0
        BY <2>1 DEF TypeOK
  <2> QED BY <2>1, <2>2, <2>3 DEF LoopOK, ReadyMeansAnswered, AtRoom
<1>5. CASE RoomIsBroken
  <2>1. /\ pc \in {"reject", "join"} /\ pc' = "sync" /\ sync_ready' = FALSE
        /\ todo' = {} /\ room' = None /\ UNCHANGED <<inbox, unchecked, errors>>
        BY <1>5 DEF RoomIsBroken, RoundFails, FlagAfterError
  <2>2. inbox = {} /\ (errors = 0 => unchecked = {})
        BY <2>1 DEF LoopOK
  <2> QED BY <2>1, <2>2 DEF LoopOK, ReadyMeansAnswered, AtRoom
<1>6. CASE SyncOk
      BY <1>6 DEF SyncOk, flagVars, LoopOK, ReadyMeansAnswered, AtRoom
<1>7. CASE HandlersDone
      BY <1>7 DEF HandlersDone, flagVars, LoopOK, ReadyMeansAnswered, AtRoom
<1>8. CASE \E m \in inbox : HandleMessage(m) \/ SnapshotFails(m)
  <2>1. /\ pc = "handle" /\ UNCHANGED <<pc, room, todo, unchecked, sync_ready>>
        /\ errors' = errors \/ errors' = errors + 1
        BY <1>8, Zenon DEF HandleMessage, SnapshotFails, Error, flagVars
  <2>2. errors' = errors \/ errors' # 0
        BY <2>1 DEF TypeOK
  <2> QED BY <2>1, <2>2 DEF LoopOK, ReadyMeansAnswered, AtRoom
<1>9. CASE \E r \in todo : \E s \in InviteSnapshots(server[r]) : CheckInvite(r, s)
  <2>1. /\ pc = "next" /\ room' \in todo /\ pc' \in {"join", "reject"}
        /\ UNCHANGED <<view, inbox, todo, unchecked, sync_ready, errors>>
        BY <1>9 DEF CheckInvite, flagVars
  <2>2. errors = 0 => unchecked = {}
    <3>1. pc \notin AtRoom => room = None BY DEF LoopOK
    <3>2. errors = 0 => unchecked \subseteq {None} BY <2>1, <3>1 DEF LoopOK, AtRoom
    <3> QED BY <3>2, RoomsAssumption DEF TypeOK
  <2> QED BY <2>1, <2>2 DEF LoopOK, ReadyMeansAnswered, AtRoom
<1>10. CASE Reject \/ LeaveJoined
  <2>1. /\ pc \in AtRoom /\ pc' = "next" /\ room' = None /\ todo' = todo \ {room}
        /\ unchecked' = unchecked \ {room} /\ UNCHANGED <<inbox, sync_ready, errors>>
        /\ view' = [view EXCEPT ![room] = Unknown]
        BY <1>10 DEF Reject, LeaveJoined, LeaveRoom, Continue, flagVars, AtRoom
  <2>2. {r \in Rooms : view'[r].state = "invited"} \subseteq todo'
        BY <1>1, <2>1 DEF LoopOK, Unknown, Seen, TypeOK
  <2> QED BY <2>1, <2>2 DEF LoopOK, ReadyMeansAnswered, AtRoom
<1>11. CASE Join
  <2>1. /\ pc = "join" /\ pc' = "encryption" /\ unchecked' = unchecked \cup {room}
        /\ UNCHANGED <<room, inbox, todo, sync_ready, errors>>
        /\ view' = [view EXCEPT ![room] = SeenJoined(view[room])]
        BY <1>11 DEF Join, flagVars
  <2>2. view'[room].state = "joined" /\ \A r \in Rooms : r # room => view'[r] = view[r]
        BY <1>1, <2>1 DEF SeenJoined, Seen, TypeOK, AtRoom
  <2> QED BY <1>1, <2>1, <2>2 DEF LoopOK, ReadyMeansAnswered, AtRoom
<1>12. CASE RequestEncryption
  <2>1. /\ pc = "encryption" /\ pc' = "members"
        /\ UNCHANGED <<room, inbox, todo, unchecked, sync_ready, errors>>
        /\ view' = [view EXCEPT ![room] =
                       Seen(@.state, server[room].encrypted, @.members, @.fetched)]
        BY <1>12 DEF RequestEncryption, flagVars
  <2>2. \A r \in Rooms : view'[r].state = view[r].state
        BY <1>1, <2>1 DEF Seen, TypeOK, AtRoom
  <2> QED BY <1>1, <2>1, <2>2 DEF LoopOK, ReadyMeansAnswered, AtRoom
<1>13. CASE CheckMembers
  <2>1. /\ pc = "members" /\ UNCHANGED <<inbox, sync_ready, errors>>
        /\ view' = [view EXCEPT ![room] = Seen(@.state, @.encrypted, server[room].joined, TRUE)]
        BY <1>13 DEF CheckMembers, Continue, flagVars
  <2>2. \A r \in Rooms : view'[r].state = view[r].state
        BY <1>1, <2>1 DEF Seen, TypeOK, AtRoom
  <2>3. \/ /\ pc' = "next" /\ room' = None /\ todo' = todo \ {room}
           /\ unchecked' = unchecked \ {room}
        \/ pc' = "leave" /\ UNCHANGED <<room, todo, unchecked>>
        BY <1>13 DEF CheckMembers, Continue
  <2>4. view[room].state = "joined" /\ errors = 0 => unchecked \subseteq {room}
        BY <2>1 DEF LoopOK
  <2> QED BY <1>1, <2>1, <2>2, <2>3, <2>4, Zenon DEF LoopOK, ReadyMeansAnswered, AtRoom
<1>14. CASE StoreLast \/ StoreReady
      BY <1>14 DEF StoreLast, StoreReady, LoopOK, ReadyMeansAnswered, AtRoom
<1> QED BY <1>3, <1>4, <1>5, <1>6, <1>7, <1>8, <1>9, <1>10, <1>11, <1>12, <1>13, <1>14
        DEF Next, SyncThread, Failure

\* What a probe reads as the last sync is the end of a round.
LEMMA NextTimes == ASSUME TypeOK, TimesOK, [Next]_vars PROVE TimesOK'
<1>1. ASSUME UNCHANGED <<now, rounds, last_matrix_sync_ms, probe>> PROVE TimesOK'
      BY <1>1, Zenon DEF TimesOK, ReadyIsRecent
<1>2. CASE UserStep \/ UNCHANGED vars
      BY <1>1, <1>2, Zenon DEF UserStep, Create, PeerJoins, PeerLeaves, Send, UserChanges,
                               flagVars, vars
<1>3. CASE \/ SyncOk \/ HandlersDone \/ RequestEncryption \/ StoreReady
           \/ \E m \in inbox : HandleMessage(m)
           \/ \E r \in todo : \E s \in InviteSnapshots(server[r]) : CheckInvite(r, s)
      BY <1>1, <1>3, Zenon DEF SyncOk, HandlersDone, RequestEncryption, StoreReady, HandleMessage,
                        CheckInvite, flagVars
<1>4. CASE Reject \/ Join \/ CheckMembers \/ LeaveJoined
      BY <1>1, <1>4, Zenon DEF Reject, Join, CheckMembers, LeaveJoined, Continue, flagVars
<1>5. CASE RoomIsBroken \/ Failure
      BY <1>1, <1>5, Zenon DEF RoomIsBroken, Failure, SyncErr, InviteFails, SnapshotFails, flagVars
<1>6. CASE Tick
  <2>1. now' = now + 1 /\ UNCHANGED <<rounds, last_matrix_sync_ms, probe>>
        BY <1>6 DEF Tick, flagVars
  <2>2. rounds' \subseteq 1 .. now'
        BY <2>1 DEF TimesOK, TypeOK
  <2> QED BY <2>1, <2>2 DEF TimesOK, ReadyIsRecent
<1>7. CASE StoreLast
  <2>1. /\ last_matrix_sync_ms' = now /\ rounds' = rounds \cup {now}
        /\ UNCHANGED <<now, probe>>
        BY <1>7 DEF StoreLast
  <2>2. rounds' \subseteq 1 .. now'
    <3>1. now \in 1 .. now BY DEF TypeOK
    <3> QED BY <2>1, <3>1, Zenon DEF TimesOK
  <2>3. ReadyIsRecent' BY <2>1 DEF TimesOK, ReadyIsRecent
  <2> QED BY <2>1, <2>2, <2>3 DEF TimesOK
<1>8. CASE Crash
  <2>1. /\ last_matrix_sync_ms' = 0 /\ UNCHANGED <<now, rounds>>
        /\ \A q \in Probes : probe'[q].pc = "idle" /\ ~probe'[q].ok
        BY <1>8 DEF Crash, IdleProbe, Probe
  <2> QED BY <2>1 DEF TimesOK, ReadyIsRecent
<1>9. CASE \E q \in Probes : ready(q)
  <2>1. PICK q \in Probes : ready(q) BY <1>9
  <2>2. UNCHANGED <<now, rounds, last_matrix_sync_ms>>
        BY <2>1, Zenon DEF ready, LoadReady, LoadLast, Answer, ProbeGoes, flagVars
  <2>3. \A p \in Probes : p # q => probe'[p] = probe[p]
        BY <2>1, Zenon DEF ready, LoadReady, LoadLast, Answer, ProbeGoes, TypeOK
  <2>4. CASE LoadReady(q)
    <3>1. probe'[q].pc = "flag" /\ ~probe'[q].ok
          BY <2>4 DEF LoadReady, ProbeGoes, Probe, TypeOK
    <3> QED BY <2>2, <2>3, <3>1 DEF TimesOK, ReadyIsRecent
  <2>5. CASE LoadLast(q)
    <3>1. probe'[q].pc = "last" /\ ~probe'[q].ok /\ probe'[q].last = last_matrix_sync_ms
          BY <2>5 DEF LoadLast, ProbeGoes, Probe, TypeOK
    <3> QED BY <2>2, <2>3, <3>1 DEF TimesOK, ReadyIsRecent
  <2>6. CASE Answer(q)
    <3>1. /\ probe[q].pc = "last" /\ probe'[q].pc = "idle" /\ probe'[q].last = now
          /\ probe'[q].ok = matrix_sync_is_fresh(now, probe[q].last, probe[q].running)
          BY <2>6 DEF Answer, ProbeGoes, Probe, TypeOK
    <3>2. probe'[q].ok => \E t \in rounds : t <= now /\ now - t <= MATRIX_SYNC_STALE_MS
      <4>1. SUFFICES ASSUME probe'[q].ok
                     PROVE  \E t \in rounds : t <= now /\ now - t <= MATRIX_SYNC_STALE_MS
            OBVIOUS
      <4>2. probe[q].last > 0 /\ now - probe[q].last <= MATRIX_SYNC_STALE_MS
            BY <3>1, <4>1, Zenon DEF matrix_sync_is_fresh
      <4>3. probe[q].last \in rounds BY <3>1, <4>2 DEF TimesOK
      <4>4. probe[q].last \in 1 .. now BY <4>3, Zenon DEF TimesOK
      <4>5. probe[q].last <= now BY <4>4 DEF TypeOK
      <4> QED BY <4>2, <4>3, <4>5
    <3> QED BY <2>2, <2>3, <3>1, <3>2, Zenon DEF TimesOK, ReadyIsRecent
  <2> QED BY <2>1, <2>4, <2>5, <2>6 DEF ready
<1> QED BY <1>2, <1>3, <1>4, <1>5, <1>6, <1>7, <1>8, <1>9 DEF Next, SyncThread

\* IInv is an invariant of the sync thread.
THEOREM SyncInvariant == Spec => []IInv
<1>1. ASSUME IInv, [Next]_vars PROVE IInv'
      BY <1>1, NextTypeOK, NextView, NextLoop, NextTimes DEF IInv
<1> QED BY <1>1, InitIInv, PTL DEF Spec

\* snapshot and check_room: whatever rooms were joined unchecked, and whoever
\* comes and goes, messages are handled from direct encrypted rooms only.
THEOREM DirectRooms == Spec => []OnlyDirectRoomsHandled
<1>1. IInv => OnlyDirectRoomsHandled BY DEF IInv, ViewWasTrue
<1> QED BY <1>1, SyncInvariant, PTL

\* sync_forever: the flag between rounds means all invitations are answered.
THEOREM FlagMeansAnswered == Spec => []ReadyMeansAnswered
<1>1. IInv => ReadyMeansAnswered BY DEF IInv, LoopOK
<1> QED BY <1>1, SyncInvariant, PTL

\* auto_join_invites: without a failed request no room stays unchecked.
THEOREM CheckedUnlessFailed == Spec => []UncheckedOnlyByFailure
<1>1. IInv => UncheckedOnlyByFailure BY DEF IInv, LoopOK, UncheckedOnlyByFailure
<1> QED BY <1>1, SyncInvariant, PTL

\* ready: an answer of 200 is never older than MATRIX_SYNC_STALE_MS.
THEOREM ProbeIsRecent == Spec => []ReadyIsRecent
<1>1. IInv => ReadyIsRecent BY DEF IInv, TimesOK
<1> QED BY <1>1, SyncInvariant, PTL
=============================================================================
