-------------------------- MODULE GameServerPlaces --------------------------
(***************************************************************************)
(* Proofs about where users are: who leaves a seat and why, what a resumed *)
(* session takes over, and that the server implements SeatBook.  All of    *)
(* them follow from the few ways in which a step moves anybody (Movement). *)
(* That one room's step leaves the other rooms alone is proved beside it,  *)
(* for every behaviour of the clients.                                     *)
(***************************************************************************)
EXTENDS GameServerSessions, Refinement

\* What SeatBook sees of a slot stays as it is in all slots but those of S.
OnlyAt(S) ==
    \A k \in Clients \ S :
        /\ active'[k] = active[k] /\ connected'[k] = connected[k]
        /\ username'[k] = username[k]
        /\ room_id'[k] = room_id[k] /\ player_index'[k] = player_index[k]

\* One seat changes hands: from now on client d has it, or nobody.
SeatGoesTo(r, s, d) ==
    /\ r \in Rooms /\ s \in Slots
    /\ player_ids'[r][s] = d
    /\ \A q \in Rooms, k \in Slots :
         q # r \/ k # s => player_ids'[q][k] = player_ids[q][k]

\* Slot c keeps its connection and its user.
Stays(c) ==
    active'[c] = active[c] /\ connected'[c] = connected[c] /\ username'[c] = username[c]

-----------------------------------------------------------------------------
\* The ways in which a step moves somebody.
Still == OnlyAt({}) /\ UNCHANGED player_ids

Opened(c) ==
    /\ OnlyAt({c}) /\ UNCHANGED player_ids
    /\ ~active[c] /\ username'[c] = NoUser

Lost(c) ==
    /\ OnlyAt({c}) /\ UNCHANGED player_ids
    /\ active[c] /\ connected[c]
    /\ active'[c] /\ ~connected'[c] /\ state'[c] = "DISCONNECTED"
    /\ UNCHANGED <<username, room_id, player_index>>

Entered(c, u) ==
    /\ OnlyAt({c}) /\ UNCHANGED player_ids
    /\ Serving(c) /\ room_id[c] = None /\ ScanStops(c, u) = {}
    /\ active'[c] /\ connected'[c] /\ username'[c] = u /\ room_id'[c] = None

Resumed(c, old, u) ==
    /\ OnlyAt({c, old}) /\ c # old
    /\ Serving(c) /\ room_id[c] = None
    /\ active[old] /\ ~connected[old] /\ username[old] = u /\ Resumable(old)
    /\ active'[c] /\ connected'[c] /\ username'[c] = u
    /\ room_id'[c] = room_id[old] /\ player_index'[c] = player_index[old]
    /\ state'[c] = saved_state[old]
    /\ ~active'[old]
    /\ IF room_id[old] = None THEN UNCHANGED player_ids
       ELSE SeatGoesTo(room_id[old], player_index[old], c)
    /\ UNCHANGED <<gameVars, player_ready, player_count, host_index>>

TookSeat(c, r, s) ==
    /\ OnlyAt({c}) /\ Stays(c)
    /\ Serving(c) /\ room_id[c] = None
    /\ player_ids[r][s] = None /\ ~game_started'[r]
    /\ room_id'[c] = r /\ player_index'[c] = s
    /\ SeatGoesTo(r, s, c)

LeftSeat(c) ==
    /\ OnlyAt({c}) /\ Stays(c)
    /\ Serving(c) /\ room_id[c] # None
    /\ room_id'[c] = None /\ state'[c] = "IN_LOBBY"
    /\ SeatGoesTo(room_id[c], player_index[c], None)

Removed(c) ==
    /\ OnlyAt({c})
    /\ phase = "sweep" /\ c \in Silent \cup Expired
    /\ active[c] /\ ~active'[c] /\ room_id'[c] = None
    /\ IF room_id[c] = None THEN UNCHANGED player_ids
       ELSE SeatGoesTo(room_id[c], player_index[c], None)

Moves(c) ==
    \/ Opened(c) \/ Lost(c) \/ LeftSeat(c) \/ Removed(c)
    \/ \E u \in Users : Entered(c, u) \/ \E old \in Clients : Resumed(c, old, u)
    \/ \E r \in Rooms, s \in Slots : TookSeat(c, r, s)

-----------------------------------------------------------------------------
(***************************************************************************)
(* Movement.                                                               *)
(***************************************************************************)

\* Taking a client out of its room: its own seat falls free, nobody else moves.
LEMMA RemovedAlone ==
    ASSUME SeatInv, NEW c \in Clients, active[c], room_id[c] # None,
           NEW st, NEW host, RemovePlayer(room_id[c], c, st, host)
    PROVE  /\ SeatGoesTo(room_id[c], player_index[c], None)
           /\ room_id' = [room_id EXCEPT ![c] = None]
           /\ player_index' = [player_index EXCEPT ![c] = None]
           /\ state'[c] = st
<1> DEFINE r == room_id[c]
           s == player_index[c]
<1>1. r \in Rooms /\ s \in Slots
  BY OwnSeat DEF SeatInv, TypeOK, ClientsOK, SeatsRight, WholeSeat
<1>2. /\ Vacated(r, c) = [player_ids[r] EXCEPT ![s] = None]
      /\ Evicted(r, c) = {}
  BY Departure DEF SeatInv
<1>3. player_ids' = [player_ids EXCEPT ![r] = [player_ids[r] EXCEPT ![s] = None]]
  BY <1>2 DEF RemovePlayer
<1>4. SeatGoesTo(r, s, None)
  BY <1>1, <1>3 DEF SeatGoesTo, SeatInv, TypeOK, RoomsOK
<1>5. /\ room_id' = [room_id EXCEPT ![c] = None]
      /\ player_index' = [player_index EXCEPT ![c] = None]
      /\ state'[c] = st
  BY <1>2 DEF RemovePlayer, SeatInv, TypeOK, ClientsOK
<1> QED BY <1>4, <1>5

\* Removing a session.
LEMMA DisconnectMoves ==
    ASSUME SeatInv, NEW c \in Clients, active[c], phase = "sweep",
           c \in Silent \cup Expired, client_disconnect(c)
    PROVE  Removed(c)
<1>1. /\ active' = [active EXCEPT ![c] = FALSE]
      /\ connected' = [connected EXCEPT ![c] = FALSE]
      /\ username' = [username EXCEPT ![c] = NoUser]
  BY DEF client_disconnect, BlankSlot
<1>2. CASE room_id[c] # None
  <2>1. RemovePlayer(room_id[c], c, "CONNECTED", host_index[room_id[c]])
    BY <1>2 DEF client_disconnect
  <2>2. /\ SeatGoesTo(room_id[c], player_index[c], None)
        /\ room_id' = [room_id EXCEPT ![c] = None]
        /\ player_index' = [player_index EXCEPT ![c] = None]
    BY <1>2, <2>1, RemovedAlone
  <2> QED BY <1>1, <1>2, <2>2 DEF Removed, OnlyAt, SeatInv, TypeOK, ClientsOK
<1>3. CASE room_id[c] = None
  <2>1. /\ player_index' = [player_index EXCEPT ![c] = None]
        /\ UNCHANGED <<room_id, player_ids>>
    BY <1>3 DEF client_disconnect, roomVars
  <2> QED BY <1>1, <1>3, <2>1 DEF Removed, OnlyAt, SeatInv, TypeOK, ClientsOK
<1> QED BY <1>2, <1>3

\* LOGIN.
LEMMA LoginMoves ==
    ASSUME AtTheDoor, SeatInv, NEW c \in Clients, SendsLogin(c), NEW u \in Users,
           handle_login(c, u)
    PROVE  Moves(c)
<1>1. /\ Serving(c) /\ room_id[c] = None
      /\ active[c] /\ connected[c]
  BY DEF handle_login, login_fresh, login_resume, SendsLogin, Serving, AtTheDoor, SeatInv,
         Roomless, RoomlessAt
<1>2. CASE login_fresh(c, u)
  <2>1. /\ username' = [username EXCEPT ![c] = u]
        /\ ScanStops(c, u) = {}
        /\ UNCHANGED <<active, connected, room_id, player_index, player_ids>>
    BY <1>2 DEF login_fresh, roomVars
  <2>2. Entered(c, u)
    BY <1>1, <2>1 DEF Entered, OnlyAt, SeatInv, TypeOK, ClientsOK
  <2> QED BY <2>2 DEF Moves
<1>3. CASE login_resume(c, u)
  <2> DEFINE old == Least(ScanStops(c, u))
  <2>1. /\ old \in Clients /\ old # c /\ active[old] /\ username[old] = u
    <3>1. old \in ScanStops(c, u)
      BY <1>3, LeastClient DEF login_resume, ScanStops
    <3> QED BY <3>1 DEF ScanStops
  <2>2. /\ Resumable(old)
        /\ username' = [username EXCEPT ![c] = u, ![old] = NoUser]
        /\ state' = [state EXCEPT ![c] = saved_state[old], ![old] = "CONNECTED"]
        /\ room_id' = [room_id EXCEPT ![c] = room_id[old], ![old] = None]
        /\ player_index' = [player_index EXCEPT ![c] = player_index[old], ![old] = None]
        /\ player_ids' = SeatTakenOver(c, old)
        /\ active' = [active EXCEPT ![old] = FALSE]
        /\ connected' = [connected EXCEPT ![old] = FALSE]
        /\ UNCHANGED <<gameVars, player_ready, player_count, host_index>>
    BY <1>3 DEF login_resume
  <2> HIDE DEF old
  <2>3. ~connected[old]
    BY <2>1, <2>2, TimesAssumption DEF Resumable, SeatInv, Roomless, RoomlessAt
  <2>4. room_id[old] # None => SeatGoesTo(room_id[old], player_index[old], c)
    <3> SUFFICES ASSUME room_id[old] # None
                 PROVE  SeatGoesTo(room_id[old], player_index[old], c)
      OBVIOUS
    <3>1. room_id[old] \in Rooms /\ player_index[old] \in Slots
      BY <2>1 DEF SeatInv, TypeOK, ClientsOK, SeatsRight, WholeSeat
    <3>2. player_ids' = [player_ids EXCEPT ![room_id[old]][player_index[old]] = c]
      BY <2>2 DEF SeatTakenOver
    <3> QED BY <3>1, <3>2 DEF SeatGoesTo, SeatInv, TypeOK, RoomsOK
  <2>5. room_id[old] = None => UNCHANGED player_ids
    BY <2>2 DEF SeatTakenOver
  <2>6. OnlyAt({c, old})
    BY <2>1, <2>2 DEF OnlyAt, SeatInv, TypeOK, ClientsOK
  <2>7. /\ active'[c] /\ connected'[c] /\ username'[c] = u
        /\ room_id'[c] = room_id[old] /\ player_index'[c] = player_index[old]
        /\ state'[c] = saved_state[old] /\ ~active'[old]
    BY <1>1, <2>1, <2>2 DEF SeatInv, TypeOK, ClientsOK
  <2>8. Resumed(c, old, u)
    BY <1>1, <2>1, <2>2, <2>3, <2>4, <2>5, <2>6, <2>7 DEF Resumed
  <2> QED BY <2>1, <2>8 DEF Moves
<1> QED BY <1>2, <1>3 DEF handle_login

\* CREATE_ROOM and JOIN_ROOM.
LEMMA SitMoves ==
    ASSUME SeatInv, NEW c \in Clients,
           handle_create_room(c) \/ \E r \in Rooms : handle_join_room(c, r)
    PROVE  Moves(c)
<1>1. /\ Serving(c) /\ room_id[c] = None
      /\ UNCHANGED <<active, connected, username>>
  BY DEF handle_create_room, handle_join_room, Serving, unchangedByRooms, SeatInv,
         Roomless, RoomlessAt, Outside
<1>2. CASE handle_create_room(c)
  <2> DEFINE r == Least({q \in Rooms : ~room_active[q]})
  <2>1. r \in Rooms /\ ~room_active[r]
    <3>1. r \in {q \in Rooms : ~room_active[q]}
      BY <1>2, LeastRoom DEF handle_create_room
    <3> QED BY <3>1
  <2>2. /\ player_ids' = [player_ids EXCEPT ![r] =
                            [s \in Slots |-> IF s = 0 THEN c ELSE None]]
        /\ room_id' = [room_id EXCEPT ![c] = r]
        /\ player_index' = [player_index EXCEPT ![c] = 0]
    BY <1>2 DEF handle_create_room
  <2> HIDE DEF r
  <2>3. ~game_started'[r]
    BY <1>2, <2>1 DEF handle_create_room, ZeroGame, r, SeatInv, TypeOK, GamesOK
  <2>4. 0 \in Slots /\ \A s \in Slots : player_ids[r][s] = None
    BY <2>1, UnusedIsEmpty, SizesAssumption DEF SeatInv, SeatsRight, TakenSeats, Slots
  <2>5. SeatGoesTo(r, 0, c)
    BY <2>1, <2>2, <2>4 DEF SeatGoesTo, SeatInv, TypeOK, RoomsOK
  <2>6. TookSeat(c, r, 0)
    BY <1>1, <2>2, <2>3, <2>4, <2>5
       DEF TookSeat, Stays, OnlyAt, SeatInv, TypeOK, ClientsOK
  <2> QED BY <2>1, <2>4, <2>6 DEF Moves
<1>3. ASSUME NEW r \in Rooms, handle_join_room(c, r) PROVE Moves(c)
  <2> DEFINE s == Least(FreeSeats(r))
  <2>1. s \in FreeSeats(r)
    BY <1>3, LeastSlot DEF handle_join_room, room_join, CanJoin, FreeSeats
  <2>2. s \in Slots /\ player_ids[r][s] = None
    BY <2>1 DEF FreeSeats
  <2>3. /\ player_ids' = [player_ids EXCEPT ![r][s] = c]
        /\ room_id' = [room_id EXCEPT ![c] = r]
        /\ player_index' = [player_index EXCEPT ![c] = s]
        /\ ~game_started'[r]
    BY <1>3 DEF handle_join_room, room_join, CanJoin, gameVars
  <2> HIDE DEF s
  <2>4. SeatGoesTo(r, s, c)
    BY <2>2, <2>3 DEF SeatGoesTo, SeatInv, TypeOK, RoomsOK
  <2>5. TookSeat(c, r, s)
    BY <1>1, <2>2, <2>3, <2>4 DEF TookSeat, Stays, OnlyAt, SeatInv, TypeOK, ClientsOK
  <2> QED BY <2>2, <2>5 DEF Moves
<1> QED BY <1>2, <1>3

\* Every step.
LEMMA Movement ==
    ASSUME AtTheDoor, SeatInv, [Next]_vars
    PROVE  Still \/ \E c \in Clients : Moves(c)
<1>1. ASSUME UNCHANGED <<active, connected, username, room_id, player_index, player_ids>>
      PROVE  Still
  BY <1>1 DEF Still, OnlyAt
<1>2. CASE UNCHANGED vars
  BY <1>1, <1>2 DEF vars, clientVars, roomVars
<1>3. CASE client_accept
  <2> DEFINE c == Least({k \in Clients : ~active[k]})
  <2>1. c \in Clients /\ ~active[c]
    <3>1. c \in {k \in Clients : ~active[k]}
      BY <1>3, LeastClient DEF client_accept
    <3> QED BY <3>1
  <2>2. /\ active' = [active EXCEPT ![c] = TRUE]
        /\ connected' = [connected EXCEPT ![c] = TRUE]
        /\ username' = [username EXCEPT ![c] = NoUser]
        /\ room_id' = [room_id EXCEPT ![c] = None]
        /\ player_index' = [player_index EXCEPT ![c] = None]
        /\ UNCHANGED player_ids
    BY <1>3 DEF client_accept, BlankSlot, roomVars
  <2> HIDE DEF c
  <2>3. Opened(c)
    BY <2>1, <2>2 DEF Opened, OnlyAt, SeatInv, TypeOK, ClientsOK
  <2> QED BY <2>1, <2>3 DEF Moves
<1>4. ASSUME NEW c \in Clients, ConnectionLost(c) PROVE \E d \in Clients : Moves(d)
  <2>1. Lost(c)
    BY <1>4 DEF ConnectionLost, client_mark_disconnected, Serving, Lost, OnlyAt, roomVars,
                SeatInv, TypeOK, ClientsOK
  <2> QED BY <2>1 DEF Moves
<1>5. ASSUME NEW c \in Clients, AliasedRead(c) PROVE Still
  <2>1. /\ connected' = [connected EXCEPT ![c] = FALSE] /\ ~connected[c]
        /\ UNCHANGED <<active, username, room_id, player_index, player_ids>>
    BY <1>5 DEF AliasedRead, client_mark_disconnected, roomVars
  <2>2. connected' = connected
    BY <2>1 DEF SeatInv, TypeOK, ClientsOK
  <2> QED BY <1>1, <2>1, <2>2
<1>6. ASSUME NEW c \in Clients, handle_message(c) PROVE Still \/ Moves(c)
  <2>1. CASE handle_leave_room(c)
    <3>1. /\ Serving(c) /\ room_id[c] # None
          /\ RemovePlayer(room_id[c], c, "IN_LOBBY", NextHost(room_id[c], c))
          /\ UNCHANGED <<active, connected, username>>
      BY <2>1 DEF handle_leave_room, unchangedByRooms
    <3>2. /\ SeatGoesTo(room_id[c], player_index[c], None)
          /\ room_id' = [room_id EXCEPT ![c] = None]
          /\ player_index' = [player_index EXCEPT ![c] = None]
          /\ state'[c] = "IN_LOBBY"
      BY <3>1, RemovedAlone DEF Serving
    <3>3. LeftSeat(c)
      BY <3>1, <3>2 DEF LeftSeat, Stays, OnlyAt, SeatInv, TypeOK, ClientsOK
    <3> QED BY <3>3 DEF Moves
  <2>2. CASE \/ handle_ready(c) \/ handle_start_game(c)
             \/ \E cell \in Cells : handle_submit(c, cell)
             \/ handle_pong(c) \/ handle_ready_next_round(c)
    <3>1. UNCHANGED <<active, connected, username, room_id, player_index, player_ids>>
      BY <2>2 DEF handle_ready, handle_start_game, handle_submit, handle_pong,
                  handle_ready_next_round, unchangedByRooms, progressVars, roomVars
    <3> QED BY <1>1, <3>1
  <2> QED BY <1>6, <2>1, <2>2, LoginMoves, SitMoves DEF handle_message
<1>7. CASE Periodic
  <2>1. CASE Clock \/ Tick \/ SweepDone
    <3>1. UNCHANGED <<active, connected, username, room_id, player_index, player_ids>>
      BY <2>1 DEF Clock, Tick, SweepDone, clientVars, roomVars
    <3> QED BY <1>1, <3>1
  <2>2. CASE check_ping_timeouts
    <3> DEFINE c == Least(Silent)
    <3>1. c \in Silent /\ phase = "sweep" /\ client_disconnect(c)
      BY <2>2, LeastClient DEF check_ping_timeouts, Silent
    <3> HIDE DEF c
    <3>2. c \in Clients /\ active[c]
      BY <3>1 DEF Silent
    <3> QED BY <3>1, <3>2, DisconnectMoves DEF Moves
  <2>3. CASE check_reconnect_timeouts
    <3> DEFINE c == Least(Expired)
    <3>1. c \in Expired /\ phase = "sweep" /\ client_disconnect(c)
      BY <2>3, LeastClient DEF check_reconnect_timeouts, Expired
    <3> HIDE DEF c
    <3>2. c \in Clients /\ active[c]
      BY <3>1 DEF Expired
    <3> QED BY <3>1, <3>2, DisconnectMoves DEF Moves
  <2> QED BY <1>7, <2>1, <2>2, <2>3 DEF Periodic, Sweep
<1> QED BY <1>2, <1>3, <1>4, <1>5, <1>6, <1>7 DEF Next

-----------------------------------------------------------------------------
(***************************************************************************)
(* Departures and hand-overs.                                              *)
(***************************************************************************)

\* Moves of a client that has a room and loses or changes it.
LEMMA OwnExitStep ==
    ASSUME AtTheDoor, SeatInv, [Next]_vars, NEW c \in Clients,
           active[c], room_id[c] # None, room_id'[c] # room_id[c]
    PROVE  IF player_ids'[room_id[c]][player_index[c]] = None
           THEN /\ IF phase = "sweep" THEN c \in Silent \cup Expired
                   ELSE Serving(c) /\ active'[c] /\ state'[c] = "IN_LOBBY"
                /\ \A d \in Clients \ {c} : room_id'[d] = room_id[d]
           ELSE ~connected[c] /\ ~active'[c]
<1>1. ~Still
  BY DEF Still, OnlyAt
<1>2. PICK d \in Clients : Moves(d)
  BY <1>1, Movement
<1>3. ~Opened(d) /\ ~Lost(d)
  BY DEF Opened, Lost, OnlyAt
<1>4. \A u \in Users : ~Entered(d, u)
  BY DEF Entered, OnlyAt
<1>5. \A r \in Rooms, s \in Slots : ~TookSeat(d, r, s)
  BY DEF TookSeat, OnlyAt
<1>6. CASE LeftSeat(d)
  <2>1. d = c /\ phase # "sweep"
    BY <1>6 DEF LeftSeat, OnlyAt, Serving
  <2> QED BY <1>6, <2>1 DEF LeftSeat, Stays, OnlyAt, SeatGoesTo, Serving
<1>7. CASE Removed(d)
  <2>1. d = c
    BY <1>7 DEF Removed, OnlyAt
  <2> QED BY <1>7, <2>1 DEF Removed, OnlyAt, SeatGoesTo
<1>8. ASSUME NEW u \in Users, NEW old \in Clients, Resumed(d, old, u)
      PROVE  player_ids'[room_id[c]][player_index[c]] # None /\ ~connected[c] /\ ~active'[c]
  <2>1. old = c
    BY <1>8 DEF Resumed, OnlyAt
  <2>2. d # None
    BY SizesAssumption DEF Clients, None
  <2> QED BY <1>8, <2>1, <2>2 DEF Resumed, SeatGoesTo
<1> QED BY <1>2, <1>3, <1>4, <1>5, <1>6, <1>7, <1>8 DEF Moves

\* room_cleanup throws nobody out: who loses a seat left it, was silent or
\* expired, or resumes it from another slot.
THEOREM ExitsOwn == ASSUME AtTheDoor PROVE Spec => OwnExitOnly
<1>1. SeatInv /\ [Next]_vars =>
        [\A c \in Clients :
           active[c] /\ room_id[c] # None /\ room_id'[c] # room_id[c] =>
              IF player_ids'[room_id[c]][player_index[c]] = None
              THEN /\ IF phase = "sweep" THEN c \in Silent \cup Expired
                      ELSE Serving(c) /\ active'[c] /\ state'[c] = "IN_LOBBY"
                   /\ \A d \in Clients \ {c} : room_id'[d] = room_id[d]
              ELSE ~connected[c] /\ ~active'[c]]_vars
  BY OwnExitStep
<1> QED BY <1>1, SeatInvariant, PTL DEF Spec, OwnExitOnly

\* A seat that passes from one client to another.
LEMMA HandoverStep ==
    ASSUME AtTheDoor, SeatInv, [Next]_vars, NEW r \in Rooms, NEW s \in Slots,
           NEW c, NEW d, c = player_ids[r][s], d = player_ids'[r][s],
           c # None, d # None, c # d
    PROVE  /\ state[c] = "DISCONNECTED" /\ disconnect_age[c] < RECONNECT_TIMEOUT
           /\ username'[d] = username[c]
           /\ state'[d] = saved_state[c]
           /\ ~active'[c]
           /\ UNCHANGED <<gameVars, player_ready, player_count, host_index>>
<1>1. ~Still
  BY DEF Still
<1>2. PICK k \in Clients : Moves(k)
  BY <1>1, Movement
<1>3. c \in Clients /\ room_id[c] = r /\ player_index[c] = s
  BY DEF SeatInv, SeatsRight, SeatConsistency, TypeOK, RoomsOK
<1>4. /\ ~Opened(k) /\ ~Lost(k) /\ ~LeftSeat(k) /\ ~Removed(k)
      /\ \A u \in Users : ~Entered(k, u)
  BY DEF Opened, Lost, Entered, LeftSeat, Removed, SeatGoesTo
<1>5. \A q \in Rooms, p \in Slots : ~TookSeat(k, q, p)
  BY DEF TookSeat, SeatGoesTo
<1>6. ASSUME NEW u \in Users, NEW old \in Clients, Resumed(k, old, u)
      PROVE  old = c /\ k = d
  <2>1. /\ room_id[old] # None /\ SeatGoesTo(room_id[old], player_index[old], k)
        /\ active[old]
    BY <1>6 DEF Resumed
  <2>2. r = room_id[old] /\ s = player_index[old] /\ k = d
    BY <2>1 DEF SeatGoesTo
  <2>3. player_ids[r][s] = old
    BY <2>1, <2>2 DEF SeatInv, SeatsRight, SeatConsistency
  <2> QED BY <2>2, <2>3
<1> QED BY <1>2, <1>4, <1>5, <1>6 DEF Moves, Resumed, Resumable

\* handle_login hands a seat over whole: to the same user, in the same state,
\* with the game untouched.
THEOREM SeatsHandedOver == ASSUME AtTheDoor PROVE Spec => SeatHandover
<1>1. SeatInv /\ [Next]_vars =>
        [\A r \in Rooms, s \in Slots :
           LET c == player_ids[r][s]
               d == player_ids'[r][s]
           IN  c # None /\ d # None /\ c # d =>
                  /\ state[c] = "DISCONNECTED" /\ disconnect_age[c] < RECONNECT_TIMEOUT
                  /\ username'[d] = username[c]
                  /\ state'[d] = saved_state[c]
                  /\ ~active'[c]
                  /\ UNCHANGED <<gameVars, player_ready, player_count, host_index>>]_vars
  BY HandoverStep
<1> QED BY <1>1, SeatInvariant, PTL DEF Spec, SeatHandover

-----------------------------------------------------------------------------
(***************************************************************************)
(* SeatBook.                                                               *)
(***************************************************************************)

\* What SeatBook sees of the slot that holds a user's session.
At(c) == IF room_id[c] = None THEN <<"lobby">> ELSE <<room_id[c], player_index[c]>>

\* A user is where the one slot that holds the session is.
Views ==
    \A u \in Users :
        /\ \A c \in Clients : active[c] /\ username[c] = u =>
             PlaceOf(u) = At(c) /\ OnlineOf(u) = connected[c]
        /\ (\A c \in Clients : active[c] => username[c] # u) =>
             PlaceOf(u) = <<"out">> /\ OnlineOf(u) = FALSE

LEMMA Nowhere ==
    ASSUME NEW u \in Users, \A c \in Clients : active[c] => username[c] # u
    PROVE  PlaceOf(u) = <<"out">> /\ OnlineOf(u) = FALSE
<1>1. SessionsOf(u) = {}
  BY DEF SessionsOf
<1> QED BY <1>1 DEF PlaceOf, OnlineOf

LEMMA Viewed == NameInv => Views
<1> SUFFICES ASSUME NameInv, NEW u \in Users
             PROVE  /\ \A c \in Clients : active[c] /\ username[c] = u =>
                         PlaceOf(u) = At(c) /\ OnlineOf(u) = connected[c]
                    /\ (\A c \in Clients : active[c] => username[c] # u) =>
                         PlaceOf(u) = <<"out">> /\ OnlineOf(u) = FALSE
  BY DEF Views
<1>1. ASSUME NEW c \in Clients, active[c], username[c] = u
      PROVE  PlaceOf(u) = At(c) /\ OnlineOf(u) = connected[c]
  <2>1. SessionsOf(u) = {c}
    BY <1>1, InputsAssumption DEF NameInv, SingleSession, SessionsOf
  <2>2. Least({c}) = c
    BY LeastClient
  <2>3. connected[c] \in BOOLEAN
    BY DEF NameInv, TypeOK, ClientsOK
  <2> QED BY <2>1, <2>2, <2>3 DEF PlaceOf, At, OnlineOf
<1>2. (\A c \in Clients : active[c] => username[c] # u) =>
          PlaceOf(u) = <<"out">> /\ OnlineOf(u) = FALSE
  BY Nowhere
<1> QED BY <1>1, <1>2

\* Users with no session in the slots that a step moves stay as they are.
LEMMA OthersStay ==
    ASSUME Views, Views', NEW S \in SUBSET Clients, OnlyAt(S), NEW u \in Users,
           \A c \in S : /\ active[c] => username[c] # u
                        /\ active'[c] => username'[c] # u
    PROVE  PlaceOf(u)' = PlaceOf(u) /\ OnlineOf(u)' = OnlineOf(u)
<1>1. CASE \E c \in Clients : active[c] /\ username[c] = u
  <2>1. PICK c \in Clients : active[c] /\ username[c] = u
    BY <1>1
  <2>2. /\ active'[c] /\ username'[c] = u
        /\ At(c)' = At(c) /\ connected'[c] = connected[c]
    BY <2>1 DEF OnlyAt, At
  <2>3. PlaceOf(u) = At(c) /\ OnlineOf(u) = connected[c]
    BY <2>1 DEF Views
  <2>4. PlaceOf(u)' = At(c)' /\ OnlineOf(u)' = connected'[c]
    BY <2>2 DEF Views
  <2> QED BY <2>2, <2>3, <2>4
<1>2. CASE \A c \in Clients : active[c] => username[c] # u
  <2>1. \A c \in Clients : active'[c] => username'[c] # u
    BY <1>2 DEF OnlyAt
  <2> QED BY <1>2, <2>1 DEF Views
<1> QED BY <1>1, <1>2

\* The step of SeatBook that a single user makes, or two of them.
OnlyUser(u, p, o) ==
    /\ PlaceOf(u)' = p /\ OnlineOf(u)' = o
    /\ \A v \in Users \ {u} : PlaceOf(v)' = PlaceOf(v) /\ OnlineOf(v)' = OnlineOf(v)

LEMMA BookUpdate ==
    ASSUME NEW u \in Users, NEW p, NEW o, OnlyUser(u, p, o)
    PROVE  /\ Where' = [Where EXCEPT ![u] = p]
           /\ Online' = [Online EXCEPT ![u] = o]
           /\ p = PlaceOf(u) => UNCHANGED Where
           /\ o = OnlineOf(u) => UNCHANGED Online
  BY DEF OnlyUser, Where, Online

\* A move of the slot c whose user, if any, is u before and after it: a step of
\* SeatBook by u, to be told from what it does to u alone, or none.
LEMMA OneUser ==
    ASSUME Views, Views', NEW c \in Clients, OnlyAt({c}), NEW u,
           active[c] => username[c] = u, active'[c] => username'[c] = u
    PROVE  /\ u \in Users => OnlyUser(u, PlaceOf(u)', OnlineOf(u)')
           /\ u \notin Users => UNCHANGED <<Where, Online>>
<1>1. \A v \in Users \ {u} : PlaceOf(v)' = PlaceOf(v) /\ OnlineOf(v)' = OnlineOf(v)
  BY OthersStay
<1> QED BY <1>1 DEF OnlyUser, Where, Online

LEMMA StillBook == ASSUME Views, Views', Still PROVE UNCHANGED <<Where, Online>>
<1>1. \A v \in Users : PlaceOf(v)' = PlaceOf(v) /\ OnlineOf(v)' = OnlineOf(v)
  BY OthersStay DEF Still
<1> QED BY <1>1 DEF Where, Online

\* A connection is opened, lost, or the session removed.
LEMMA SlotBook ==
    ASSUME Views, Views', NameInv, NEW c \in Clients, Opened(c) \/ Lost(c) \/ Removed(c)
    PROVE  Book!BookNext \/ UNCHANGED <<Where, Online>>
<1>1. OnlyAt({c})
  BY DEF Opened, Lost, Removed
<1>2. CASE Opened(c)
  BY <1>1, <1>2, OneUser, InputsAssumption DEF Opened
<1> PICK u : u = username[c]
  OBVIOUS
<1>3. CASE Lost(c)
  <2>1. /\ active[c] /\ connected[c] /\ active'[c] /\ connected'[c] = FALSE
        /\ username'[c] = u /\ At(c)' = At(c)
    BY <1>3 DEF Lost, At
  <2>2. CASE u \in Users
    <3>1. /\ PlaceOf(u) = At(c) /\ OnlineOf(u) = TRUE
          /\ PlaceOf(u)' = At(c)' /\ OnlineOf(u)' = FALSE
      BY <2>1, <2>2 DEF Views
    <3>2. OnlyUser(u, PlaceOf(u), FALSE)
      BY <1>1, <2>1, <2>2, <3>1, OneUser
    <3>3. UNCHANGED Where /\ Online' = [Online EXCEPT ![u] = FALSE]
      BY <2>2, <3>2, BookUpdate, ZenonT(30)
    <3>4. Online[u]
      BY <2>2, <3>1 DEF Online
    <3>5. Book!CutOff(u)
      BY <3>3, <3>4 DEF Book!CutOff
    <3> QED BY <2>2, <3>5 DEF Book!BookNext
  <2> QED BY <1>1, <2>1, <2>2, OneUser
<1>4. CASE Removed(c)
  <2>1. active[c] /\ ~active'[c]
    BY <1>4 DEF Removed
  <2>2. CASE u \in Users
    <3>1. \A k \in Clients : active'[k] => username'[k] # u
      BY <1>1, <2>1, <2>2, InputsAssumption DEF NameInv, SingleSession, OnlyAt
    <3>2. PlaceOf(u) = At(c) /\ PlaceOf(u)' = <<"out">> /\ OnlineOf(u)' = FALSE
      BY <2>1, <2>2, <3>1 DEF Views
    <3>3. OnlyUser(u, <<"out">>, FALSE)
      BY <1>1, <2>1, <2>2, <3>2, OneUser
    <3>4. /\ Where' = [Where EXCEPT ![u] = <<"out">>]
          /\ Online' = [Online EXCEPT ![u] = FALSE]
      BY <2>2, <3>3, BookUpdate, ZenonT(30)
    <3>5. At(c) # <<"out">>
      BY DEF At
    <3>6. Where[u] # <<"out">>
      BY <2>2, <3>2, <3>5 DEF Where
    <3>7. Book!GiveUp(u)
      BY <3>4, <3>6 DEF Book!GiveUp, Book!Out
    <3> QED BY <2>2, <3>7 DEF Book!BookNext
  <2> QED BY <1>1, <2>1, <2>2, OneUser
<1> QED BY <1>2, <1>3, <1>4

\* A seat is taken or left.
LEMMA SeatBookStep ==
    ASSUME Views, Views', SeatInv, NEW c \in Clients,
           LeftSeat(c) \/ \E r \in Rooms, s \in Slots : TookSeat(c, r, s)
    PROVE  Book!BookNext \/ UNCHANGED <<Where, Online>>
<1> PICK u : u = username[c]
  OBVIOUS
<1>1. /\ OnlyAt({c})
      /\ active[c] /\ connected[c] = TRUE /\ active'[c] /\ connected'[c] = TRUE
      /\ username'[c] = u
  BY DEF LeftSeat, TookSeat, Stays, Serving
<1>2. CASE u \notin Users
  BY <1>1, <1>2, OneUser
<1>3. ASSUME u \in Users
      PROVE  /\ PlaceOf(u) = At(c) /\ OnlineOf(u) = TRUE
             /\ PlaceOf(u)' = At(c)' /\ OnlineOf(u)' = TRUE
             /\ Where' = [Where EXCEPT ![u] = At(c)'] /\ UNCHANGED Online
  <2>1. /\ PlaceOf(u) = At(c) /\ OnlineOf(u) = TRUE
        /\ PlaceOf(u)' = At(c)' /\ OnlineOf(u)' = TRUE
    BY <1>1, <1>3 DEF Views
  <2>2. OnlyUser(u, PlaceOf(u)', OnlineOf(u)')
    BY <1>1, <1>3, OneUser
  <2>3. Where' = [Where EXCEPT ![u] = PlaceOf(u)'] /\ UNCHANGED Online
    BY <1>3, <2>1, <2>2, BookUpdate
  <2> QED BY <2>1, <2>3
<1>4. ASSUME u \in Users, LeftSeat(c) PROVE Book!Rise(u)
  <2>1. At(c)' = <<"lobby">> /\ At(c) \in Rooms \X Slots
    <3>1. room_id[c] \in Rooms /\ player_index[c] \in Slots
      BY <1>1, <1>4 DEF LeftSeat, SeatGoesTo
    <3>2. room_id[c] # None /\ room_id'[c] = None
      BY <1>4 DEF LeftSeat
    <3> QED BY <3>1, <3>2 DEF At
  <2>2. Where' = [Where EXCEPT ![u] = <<"lobby">>] /\ UNCHANGED Online
    BY <1>3, <1>4, <2>1
  <2>3. Where[u] \in Rooms \X Slots /\ Online[u]
    BY <1>3, <1>4, <2>1 DEF Where, Online
  <2> QED BY <2>2, <2>3 DEF Book!Rise, Book!Lobby
<1>5. ASSUME u \in Users, NEW r \in Rooms, NEW s \in Slots, TookSeat(c, r, s)
      PROVE  Book!Sit(u, <<r, s>>)
  <2>1. At(c)' = <<r, s>> /\ At(c) = <<"lobby">>
    BY <1>5, SizesAssumption DEF TookSeat, At, Rooms, None
  <2>2. Where' = [Where EXCEPT ![u] = <<r, s>>] /\ UNCHANGED Online
    BY <1>3, <1>5, <2>1
  <2>3. Where[u] = <<"lobby">> /\ Online[u]
    BY <1>3, <1>5, <2>1 DEF Where, Online
  <2>4. ASSUME NEW v \in Users PROVE Where[v] # <<r, s>>
    <3>1. CASE \E k \in Clients : active[k] /\ username[k] = v
      <4>1. PICK k \in Clients : active[k] /\ username[k] = v
        BY <3>1
      <4>2. player_ids[r][s] # k
        BY <1>5, SizesAssumption DEF TookSeat, Clients, None
      <4>3. ~(room_id[k] = r /\ player_index[k] = s)
        BY <4>1, <4>2 DEF SeatInv, SeatsRight, SeatConsistency
      <4>4. At(k) # <<r, s>>
        <5>1. CASE room_id[k] = None
          BY <5>1 DEF At
        <5>2. CASE room_id[k] # None
          BY <4>3, <5>2 DEF At
        <5> QED BY <5>1, <5>2
      <4> QED BY <4>1, <4>4 DEF Views, Where
    <3>2. CASE \A k \in Clients : active[k] => username[k] # v
      BY <3>2 DEF Views, Where
    <3> QED BY <3>1, <3>2
  <2> QED BY <2>2, <2>3, <2>4 DEF Book!Sit, Book!Lobby, Book!Free
<1> QED BY <1>2, <1>4, <1>5 DEF Book!BookNext

\* A session is entered: the user was out, for a lost session of the same user
\* would have stopped the scan.
LEMMA EnterBook ==
    ASSUME SilenceFirst, Views, Views', NameInv, NEW c \in Clients, NEW u \in Users,
           Entered(c, u)
    PROVE  Book!BookNext \/ UNCHANGED <<Where, Online>>
<1> PICK w : w = username[c]
  OBVIOUS
<1>1. /\ OnlyAt({c}) /\ active[c] /\ connected[c] = TRUE /\ phase = "serve"
      /\ active'[c] /\ connected'[c] = TRUE /\ username'[c] = u
      /\ At(c) = <<"lobby">> /\ At(c)' = <<"lobby">>
  BY DEF Entered, Serving, At
<1>2. \A k \in Clients \ {c} : active[k] => username[k] # u
  <2> SUFFICES ASSUME NEW k \in Clients \ {c}, active[k], username[k] = u PROVE FALSE
    OBVIOUS
  <2>1. state[k] = "DISCONNECTED" /\ ~Resumable(k)
    BY DEF Entered, ScanStops
  <2>2. disconnect_age[k] <= PING_TIMEOUT + lag
    BY <1>1, <2>1 DEF NameInv, Silenced, SilentAt
  <2>3. /\ disconnect_age[k] \in Nat /\ RECONNECT_TIMEOUT \in Nat /\ PING_TIMEOUT \in Nat
        /\ lag \in 0 .. MAX_LAG /\ MAX_LAG \in Nat
    BY TimesAssumption DEF NameInv, TypeOK, ClientsOK, LoopOK
  <2>4. disconnect_age[k] >= RECONNECT_TIMEOUT
    BY <2>1, <2>3 DEF Resumable
  <2> QED BY <2>2, <2>3, <2>4 DEF SilenceFirst
<1>3. PlaceOf(u)' = <<"lobby">> /\ OnlineOf(u)' = TRUE
  BY <1>1 DEF Views
<1>4. CASE w = u
  <2>1. PlaceOf(u) = <<"lobby">> /\ OnlineOf(u) = TRUE
    BY <1>1, <1>4, ZenonT(30) DEF Views
  <2>2. OnlyUser(u, PlaceOf(u)', OnlineOf(u)')
    BY <1>1, <1>4, OneUser
  <2>3. \A v \in Users : PlaceOf(v)' = PlaceOf(v) /\ OnlineOf(v)' = OnlineOf(v)
    BY <1>3, <2>1, <2>2 DEF OnlyUser
  <2> QED BY <2>3 DEF Where, Online
<1>5. CASE w # u
  <2>1. PlaceOf(u) = <<"out">>
    BY <1>1, <1>2, <1>5 DEF Views
  <2>2. \A v \in Users \ {u, w} : PlaceOf(v)' = PlaceOf(v) /\ OnlineOf(v)' = OnlineOf(v)
    BY <1>1, OthersStay
  <2>3. Where[u] = <<"out">>
    BY <2>1 DEF Where
  <2>4. CASE w \notin Users
    <3>1. /\ Where' = [Where EXCEPT ![u] = <<"lobby">>]
          /\ Online' = [Online EXCEPT ![u] = TRUE]
      BY <1>3, <2>2, <2>4 DEF Where, Online
    <3> QED BY <2>3, <3>1 DEF Book!BookNext, Book!Enter, Book!Lobby, Book!Out
  <2>5. CASE w \in Users
    <3>1. PlaceOf(w) = <<"lobby">> /\ OnlineOf(w) = TRUE
      BY <1>1, <2>5 DEF Views
    <3>2. \A k \in Clients : active'[k] => username'[k] # w
      BY <1>1, <1>5, <2>5, InputsAssumption DEF NameInv, SingleSession, OnlyAt
    <3>3. PlaceOf(w)' = <<"out">> /\ OnlineOf(w)' = FALSE
      BY <2>5, <3>2 DEF Views
    <3>4. Where[w] = <<"lobby">> /\ Online[w]
      BY <2>5, <3>1 DEF Where, Online
    <3>5. /\ Where' = [Where EXCEPT ![u] = <<"lobby">>, ![w] = <<"out">>]
          /\ Online' = [Online EXCEPT ![u] = TRUE, ![w] = FALSE]
      BY <1>3, <1>5, <2>2, <2>5, <3>3 DEF Where, Online
    <3> QED BY <1>5, <2>3, <2>5, <3>4, <3>5 DEF Book!BookNext, Book!Enter, Book!Lobby, Book!Out
  <2> QED BY <2>4, <2>5
<1> QED BY <1>4, <1>5

\* A lost session is resumed, at the very same place.
LEMMA ResumeBook ==
    ASSUME Views, Views', NameInv, NEW c \in Clients, NEW old \in Clients, NEW u \in Users,
           Resumed(c, old, u)
    PROVE  Book!BookNext \/ UNCHANGED <<Where, Online>>
<1> PICK w : w = username[c]
  OBVIOUS
<1>1. /\ OnlyAt({c, old}) /\ c # old
      /\ active[c] /\ connected[c] = TRUE /\ At(c) = <<"lobby">>
      /\ active'[c] /\ connected'[c] = TRUE /\ username'[c] = u
      /\ active[old] /\ connected[old] = FALSE /\ username[old] = u
      /\ ~active'[old] /\ At(c)' = At(old)
  BY DEF Resumed, Serving, At, NameInv, TypeOK, ClientsOK
<1>2. /\ PlaceOf(u) = At(old) /\ OnlineOf(u) = FALSE
      /\ PlaceOf(u)' = At(old) /\ OnlineOf(u)' = TRUE
  BY <1>1 DEF Views
<1>3. At(old) # <<"out">>
  BY DEF At
<1>4. Where[u] # <<"out">> /\ ~Online[u]
  BY <1>2, <1>3 DEF Where, Online
<1>5. w # u
  BY <1>1, InputsAssumption DEF NameInv, SingleSession
<1>6. \A v \in Users \ {u, w} : PlaceOf(v)' = PlaceOf(v) /\ OnlineOf(v)' = OnlineOf(v)
  BY <1>1, OthersStay
<1>7. CASE w \notin Users
  <2>1. UNCHANGED Where /\ Online' = [Online EXCEPT ![u] = TRUE]
    BY <1>2, <1>6, <1>7 DEF Where, Online
  <2> QED BY <1>4, <2>1 DEF Book!BookNext, Book!Return, Book!Out
<1>8. CASE w \in Users
  <2>1. PlaceOf(w) = <<"lobby">> /\ OnlineOf(w) = TRUE
    BY <1>1, <1>8 DEF Views
  <2>2. \A k \in Clients : active'[k] => username'[k] # w
    BY <1>1, <1>5, <1>8, InputsAssumption DEF NameInv, SingleSession, OnlyAt
  <2>3. PlaceOf(w)' = <<"out">> /\ OnlineOf(w)' = FALSE
    BY <1>8, <2>2 DEF Views
  <2>4. Where[w] = <<"lobby">> /\ Online[w]
    BY <1>8, <2>1 DEF Where, Online
  <2>5. /\ Where' = [Where EXCEPT ![w] = <<"out">>]
        /\ Online' = [Online EXCEPT ![u] = TRUE, ![w] = FALSE]
    BY <1>2, <1>5, <1>6, <1>8, <2>3 DEF Where, Online
  <2> QED BY <1>4, <1>5, <1>8, <2>4, <2>5 DEF Book!BookNext, Book!Return, Book!Lobby, Book!Out
<1> QED BY <1>7, <1>8

\* Every step of the server.
LEMMA BookStep ==
    ASSUME AtTheDoor, SilenceFirst, SeatInv, NameInv, NameInv', [Next]_vars
    PROVE  [Book!BookNext]_(Book!bookVars)
<1>1. Views
  BY Viewed
<1>2. NameInv' => Views'
  BY Viewed, PTL
<1>3. Book!BookNext \/ UNCHANGED <<Where, Online>>
  BY <1>1, <1>2, Movement, StillBook, SlotBook, SeatBookStep, EnterBook, ResumeBook
     DEF Moves
<1> QED BY <1>3 DEF Book!bookVars

\* The server keeps the promise of SeatBook to all its users: a place survives
\* a lost connection, moves to the new slot with LOGIN, and is taken away by
\* nobody but its user and the server's own timeouts.
THEOREM PlacesKept == ASSUME AtTheDoor, SilenceFirst, ~FdAlias PROVE Spec => KeepsPlaces
<1>1. Init => Book!BookInit
  <2> SUFFICES ASSUME Init PROVE Book!BookInit
    OBVIOUS
  <2>1. \A u \in Users : PlaceOf(u) = <<"out">> /\ OnlineOf(u) = FALSE
    BY Nowhere DEF Init
  <2> QED BY <2>1 DEF Where, Online, Book!BookInit, Book!Out
<1>2. SeatInv /\ NameInv /\ NameInv' /\ [Next]_vars => [Book!BookNext]_(Book!bookVars)
  BY BookStep
<1> QED BY <1>1, <1>2, SeatInvariant, NameInvariant, PTL
        DEF Spec, KeepsPlaces, Book!BookSpec
-----------------------------------------------------------------------------
(***************************************************************************)
(* One room at a time: no assumption on the clients is needed here.        *)
(***************************************************************************)

\* The game of room q, and all of it that RoomIsolation looks at.
GameStays(q) ==
    /\ game_started'[q] = game_started[q] /\ solution'[q] = solution[q]
    /\ submitted_answers'[q] = submitted_answers[q]
    /\ answer_submitted'[q] = answer_submitted[q]
    /\ current_round'[q] = current_round[q]
    /\ round_continue_ready'[q] = round_continue_ready[q]
    /\ waiting_for_continue'[q] = waiting_for_continue[q]
    /\ announced'[q] = announced[q]

RoomStays(q) ==
    /\ GameStays(q)
    /\ room_active'[q] = room_active[q] /\ player_ids'[q] = player_ids[q]
    /\ player_ready'[q] = player_ready[q] /\ player_count'[q] = player_count[q]
    /\ host_index'[q] = host_index[q]

\* A step touches at most one room.
OneRoom == \E r \in Rooms : \A q \in Rooms \ {r} : RoomStays(q)

LEMMA AnyRoom == ASSUME \A q \in Rooms : RoomStays(q) PROVE OneRoom
  BY SizesAssumption DEF OneRoom, Rooms

LEMMA SameRooms == ASSUME UNCHANGED <<roomVars, gameVars>> PROVE OneRoom
  BY AnyRoom DEF RoomStays, GameStays, roomVars, gameVars

\* The games of the other rooms, whatever the handler does to its own.
LEMMA ZeroElsewhere ==
    ASSUME TypeOK, NEW r \in Rooms, ZeroGame(r), NEW q \in Rooms \ {r} PROVE GameStays(q)
  BY DEF TypeOK, GamesOK, ZeroGame, GameStays

LEMMA StartElsewhere ==
    ASSUME TypeOK, NEW r \in Rooms, NEW k, NEW st, room_start_game(r, k, st),
           UNCHANGED submitted_answers, NEW q \in Rooms \ {r}
    PROVE  GameStays(q)
  BY DEF TypeOK, GamesOK, room_start_game, puzzle_generate, GameStays

\* A departure touches the room it leaves.
LEMMA RemoveElsewhere ==
    ASSUME TypeOK, NEW r \in Rooms, NEW c, NEW st, NEW host, RemovePlayer(r, c, st, host)
    PROVE  OneRoom
<1> SUFFICES ASSUME NEW q \in Rooms \ {r} PROVE RoomStays(q)
  BY DEF OneRoom
<1>1. player_ids'[q] = player_ids[q] /\ player_count'[q] = player_count[q]
  BY DEF RemovePlayer, TypeOK, RoomsOK
<1>2. CASE player_count[r] = 1
  <2>1. /\ ZeroGame(r)
        /\ room_active' = [room_active EXCEPT ![r] = FALSE]
        /\ player_ready' = [player_ready EXCEPT ![r] = [s \in Slots |-> FALSE]]
        /\ host_index' = [host_index EXCEPT ![r] = None]
    BY <1>2 DEF RemovePlayer
  <2> QED BY <1>1, <2>1, ZeroElsewhere DEF RoomStays, TypeOK, RoomsOK
<1>3. CASE player_count[r] # 1
  <2>1. /\ UNCHANGED <<room_active, gameVars>>
        /\ player_ready' = [player_ready EXCEPT ![r] = [s \in Slots |->
                              @[s] /\ Vacated(r, c)[s] = player_ids[r][s]]]
        /\ host_index' = [host_index EXCEPT ![r] = host]
    BY <1>3 DEF RemovePlayer
  <2> QED BY <1>1, <2>1 DEF RoomStays, GameStays, gameVars, TypeOK, RoomsOK
<1> QED BY <1>2, <1>3

LEMMA DisconnectElsewhere ==
    ASSUME TypeOK, NEW c \in Clients, client_disconnect(c) PROVE OneRoom
<1>1. CASE room_id[c] # None
  <2>1. room_id[c] \in Rooms
    BY <1>1 DEF TypeOK, ClientsOK
  <2> QED BY <1>1, <2>1, RemoveElsewhere DEF client_disconnect
<1>2. CASE room_id[c] = None
  BY <1>2, SameRooms DEF client_disconnect
<1> QED BY <1>1, <1>2

\* The end of a game is the end of that room's game.
LEMMA EndElsewhere ==
    ASSUME TypeOK, NEW r \in Rooms, NEW won, room_end_game(r, won), NEW q \in Rooms \ {r}
    PROVE  /\ game_started'[q] = game_started[q] /\ solution'[q] = solution[q]
           /\ current_round'[q] = current_round[q] /\ player_ready'[q] = player_ready[q]
           /\ round_continue_ready'[q] = round_continue_ready[q]
           /\ waiting_for_continue'[q] = waiting_for_continue[q]
           /\ announced'[q] = announced[q]
<1>1. announced'[q] = announced[q]
  BY DEF room_end_game, Announce
<1>2. CASE RoundWon(r)
  BY <1>1, <1>2 DEF RoundWon, TypeOK, GamesOK
<1>3. CASE GamesOver({r})
  BY <1>1, <1>3 DEF GamesOver, TypeOK, GamesOK
<1> QED BY <1>2, <1>3 DEF room_end_game

LEMMA SubmitElsewhere ==
    ASSUME TypeOK, NEW c \in Clients, NEW cell \in Cells, handle_submit(c, cell)
    PROVE  OneRoom
<1>1. PICK r \in Rooms : r = room_id[c]
  BY DEF handle_submit, TypeOK, ClientsOK
<1> SUFFICES ASSUME NEW q \in Rooms \ {r} PROVE RoomStays(q)
  BY DEF OneRoom
<1>2. /\ room_active'[q] = room_active[q] /\ player_ids'[q] = player_ids[q]
      /\ player_count'[q] = player_count[q] /\ host_index'[q] = host_index[q]
      /\ submitted_answers'[q] = submitted_answers[q]
      /\ answer_submitted'[q] = answer_submitted[q]
  BY <1>1 DEF handle_submit, TypeOK, GamesOK
<1>3. CASE UNCHANGED progressVars
  BY <1>2, <1>3 DEF progressVars, RoomStays, GameStays
<1>4. ASSUME NEW won, room_end_game(r, won) PROVE RoomStays(q)
  BY <1>2, <1>4, EndElsewhere DEF RoomStays, GameStays
<1> QED BY <1>1, <1>3, <1>4 DEF handle_submit

LEMMA VoteElsewhere ==
    ASSUME TypeOK, NEW c \in Clients, handle_ready_next_round(c) PROVE OneRoom
<1>1. PICK r \in Rooms : r = room_id[c]
  BY DEF handle_ready_next_round, TypeOK, ClientsOK
<1> SUFFICES ASSUME NEW q \in Rooms \ {r} PROVE RoomStays(q)
  BY DEF OneRoom
<1>2. UNCHANGED <<room_active, player_ids, player_count, host_index, submitted_answers,
                  player_ready>>
  BY DEF handle_ready_next_round
<1>3. ASSUME NEW k, NEW st, room_start_game(r, k, st) PROVE RoomStays(q)
  BY <1>2, <1>3, StartElsewhere DEF RoomStays
<1>4. ASSUME NEW votes,
             round_continue_ready' = [round_continue_ready EXCEPT ![r] = votes],
             UNCHANGED <<game_started, current_round, waiting_for_continue, solution,
                         answer_submitted, announced>>
      PROVE  RoomStays(q)
  BY <1>2, <1>4 DEF RoomStays, GameStays, TypeOK, GamesOK
<1> QED BY <1>1, <1>3, <1>4 DEF handle_ready_next_round

LEMMA BeginElsewhere ==
    ASSUME TypeOK, NEW c \in Clients, handle_ready(c) \/ handle_start_game(c) PROVE OneRoom
<1>1. PICK r \in Rooms : r = room_id[c]
  BY DEF handle_ready, handle_start_game, TypeOK, ClientsOK
<1> SUFFICES ASSUME NEW q \in Rooms \ {r} PROVE RoomStays(q)
  BY DEF OneRoom
<1>2. /\ UNCHANGED <<room_active, player_ids, player_count, host_index>>
      /\ player_ready'[q] = player_ready[q]
  BY <1>1 DEF handle_ready, handle_start_game, roomVars, TypeOK, RoomsOK
<1>3. ASSUME NEW k, NEW st, room_start_game(r, k, st), UNCHANGED submitted_answers
      PROVE  RoomStays(q)
  BY <1>2, <1>3, StartElsewhere DEF RoomStays
<1>4. CASE UNCHANGED gameVars
  BY <1>2, <1>4 DEF gameVars, RoomStays, GameStays
<1> QED BY <1>1, <1>3, <1>4 DEF handle_ready, handle_start_game

\* CREATE_ROOM, JOIN_ROOM and a LOGIN that resumes seat the client in one room.
LEMMA SeatElsewhere ==
    ASSUME TypeOK, NEW c \in Clients,
           \/ handle_create_room(c)
           \/ \E r \in Rooms : handle_join_room(c, r)
           \/ \E u \in Users : login_resume(c, u)
    PROVE  OneRoom
<1>1. CASE handle_create_room(c)
  <2> DEFINE r == Least({p \in Rooms : ~room_active[p]})
  <2>1. /\ r \in Rooms /\ ZeroGame(r)
        /\ room_active' = [room_active EXCEPT ![r] = TRUE]
        /\ player_ids' = [player_ids EXCEPT ![r] =
                            [s \in Slots |-> IF s = 0 THEN c ELSE None]]
        /\ player_ready' = [player_ready EXCEPT ![r] = [s \in Slots |-> FALSE]]
        /\ player_count' = [player_count EXCEPT ![r] = 1]
        /\ host_index' = [host_index EXCEPT ![r] = 0]
    BY <1>1, LeastRoom DEF handle_create_room
  <2> HIDE DEF r
  <2> SUFFICES ASSUME NEW q \in Rooms \ {r} PROVE RoomStays(q)
    BY <2>1 DEF OneRoom
  <2> QED BY <2>1, ZeroElsewhere DEF RoomStays, TypeOK, RoomsOK
<1>2. ASSUME NEW r \in Rooms, handle_join_room(c, r) PROVE OneRoom
  <2> SUFFICES ASSUME NEW q \in Rooms \ {r} PROVE RoomStays(q)
    BY DEF OneRoom
  <2>1. GameStays(q)
    BY <1>2 DEF handle_join_room, room_join, gameVars, GameStays
  <2>2. room_active'[q] = room_active[q] /\ player_ids'[q] = player_ids[q]
    BY <1>2 DEF handle_join_room, room_join, TypeOK, RoomsOK
  <2>3. player_ready'[q] = player_ready[q] /\ player_count'[q] = player_count[q]
    BY <1>2 DEF handle_join_room, room_join, TypeOK, RoomsOK
  <2>4. host_index'[q] = host_index[q]
    BY <1>2 DEF handle_join_room, room_join, TypeOK, RoomsOK
  <2> QED BY <2>1, <2>2, <2>3, <2>4 DEF RoomStays
<1>3. ASSUME NEW u \in Users, login_resume(c, u) PROVE OneRoom
  <2> DEFINE old == Least(ScanStops(c, u))
  <2>1. /\ old \in Clients
        /\ player_ids' = SeatTakenOver(c, old)
        /\ UNCHANGED <<room_active, player_ready, player_count, host_index, gameVars>>
    BY <1>3, LeastClient, SMTT(30) DEF login_resume, ScanStops
  <2> HIDE DEF old
  <2>2. CASE room_id[old] = None
    BY <2>1, <2>2, SameRooms, SMTT(30) DEF SeatTakenOver, roomVars
  <2>3. CASE room_id[old] # None
    <3>1. room_id[old] \in Rooms
      BY <2>1, <2>3 DEF TypeOK, ClientsOK
    <3>2. ASSUME NEW q \in Rooms \ {room_id[old]} PROVE RoomStays(q)
      BY <2>1, <2>3, <3>1, <3>2 DEF SeatTakenOver, RoomStays, GameStays, gameVars,
                                    TypeOK, RoomsOK
    <3> QED BY <3>1, <3>2 DEF OneRoom
  <2> QED BY <2>2, <2>3
<1> QED BY <1>1, <1>2, <1>3

\* The periodic pass leaves a room alone whose time is not up.
LEMMA TickElsewhere ==
    ASSUME TypeOK, Tick, NEW q \in Rooms \ TimeIsUp PROVE RoomStays(q)
<1>1. GamesOver(TimeIsUp) /\ announced'[q] = announced[q]
  BY DEF Tick, Announce
<1>2. player_ready'[q] = player_ready[q]
  BY <1>1 DEF GamesOver
<1>3. GameStays(q)
  BY <1>1 DEF GamesOver, Tick, GameStays, TypeOK, GamesOK
<1> QED BY <1>2, <1>3 DEF Tick, RoomStays

\* Every step but that pass touches at most one room.
LEMMA OneRoomStep == ASSUME TypeOK, [Next]_vars PROVE OneRoom \/ Tick
<1>1. CASE \/ UNCHANGED vars \/ client_accept
           \/ \E c \in Clients : ConnectionLost(c) \/ AliasedRead(c)
  BY <1>1, SameRooms DEF vars, client_accept, ConnectionLost, AliasedRead,
                         client_mark_disconnected
<1>2. CASE Sweep
  <2>1. Silent # {} => Least(Silent) \in Clients
    BY LeastClient DEF Silent
  <2>2. Expired # {} => Least(Expired) \in Clients
    BY LeastClient DEF Expired
  <2>3. CASE SweepDone
    BY <2>3, SameRooms DEF SweepDone
  <2> QED BY <1>2, <2>1, <2>2, <2>3, DisconnectElsewhere
          DEF Sweep, check_ping_timeouts, check_reconnect_timeouts
<1>3. ASSUME NEW c \in Clients, handle_message(c) PROVE OneRoom
  <2>1. CASE handle_leave_room(c)
    <3>1. room_id[c] \in Rooms
      BY <2>1 DEF handle_leave_room, TypeOK, ClientsOK
    <3> QED BY <2>1, <3>1, RemoveElsewhere DEF handle_leave_room
  <2>2. CASE handle_pong(c) \/ \E u \in Users : login_fresh(c, u)
    BY <2>2, SameRooms DEF handle_pong, login_fresh
  <2> QED BY <1>3, <2>1, <2>2, SeatElsewhere, BeginElsewhere, SubmitElsewhere, VoteElsewhere
          DEF handle_message, handle_login
<1>4. CASE Clock
  BY <1>4, AnyRoom DEF Clock, RoomStays, GameStays, gameVars, roomVars
<1> QED BY <1>1, <1>2, <1>3, <1>4 DEF Next, Periodic

\* A message, a lost connection or a removal touches one room and leaves the
\* others as they are, and a periodic pass touches only rooms whose time is
\* up, whatever the clients do.
THEOREM RoomsIsolated == Spec => RoomIsolation
<1>1. TypeOK /\ [Next]_vars
        => [\A q, r \in Rooms :
              q # r => \/ UNCHANGED RoomView(q)
                       \/ UNCHANGED RoomView(r)
                       \/ lag' < lag /\ {q, r} \subseteq TimeIsUp]_vars
  <2> SUFFICES ASSUME TypeOK, [Next]_vars, NEW q \in Rooms, NEW r \in Rooms, q # r
               PROVE  \/ UNCHANGED RoomView(q)
                      \/ UNCHANGED RoomView(r)
                      \/ lag' < lag /\ {q, r} \subseteq TimeIsUp
    OBVIOUS
  <2>1. \A p \in Rooms : RoomStays(p) => UNCHANGED RoomView(p)
    BY DEF RoomStays, GameStays, RoomView
  <2>2. CASE OneRoom
    <3>1. RoomStays(q) \/ RoomStays(r)
      BY <2>2 DEF OneRoom
    <3> QED BY <2>1, <3>1
  <2>3. CASE Tick
    <3>1. lag' < lag
      BY <2>3, TimesAssumption DEF Tick, TypeOK, LoopOK
    <3>2. \A p \in Rooms \ TimeIsUp : UNCHANGED RoomView(p)
      BY <2>1, <2>3, TickElsewhere
    <3> QED BY <3>1, <3>2
  <2> QED BY <2>2, <2>3, OneRoomStep
<1> QED BY <1>1, TypeCorrect, PTL DEF Spec, RoomIsolation
-----------------------------------------------------------------------------
(***************************************************************************)
(* The host of a room.                                                     *)
(***************************************************************************)

HostFits(r) ==
    room_active[r] /\ room_active'[r] /\ host_index[r] \in TakenSeats(r) =>
        IF player_ids'[r][host_index[r]] # None \/ phase = "sweep"
        THEN host_index'[r] = host_index[r]
        ELSE host_index'[r] \in {s \in Slots : player_ids'[r][s] # None}

\* LEAVE_ROOM: a host who goes is replaced by an occupant, if one stays.
LEMMA LeaveHost ==
    ASSUME SeatInv, NEW c \in Clients, handle_leave_room(c), NEW r \in Rooms
    PROVE  HostFits(r)
<1>1. PICK q, p : q = room_id[c] /\ p = player_index[c]
  OBVIOUS
<1>2. active[c] /\ q # None /\ RemovePlayer(q, c, "IN_LOBBY", NextHost(q, c))
  BY <1>1 DEF handle_leave_room, Serving
<1>3. /\ q \in Rooms /\ p \in Slots /\ player_ids[q][p] = c /\ SeatsOf(q, c) = {p}
      /\ Vacated(q, c) = [player_ids[q] EXCEPT ![p] = None]
  BY <1>1, <1>2, OwnSeat, Departure DEF SeatInv, TypeOK, ClientsOK
<1>4. player_ids'[r] = IF r = q THEN Vacated(q, c) ELSE player_ids[r]
  BY <1>2, <1>3 DEF RemovePlayer, SeatInv, TypeOK, RoomsOK
<1>5. CASE r # q
  BY <1>2, <1>3, <1>4, <1>5 DEF RemovePlayer, HostFits, TakenSeats, SeatInv, TypeOK, RoomsOK
<1>6. CASE r = q /\ player_count[q] = 1
  BY <1>2, <1>3, <1>6 DEF RemovePlayer, HostFits, SeatInv, TypeOK, RoomsOK
<1>7. ASSUME r = q, player_count[q] # 1, NEW h, h = host_index[r], h \in TakenSeats(r)
      PROVE  HostFits(r)
  <2>1. host_index'[r] = NextHost(q, c)
    BY <1>2, <1>3, <1>7 DEF RemovePlayer, SeatInv, TypeOK, RoomsOK
  <2>2. h \in Slots /\ player_ids[r][h] # None
    BY <1>7 DEF TakenSeats
  <2>3. Least(SeatsOf(q, c)) = p
    BY <1>3, LeastOfOne
  <2>4. CASE h # p
    <3>1. NextHost(q, c) = h
      BY <1>7, <2>3, <2>4 DEF NextHost
    <3>2. player_ids'[r][h] # None
      BY <1>3, <1>4, <1>7, <2>2, <2>4 DEF SeatInv, TypeOK, RoomsOK
    <3> QED BY <1>7, <2>1, <3>1, <3>2 DEF HostFits
  <2>5. CASE h = p
    <3> DEFINE others == TakenSeats(r) \ {h}
    <3>1. player_count[r] > 1 /\ others # {}
      <4>1. /\ IsFiniteSet(TakenSeats(r)) /\ IsFiniteSet(others)
            /\ Cardinality(others) = Cardinality(TakenSeats(r)) - 1
        BY <1>7, TakenFinite, FS_RemoveElement
      <4>2. Cardinality(TakenSeats(r)) = player_count[r] /\ player_count[r] \in Nat
        BY TakenFinite DEF SeatInv, SeatsRight, OccupancyExact
      <4>3. Cardinality(others) # 0 /\ player_count[r] # 0
        BY <1>7, <4>1, <4>2, FS_CardinalityType
      <4> QED BY <1>7, <4>1, <4>2, <4>3, FS_EmptySet
    <3>2. others \in SUBSET Slots
      BY DEF TakenSeats
    <3>3. NextHost(q, c) = Least(others)
      BY <1>3, <1>7, <2>3, <2>5, <3>1 DEF NextHost
    <3>4. Least(others) \in others
      BY <3>1, <3>2, LeastSlot
    <3>5. Least(others) \in Slots /\ player_ids'[r][Least(others)] # None
      <4>1. Least(others) # p /\ player_ids[r][Least(others)] # None
        BY <2>5, <3>4 DEF TakenSeats
      <4> HIDE DEF others
      <4> QED BY <1>3, <1>4, <1>7, <3>2, <3>4, <4>1 DEF SeatInv, TypeOK, RoomsOK
    <3>6. player_ids'[r][h] = None
      BY <1>3, <1>4, <1>7, <2>5 DEF SeatInv, TypeOK, RoomsOK
    <3>7. phase # "sweep"
      BY DEF handle_leave_room, Serving
    <3> HIDE DEF others
    <3> QED BY <1>7, <2>1, <3>3, <3>5, <3>6, <3>7 DEF HostFits
  <2> QED BY <2>4, <2>5
<1> QED BY <1>5, <1>6, <1>7 DEF HostFits

\* No other step moves the host of a room in use, or empties a seat between two
\* passes.
LEMMA HostStep == ASSUME SeatInv, [Next]_vars, NEW r \in Rooms PROVE HostFits(r)
<1>1. TypeOK
  BY DEF SeatInv
<1>2. ASSUME UNCHANGED <<player_ids, host_index>> PROVE HostFits(r)
  BY <1>2 DEF HostFits, TakenSeats
<1>3. CASE Sweep
  <2>1. ASSUME NEW c \in Clients, client_disconnect(c), phase = "sweep" PROVE HostFits(r)
    <3>1. CASE room_id[c] # None
      <4>1. room_id[c] \in Rooms
        BY <1>1, <3>1 DEF TypeOK, ClientsOK
      <4> QED BY <1>1, <2>1, <3>1, <4>1
              DEF client_disconnect, RemovePlayer, HostFits, TypeOK, RoomsOK
    <3>2. CASE room_id[c] = None
      BY <1>2, <2>1, <3>2 DEF client_disconnect, roomVars
    <3> QED BY <3>1, <3>2
  <2>2. CASE check_ping_timeouts
    <3>1. Least(Silent) \in Clients
      BY <2>2, LeastClient DEF check_ping_timeouts, Silent
    <3> QED BY <2>1, <2>2, <3>1 DEF check_ping_timeouts
  <2>3. CASE check_reconnect_timeouts
    <3>1. Least(Expired) \in Clients
      BY <2>3, LeastClient DEF check_reconnect_timeouts, Expired
    <3> QED BY <2>1, <2>3, <3>1 DEF check_reconnect_timeouts
  <2>4. CASE SweepDone
    BY <1>2, <2>4 DEF SweepDone, roomVars
  <2> QED BY <1>3, <2>2, <2>3, <2>4 DEF Sweep
<1>4. ASSUME NEW c \in Clients, handle_message(c) PROVE HostFits(r)
  <2>1. CASE handle_create_room(c)
    <3> DEFINE q == Least({p \in Rooms : ~room_active[p]})
    <3>1. /\ q \in Rooms /\ ~room_active[q]
          /\ player_ids' = [player_ids EXCEPT ![q] =
                              [s \in Slots |-> IF s = 0 THEN c ELSE None]]
          /\ host_index' = [host_index EXCEPT ![q] = 0]
      <4>1. q \in {p \in Rooms : ~room_active[p]}
        BY <2>1, LeastRoom DEF handle_create_room
      <4> QED BY <2>1, <4>1 DEF handle_create_room
    <3> HIDE DEF q
    <3> QED BY <1>1, <3>1 DEF HostFits, TakenSeats, TypeOK, RoomsOK
  <2>2. ASSUME NEW q \in Rooms, handle_join_room(c, q) PROVE HostFits(r)
    <3> DEFINE s == Least(FreeSeats(q))
    <3>1. /\ player_ids' = [player_ids EXCEPT ![q][s] = c]
          /\ host_index' = [host_index EXCEPT ![q] = IF @ = None THEN s ELSE @]
      BY <2>2 DEF handle_join_room, room_join
    <3>2. c # None /\ None \notin Slots
      BY SizesAssumption DEF Clients, Slots, None
    <3> HIDE DEF s
    <3>3. ASSUME NEW h \in TakenSeats(r) PROVE player_ids'[r][h] # None
      BY <1>1, <3>1, <3>2 DEF TakenSeats, TypeOK, RoomsOK
    <3>4. host_index[r] \in TakenSeats(r) => host_index'[r] = host_index[r]
      BY <1>1, <3>1, <3>2 DEF TakenSeats, TypeOK, RoomsOK
    <3> QED BY <3>3, <3>4 DEF HostFits
  <2>3. ASSUME NEW u \in Users, login_resume(c, u) PROVE HostFits(r)
    <3> DEFINE old == Least(ScanStops(c, u))
    <3>1. player_ids' = SeatTakenOver(c, old) /\ UNCHANGED host_index
      BY <2>3 DEF login_resume
    <3> HIDE DEF old
    <3>2. c # None
      BY SizesAssumption DEF Clients, None
    <3>3. ASSUME NEW h \in TakenSeats(r) PROVE player_ids'[r][h] # None
      BY <1>1, <3>1, <3>2 DEF SeatTakenOver, TakenSeats, TypeOK, RoomsOK
    <3> QED BY <3>1, <3>3 DEF HostFits
  <2>4. CASE \/ handle_ready(c) \/ handle_start_game(c) \/ handle_pong(c)
             \/ \E cell \in Cells : handle_submit(c, cell)
             \/ handle_ready_next_round(c) \/ \E u \in Users : login_fresh(c, u)
    BY <1>2, <2>4 DEF handle_ready, handle_start_game, handle_pong, handle_submit,
                      handle_ready_next_round, login_fresh, roomVars
  <2> QED BY <1>4, <2>1, <2>2, <2>3, <2>4, LeaveHost DEF handle_message, handle_login
<1>5. CASE \/ UNCHANGED vars \/ client_accept \/ Clock \/ Tick
           \/ \E c \in Clients : ConnectionLost(c) \/ AliasedRead(c)
  BY <1>2, <1>5 DEF vars, client_accept, Clock, Tick, ConnectionLost, AliasedRead,
                    client_mark_disconnected, roomVars
<1> QED BY <1>3, <1>4, <1>5 DEF Next, Periodic

\* A host stays host while seated, through losses, resumed sessions, games and
\* the departures of others; one who leaves is replaced by an occupant, and only
\* a removal by a time-out leaves a room in use without its host.
THEOREM HostsKept == ASSUME AtTheDoor PROVE Spec => HostKept
<1>1. SeatInv /\ [Next]_vars => [\A r \in Rooms : HostFits(r)]_vars
  BY HostStep
<1>2. [\A r \in Rooms : HostFits(r)]_vars =>
        [\A r \in Rooms :
           room_active[r] /\ room_active'[r] /\ host_index[r] \in TakenSeats(r) =>
              IF player_ids'[r][host_index[r]] # None \/ phase = "sweep"
              THEN host_index'[r] = host_index[r]
              ELSE host_index'[r] \in {s \in Slots : player_ids'[r][s] # None}]_vars
  BY DEF HostFits
<1> QED BY <1>1, <1>2, SeatInvariant, PTL DEF Spec, HostKept
=============================================================================
