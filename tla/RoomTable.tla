----------------------------- MODULE RoomTable ------------------------------
(***************************************************************************)
(* src/server/room.c: creating, joining and leaving rooms, readiness and   *)
(* the start of a game.                                                    *)
(***************************************************************************)
EXTENDS Game

unchangedByRooms == <<active, connected, username, saved_state, pong_age,
                      disconnect_age, loopVars>>

\* Changed copy of CanJoin: a playing room lets players in.
CanJoinPlaying(r) ==
    /\ room_active[r]
    /\ player_count[r] < PLAYERS_PER_ROOM
    /\ FreeSeats(r) # {}

\* room_join's conditions: a room that exists, has a seat left and is not playing.
CanJoin(r) ==
    /\ room_active[r]
    /\ player_count[r] < PLAYERS_PER_ROOM
    /\ ~game_started[r]
    /\ FreeSeats(r) # {}

\* memset of a room: no game, every answer at (0,0), no flag set.
ZeroGame(r) ==
    /\ game_started' = [game_started EXCEPT ![r] = FALSE]
    /\ game_elapsed' = [game_elapsed EXCEPT ![r] = 0]
    /\ solution' = [solution EXCEPT ![r] = [s \in Slots |-> Origin]]
    /\ submitted_answers' = [submitted_answers EXCEPT ![r] = [s \in Slots |-> Origin]]
    /\ answer_submitted' = [answer_submitted EXCEPT ![r] = [s \in Slots |-> FALSE]]
    /\ current_round' = [current_round EXCEPT ![r] = 0]
    /\ round_continue_ready' =
         [round_continue_ready EXCEPT ![r] = [s \in Slots |-> FALSE]]
    /\ waiting_for_continue' = [waiting_for_continue EXCEPT ![r] = FALSE]
    /\ announced' = [announced EXCEPT ![r] = "none"]

\* CREATE_ROOM.  room_create zeroes the first unused room and room_join seats
\* the creator in it; every room in use refuses the request.
handle_create_room(c) ==
    /\ Serving(c)
    /\ state[c] = "IN_LOBBY"
    /\ \E r \in Rooms : ~room_active[r]
    /\ LET r == Least({q \in Rooms : ~room_active[q]})
       IN  /\ room_active' = [room_active EXCEPT ![r] = TRUE]
           /\ player_ids' = [player_ids EXCEPT ![r] =
                               [s \in Slots |-> IF s = 0 THEN c ELSE None]]
           /\ player_ready' = [player_ready EXCEPT ![r] = [s \in Slots |-> FALSE]]
           /\ player_count' = [player_count EXCEPT ![r] = 1]
           /\ host_index' = [host_index EXCEPT ![r] = 0]
           /\ ZeroGame(r)
           /\ room_id' = [room_id EXCEPT ![c] = r]
           /\ player_index' = [player_index EXCEPT ![c] = 0]
           /\ state' = [state EXCEPT ![c] = "IN_ROOM"]
    /\ UNCHANGED unchangedByRooms

\* Seat c on the first free seat of room r, which takes c as host if it has
\* none.  The seat's vote and answer flags are not touched.
room_join(r, c) ==
    LET s == Least(FreeSeats(r))
    IN  /\ CanJoin(r)
        /\ player_ids' = [player_ids EXCEPT ![r][s] = c]
        /\ player_ready' = [player_ready EXCEPT ![r][s] = FALSE]
        /\ player_count' = [player_count EXCEPT ![r] = @ + 1]
        /\ host_index' = [host_index EXCEPT ![r] = IF @ = None THEN s ELSE @]
        /\ room_id' = [room_id EXCEPT ![c] = r]
        /\ player_index' = [player_index EXCEPT ![c] = s]
        /\ state' = [state EXCEPT ![c] = "IN_ROOM"]

\* JOIN_ROOM.
handle_join_room(c, r) ==
    /\ Serving(c)
    /\ state[c] = "IN_LOBBY"
    /\ room_join(r, c)
    /\ UNCHANGED <<room_active, gameVars, unchangedByRooms>>

-----------------------------------------------------------------------------
\* Changed copy of Vacated: the seat is not cleared.
VacatedNothing(r, c) == player_ids[r]

\* The row of seats after the first seat of c has been cleared.
Vacated(r, c) ==
    IF SeatsOf(r, c) = {} THEN player_ids[r]
    ELSE [player_ids[r] EXCEPT ![Least(SeatsOf(r, c))] = None]

\* Changed copy of Evicted: any departure cleans up the room.
EvictedAlways(r, c) ==
    {k \in Clients : active[k] /\ \E s \in Slots : Vacated(r, c)[s] = k}

\* room_cleanup sends whoever is still seated back to the lobby.
Evicted(r, c) ==
    IF player_count[r] # 1 THEN {}
    ELSE {k \in Clients : active[k] /\ \E s \in Slots : Vacated(r, c)[s] = k}

\* Take c out of room r: clear its seat and ready flag, count it out, and
\* clean up a room whose count reaches zero.  c itself ends in state st and a
\* room that lives on has the given host.  Like a free slot, a room not in use
\* is read by nothing until room_create zeroes it, so it is blanked here.
RemovePlayer(r, c, st, host) ==
    LET homeless == Evicted(r, c)
    IN  /\ player_ids' = [player_ids EXCEPT ![r] = Vacated(r, c)]
        /\ player_count' = [player_count EXCEPT ![r] = @ - 1]
        /\ IF player_count[r] = 1
           THEN /\ room_active' = [room_active EXCEPT ![r] = FALSE]
                /\ player_ready' = [player_ready EXCEPT ![r] = [s \in Slots |-> FALSE]]
                /\ host_index' = [host_index EXCEPT ![r] = None]
                /\ ZeroGame(r)
           ELSE /\ player_ready' = [player_ready EXCEPT ![r] = [s \in Slots |->
                                      @[s] /\ Vacated(r, c)[s] = player_ids[r][s]]]
                /\ host_index' = [host_index EXCEPT ![r] = host]
                /\ UNCHANGED <<room_active, gameVars>>
        /\ state' = [k \in Clients |-> IF k = c THEN st
                                       ELSE IF k \in homeless THEN "IN_LOBBY"
                                       ELSE state[k]]
        /\ room_id' = [k \in Clients |-> IF k = c \/ k \in homeless
                                         THEN None ELSE room_id[k]]
        /\ player_index' = [k \in Clients |-> IF k = c \/ k \in homeless
                                              THEN None ELSE player_index[k]]

\* Changed copy of NextHost: the new host's client index instead of its seat.
NextHostClient(r, c) ==
    LET others == TakenSeats(r) \ {host_index[r]}
    IN  IF /\ SeatsOf(r, c) # {}
           /\ host_index[r] = Least(SeatsOf(r, c))
           /\ player_count[r] > 1
           /\ others # {}
        THEN player_ids[r][Least(others)] ELSE host_index[r]

\* Changed copy of NextHost: no new host is chosen, as in client_disconnect.
NextHostKept(r, c) == host_index[r]

\* The host's seat when c leaves: the first other occupant replaces it.
NextHost(r, c) ==
    LET others == TakenSeats(r) \ {host_index[r]}
    IN  IF /\ SeatsOf(r, c) # {}
           /\ host_index[r] = Least(SeatsOf(r, c))
           /\ player_count[r] > 1
           /\ others # {}
        THEN Least(others) ELSE host_index[r]

\* LEAVE_ROOM, allowed in every state of a client that has a room.  A game in
\* progress is announced as aborted (GAME_ABORTED) and is left running.
handle_leave_room(c) ==
    LET r == room_id[c]
    IN  /\ Serving(c)
        /\ r # None
        /\ RemovePlayer(r, c, "IN_LOBBY", NextHost(r, c))
        /\ UNCHANGED unchangedByRooms

-----------------------------------------------------------------------------
\* READY toggles the flag; when all seats are taken and ready the game starts.
handle_ready(c) ==
    LET r     == room_id[c]
        flags == [player_ready[r] EXCEPT ![player_index[c]] = ~@]
        st    == [state EXCEPT ![c] =
                    IF flags[player_index[c]] THEN "READY" ELSE "IN_ROOM"]
    IN  /\ Serving(c)
        /\ state[c] \in {"IN_ROOM", "READY"}
        /\ r # None
        /\ player_ready' = [player_ready EXCEPT ![r] = flags]
        /\ IF /\ player_count[r] = PLAYERS_PER_ROOM
              /\ \A s \in TakenSeats(r) : flags[s]
           THEN /\ room_start_game(r, current_round[r], st)
                /\ UNCHANGED submitted_answers
           ELSE /\ state' = st
                /\ UNCHANGED gameVars
        /\ UNCHANGED <<room_id, player_index, room_active, player_ids,
                       player_count, host_index, unchangedByRooms>>

\* START_GAME: the host starts with any number of players (the check for a
\* full room is commented out in the code).
handle_start_game(c) ==
    LET r == room_id[c]
    IN  /\ Serving(c)
        /\ state[c] \in {"IN_ROOM", "READY"}
        /\ r # None
        /\ player_index[c] = host_index[r]
        /\ player_count[r] >= 1
        /\ room_start_game(r, current_round[r], state)
        /\ UNCHANGED <<submitted_answers, room_id, player_index, roomVars,
                       unchangedByRooms>>

\* Changed copy of ChatAudience: the line goes to every client that is connected.
ChatAudienceAll(c) == {k \in Clients : Reaches(k)}

\* Who is sent a CHAT line of client c (handle_chat, room_broadcast).
ChatAudience(c) ==
    IF room_id[c] = None THEN {}
    ELSE {k \in Seated(room_id[c]) : Reaches(k)}
=============================================================================
