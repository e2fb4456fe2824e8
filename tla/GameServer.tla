----------------------------- MODULE GameServer -----------------------------
(***************************************************************************)
(* server_run of src/server/server.c: messages of the clients in any       *)
(* order, the clock, and the periodic pass (game timers, silent clients,   *)
(* expired sessions) that runs between two messages.                       *)
(***************************************************************************)
EXTENDS Sessions

\* One second passes: every age grows by one.
Clock ==
    /\ phase = "serve"
    /\ lag < MAX_LAG
    /\ lag' = lag + 1
    /\ pong_age' = [c \in Clients |->
         IF active[c] THEN Capped(pong_age[c] + 1, PING_TIMEOUT + 1) ELSE pong_age[c]]
    /\ disconnect_age' = [c \in Clients |->
         IF state[c] = "DISCONNECTED"
         THEN Capped(disconnect_age[c] + 1, RECONNECT_TIMEOUT) ELSE disconnect_age[c]]
    /\ game_elapsed' = [r \in Rooms |->
         IF game_started[r] THEN Capped(game_elapsed[r] + 1, GAME_DURATION)
         ELSE game_elapsed[r]]
    /\ UNCHANGED <<active, connected, username, state, saved_state, room_id,
                   player_index, roomVars, game_started, solution,
                   submitted_answers, answer_submitted, current_round,
                   round_continue_ready, waiting_for_continue, announced, phase>>

\* Changed copy of TimeIsUp: the clock stands still between two rounds.
TimeIsUpPlaying ==
    {r \in Rooms : /\ room_active[r] /\ game_started[r] /\ ~waiting_for_continue[r]
                   /\ game_elapsed[r] >= GAME_DURATION}

\* Rooms whose round has no time left.
TimeIsUp ==
    {r \in Rooms : room_active[r] /\ game_started[r] /\ game_elapsed[r] >= GAME_DURATION}

\* Changed copy of Silent: only clients with a connection are looked at.
SilentConnected == {c \in Clients : Reaches(c) /\ pong_age[c] > PING_TIMEOUT}

Silent  == {c \in Clients : active[c] /\ pong_age[c] > PING_TIMEOUT}
Expired == {c \in Clients : /\ active[c]
                            /\ state[c] = "DISCONNECTED"
                            /\ disconnect_age[c] >= RECONNECT_TIMEOUT}

\* The periodic pass begins, at the earliest a second after the last one, with
\* the game timers; it goes on to the sweep unless nobody is due.
Tick ==
    /\ phase = "serve"
    /\ lag >= 1
    /\ lag' = 0
    /\ phase' = IF Silent \cup Expired = {} THEN "serve" ELSE "sweep"
    /\ GamesOver(TimeIsUp)
    /\ Announce(TimeIsUp, "LOSE")
    /\ UNCHANGED <<active, connected, username, saved_state, room_id,
                   player_index, pong_age, disconnect_age, room_active,
                   player_ids, player_count, host_index, submitted_answers,
                   answer_submitted>>

\* The sweep removes one client per step: first the silent ones, in the order
\* of the slots, then the expired ones.
check_ping_timeouts ==
    /\ phase = "sweep"
    /\ Silent # {}
    /\ client_disconnect(Least(Silent))
    /\ UNCHANGED loopVars

check_reconnect_timeouts ==
    /\ phase = "sweep"
    /\ Silent = {}
    /\ Expired # {}
    /\ client_disconnect(Least(Expired))
    /\ UNCHANGED loopVars

\* The pass is over; the loop goes back to select().
SweepDone ==
    /\ phase = "sweep"
    /\ Silent = {}
    /\ Expired = {}
    /\ phase' = "serve"
    /\ UNCHANGED <<lag, clientVars, roomVars, gameVars>>

-----------------------------------------------------------------------------
\* handle_login looks at no state; that a client program offers LOGIN in
\* LoginStates only is what these modules assume of the clients.
SendsLogin(c) == state[c] \in LoginStates

\* One message of client c (handle_message).  A refused message changes
\* nothing and is no step; CHAT and LIST_ROOMS change nothing at all.
handle_message(c) ==
    \/ SendsLogin(c) /\ \E u \in Users : handle_login(c, u)
    \/ handle_create_room(c)
    \/ \E r \in Rooms : handle_join_room(c, r)
    \/ handle_leave_room(c)
    \/ handle_ready(c)
    \/ handle_start_game(c)
    \/ \E cell \in Cells : handle_submit(c, cell)
    \/ handle_pong(c)
    \/ handle_ready_next_round(c)

Sweep    == check_ping_timeouts \/ check_reconnect_timeouts \/ SweepDone
Periodic == Clock \/ Tick \/ Sweep

Next ==
    \/ client_accept
    \/ \E c \in Clients : handle_message(c) \/ ConnectionLost(c) \/ AliasedRead(c)
    \/ Periodic

\* Time passes and the loop comes around; nothing is asked of the clients.
Fairness == WF_vars(Periodic)

Spec     == Init /\ [][Next]_vars
FairSpec == Spec /\ Fairness

-----------------------------------------------------------------------------
(***************************************************************************)
(* Properties that hold.                                                   *)
(***************************************************************************)

\* The seats of the room table and the rooms of the client table are the same
\* relation: c sits at seat s of room r exactly when the active client c says
\* so (player_ids against room_id and player_index, kept by seven handlers).
SeatConsistency ==
    \A r \in Rooms, s \in Slots, c \in Clients :
        player_ids[r][s] = c <=> active[c] /\ room_id[c] = r /\ player_index[c] = s

\* player_count, which decides that a room is full, ready or empty, is the
\* number of taken seats, and a room is in use exactly while someone sits in it.
OccupancyExact ==
    \A r \in Rooms :
        /\ player_count[r] = Cardinality(TakenSeats(r))
        /\ room_active[r] <=> player_count[r] > 0

\* No two slots hold a session of the same user, lost sessions included: the
\* scan of handle_login passes over a lost session that is past its window.
SingleSession ==
    \A c, d \in Clients :
        active[c] /\ active[d] /\ username[c] = username[d] /\ c # d
            => username[c] = NoUser

\* The state a client is in, or will resume in.
Standing(c) == IF state[c] = "DISCONNECTED" THEN saved_state[c] ELSE state[c]

\* Every client, lost ones included, agrees with its room: outside any room it
\* is CONNECTED or IN_LOBBY, in a playing room it is IN_GAME, in another one it
\* is READY exactly when its seat's ready flag is set.
StateAgreement ==
    \A c \in Clients : active[c] =>
        IF room_id[c] = None THEN Standing(c) \in {"CONNECTED", "IN_LOBBY"}
        ELSE IF game_started[room_id[c]] THEN Standing(c) = "IN_GAME"
        ELSE Standing(c) = IF player_ready[room_id[c]][player_index[c]]
                           THEN "READY" ELSE "IN_ROOM"

\* A client is taken out of its room only by its own LEAVE_ROOM, by its own
\* silence or expiry, or by a LOGIN of the same user that takes the seat over:
\* never because another client leaves or is removed (room_cleanup).
OwnExitOnly ==
    [][\A c \in Clients :
         active[c] /\ room_id[c] # None /\ room_id'[c] # room_id[c] =>
            IF player_ids'[room_id[c]][player_index[c]] = None
            THEN /\ IF phase = "sweep" THEN c \in Silent \cup Expired
                    ELSE Serving(c) /\ active'[c] /\ state'[c] = "IN_LOBBY"
                 /\ \A d \in Clients \ {c} : room_id'[d] = room_id[d]
            ELSE ~connected[c] /\ ~active'[c]]_vars

\* A seat passes from one client to another only when a user resumes a lost
\* session in its window: same user, same state, and the game untouched.
SeatHandover ==
    [][\A r \in Rooms, s \in Slots :
         LET c == player_ids[r][s]
             d == player_ids'[r][s]
         IN  c # None /\ d # None /\ c # d =>
                /\ state[c] = "DISCONNECTED" /\ disconnect_age[c] < RECONNECT_TIMEOUT
                /\ username'[d] = username[c]
                /\ state'[d] = saved_state[c]
                /\ ~active'[c]
                /\ UNCHANGED <<gameVars, player_ready, player_count, host_index>>]_vars

\* current_round counts 1 .. TOTAL_ROUNDS while a game runs and is 0 otherwise;
\* a running game waits for votes exactly when its round was announced as won,
\* and never after the last one.
RoundInRange ==
    \A r \in Rooms :
        /\ current_round[r] \in IF game_started[r] THEN 1 .. TOTAL_ROUNDS ELSE {0}
        /\ game_started[r] =>
             announced[r] = IF waiting_for_continue[r] THEN "WIN" ELSE "none"
        /\ game_started[r] /\ waiting_for_continue[r] => current_round[r] < TOTAL_ROUNDS

\* A running game changes round only from a round already won, to the next one,
\* and when at most one occupant's vote was still missing (game.c:437, 623-631).
\* The documents know no vote: in SERVER_ARCHITECTURE.md:984-992 room_end_game
\* itself counts the round up and starts the next one.
RoundAdvance ==
    [][\A r \in Rooms :
         game_started[r] /\ game_started'[r] /\ current_round'[r] # current_round[r] =>
            /\ waiting_for_continue[r]
            /\ current_round'[r] = current_round[r] + 1
            /\ Cardinality({s \in TakenSeats(r) : ~round_continue_ready[r][s]}) <= 1]_vars

\* A round, the last one included, is announced as won only while it is played
\* and had time left when that was last checked, with every occupant's answer
\* of this round in hand and all four seats' answers at the solution's places;
\* the game is won with the last round and with no other.  The answer of an
\* empty seat is what it was left with (game.c:512): fewer than four can win,
\* though "WIN: if all 4 choose correctly" (HUONG_DAN_CHAY.md:275).
EarnedWin ==
    [][\A r \in Rooms :
         announced[r] # "WIN" /\ announced'[r] = "WIN" =>
            /\ game_started[r] /\ ~waiting_for_continue[r]
            /\ game_elapsed[r] < GAME_DURATION + lag
            /\ game_started'[r] <=> current_round[r] < TOTAL_ROUNDS
            /\ \A s \in TakenSeats(r) : answer_submitted'[r][s]
            /\ \A s \in Slots : submitted_answers'[r][s] = solution[r][s]]_vars

\* A running round is not begun again: until the game goes on to another round
\* or ends, its puzzle stays, its clock is not set back and no answer is
\* forgotten.  START_GAME and READY do not look at game_started; that no
\* occupant of a playing room can send them is a matter of the client states.
RoundKept ==
    [][\A r \in Rooms :
         game_started[r] /\ game_started'[r] /\ current_round'[r] = current_round[r] =>
            /\ solution'[r] = solution[r]
            /\ game_elapsed'[r] >= game_elapsed[r]
            /\ \A s \in Slots : answer_submitted[r][s] => answer_submitted'[r][s]]_vars

\* A game begins when all seats are taken and ready, when the host asks for it,
\* or, where the timer ended a won round and left its vote open, with the last
\* vote of the occupants: neither the host nor READY is asked then, though
\* README.md:160 and room.c:255 know no third way.
BegunInOrder ==
    [][\A r \in Rooms :
         ~game_started[r] /\ game_started'[r] =>
            \/ \A s \in Slots : player_ids[r][s] # None /\ player_ready'[r][s]
            \/ \E c \in Clients : /\ room_id[c] = r /\ player_index[c] = host_index[r]
                                  /\ handle_start_game(c)
            \/ /\ waiting_for_continue[r]
               /\ Cardinality({s \in TakenSeats(r) : ~round_continue_ready[r][s]}) <= 1]_vars

\* A host stays host while seated, whatever becomes of the others and of the
\* host's own connection.  One who leaves is replaced by an occupant; one who
\* is removed by a time-out is not (server.c:245), though "if the host leaves a
\* new host is chosen" (SERVER_ARCHITECTURE.md:262).
HostKept ==
    [][\A r \in Rooms :
         room_active[r] /\ room_active'[r] /\ host_index[r] \in TakenSeats(r) =>
            IF player_ids'[r][host_index[r]] # None \/ phase = "sweep"
            THEN host_index'[r] = host_index[r]
            ELSE host_index'[r] \in {s \in Slots : player_ids'[r][s] # None}]_vars

\* Nobody new sits down in a room whose game runs: a seat empty in a running
\* game stays empty until the game is over.
NoLateEntry ==
    [][\A r \in Rooms, s \in Slots :
         game_started[r] /\ game_started'[r] /\ player_ids[r][s] = None
            => player_ids'[r][s] = None]_vars

\* One message or one removal touches one room, and the periodic pass only the
\* rooms whose time is up.
RoomView(r) == <<room_active[r], player_ids[r], player_ready[r], player_count[r],
                 host_index[r], game_started[r], solution[r], submitted_answers[r],
                 answer_submitted[r], current_round[r], round_continue_ready[r],
                 waiting_for_continue[r], announced[r]>>
RoomIsolation ==
    [][\A q, r \in Rooms :
         q # r => \/ UNCHANGED RoomView(q)
                  \/ UNCHANGED RoomView(r)
                  \/ lag' < lag /\ {q, r} \subseteq TimeIsUp]_vars

\* A chat line reaches members of the sender's room and nobody else, and every
\* member with a connection ("does not leak into another room").
ChatStaysInRoom ==
    \A c, k \in Clients :
        Reaches(c) /\ room_id[c] # None =>
            (k \in ChatAudience(c) <=> Reaches(k) /\ room_id[k] = room_id[c])

\* A game that runs comes to its end, whatever its players send or fail to
\* send: the timer ends a round nobody finishes and the rounds are limited.
GameEnds == \A r \in Rooms : game_started[r] ~> ~game_started[r]

\* A slot without a connection does not stay: the session is resumed from
\* another slot or removed.
Orphaned(c) == active[c] /\ ~connected[c]
OrphanResolved == \A c \in Clients : Orphaned(c) ~> ~Orphaned(c)

\* A room whose players are all cut off is freed unless one of them returns.
Deserted(r) == room_active[r] /\ \A c \in Seated(r) : ~connected[c]
DesertedFreed == \A r \in Rooms : Deserted(r) ~> ~Deserted(r)

-----------------------------------------------------------------------------
(***************************************************************************)
(* What the documents say and the code does not do.                        *)
(***************************************************************************)

\* "Allow reconnect within 60 seconds" (server.h:28): the server removes a lost
\* session of a user only when its window is over.
ReconnectWindow ==
    [][\A c \in Clients :
         /\ active[c] /\ state[c] = "DISCONNECTED" /\ username[c] # NoUser
         /\ phase = "sweep" /\ ~active'[c]
         => disconnect_age[c] >= RECONNECT_TIMEOUT]_vars

\* "Mark client as disconnected (allow reconnect)" (server.c:190): a session
\* whose connection was lost is one that LOGIN can resume.
LostIsResumable ==
    \A c \in Clients : Orphaned(c) /\ username[c] # NoUser => state[c] = "DISCONNECTED"

\* "If game in progress, abort it" (room.c:162, server.c:239): a game that loses
\* an occupant is over.
DepartureAborts ==
    [][\A r \in Rooms, s \in Slots :
         game_started[r] /\ player_ids[r][s] # None /\ player_ids'[r][s] = None
            => ~game_started'[r]]_vars

\* "room_id: the room it is in (-1 = not in a room)" (SERVER_ARCHITECTURE.md:110):
\* whoever sits in a room has that room as its own.
RoomNamed ==
    \A r \in Rooms, s \in Slots :
        player_ids[r][s] # None => room_id[player_ids[r][s]] = r
=============================================================================
