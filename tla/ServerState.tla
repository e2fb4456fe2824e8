---------------------------- MODULE ServerState ----------------------------
(***************************************************************************)
(* The tables of the game server (src/server/server.h): the array of       *)
(* client slots, the array of rooms with the game each room plays, and the *)
(* clock of the select() loop.  Every other module of the server extends   *)
(* this one.                                                               *)
(*                                                                         *)
(* The server is one thread: a handler runs to its end before the next     *)
(* message is read, so one handler is one action.                          *)
(*                                                                         *)
(* Time is kept as ages: the code stores the second at which something     *)
(* happened and compares now minus that second with a limit; the model     *)
(* stores the difference and stops counting when the limit is passed.      *)
(***************************************************************************)
EXTENDS Integers, FiniteSets

CONSTANTS
    MAX_CLIENTS,        \* client slots (100 in the code)
    MAX_ROOMS,          \* room slots (25)
    PLAYERS_PER_ROOM,   \* seats of a room (4)
    GAME_DURATION,      \* seconds a round may take (180)
    PING_TIMEOUT,       \* seconds without PONG that the server accepts (30)
    RECONNECT_TIMEOUT,  \* seconds a lost session waits for its user (60)
    TOTAL_ROUNDS,       \* rounds of a game (5, set by room_start_game)
    MAX_LAG,            \* bound: seconds one pass of the loop may take
    Users,              \* names with an account in users.txt
    NoUser,             \* the empty username of a connection before LOGIN
    Cells,              \* matrix coordinates a player can submit
    Origin,             \* coordinate (0,0), what memset leaves in an answer
    LoginStates,        \* client states in which a client program sends LOGIN
    FdAlias             \* TRUE if FD_ISSET(-1, _) can read a live descriptor

Clients == 0 .. MAX_CLIENTS - 1
Rooms   == 0 .. MAX_ROOMS - 1
Slots   == 0 .. PLAYERS_PER_ROOM - 1
None    == -1           \* empty seat, no room, no host

\* enum ClientState; STATE_AUTHENTICATED is declared there and never assigned.
ClientState ==
    {"CONNECTED", "IN_LOBBY", "IN_ROOM", "READY", "IN_GAME", "DISCONNECTED"}

ASSUME SizesAssumption ==
    /\ MAX_CLIENTS \in Nat \ {0}
    /\ MAX_ROOMS \in Nat \ {0}
    /\ PLAYERS_PER_ROOM \in Nat \ {0}
    /\ TOTAL_ROUNDS \in Nat \ {0}

ASSUME TimesAssumption ==
    /\ GAME_DURATION \in Nat \ {0}
    /\ PING_TIMEOUT \in Nat
    /\ RECONNECT_TIMEOUT \in Nat \ {0}
    /\ MAX_LAG \in Nat \ {0}

ASSUME InputsAssumption ==
    /\ NoUser \notin Users
    /\ Origin \in Cells
    /\ LoginStates \subseteq ClientState
    /\ FdAlias \in BOOLEAN

VARIABLES
    \* Client table: one value per slot.
    active,             \* the slot is in use
    connected,          \* socket_fd >= 0
    username,
    state,
    saved_state,        \* state before the connection was lost
    room_id,
    player_index,       \* seat in that room
    pong_age,           \* now - last_pong_time
    disconnect_age      \* now - disconnect_time
VARIABLES
    \* Room table: one value per room, seats as functions on Slots.
    room_active,
    player_ids,
    player_ready,
    player_count,
    host_index
VARIABLES
    \* The game of each room.
    game_started,
    game_elapsed,       \* now - game_start_time while a round runs, else 0
    solution,           \* coordinates of the running game's puzzle, else (0,0)
    submitted_answers,
    answer_submitted,
    current_round,
    round_continue_ready,
    waiting_for_continue,
    announced           \* how ROUND_END or GAME_END told the players that the
                        \* last round ended, "none" while one runs; no handler
                        \* reads it
VARIABLES
    \* The select() loop.
    phase,              \* "serve" reads messages, "sweep" removes the clients
                        \* that a periodic pass found silent or expired
    lag                 \* now - last_tick_time

clientVars == <<active, connected, username, state, saved_state, room_id,
                player_index, pong_age, disconnect_age>>
roomVars   == <<room_active, player_ids, player_ready, player_count, host_index>>
gameVars   == <<game_started, game_elapsed, solution, submitted_answers,
                answer_submitted, current_round, round_continue_ready,
                waiting_for_continue, announced>>
loopVars   == <<phase, lag>>
vars       == <<clientVars, roomVars, gameVars, loopVars>>

-----------------------------------------------------------------------------
\* "First free slot" loops: the least element of a nonempty set of indices.
Least(S) == CHOOSE i \in S : \A j \in S : i <= j

\* A counter that stops at its limit: later values are told apart by nothing.
Capped(n, limit) == IF n < limit THEN n ELSE limit

SeatsOf(r, c)   == {s \in Slots : player_ids[r][s] = c}
FreeSeats(r)    == {s \in Slots : player_ids[r][s] = None}
TakenSeats(r)   == {s \in Slots : player_ids[r][s] # None}
\* Occupants of room r, as the loops "for i < PLAYERS_PER_ROOM" visit them.
Seated(r)       == {c \in Clients : SeatsOf(r, c) # {}}

\* client_send goes out only on an open socket of an active slot; a message
\* for a lost session is written to descriptor -1 and lost.
Reaches(c) == active[c] /\ connected[c]

\* A message of client c is being handled: the slot is active and its socket
\* was readable in this pass of the loop.
Serving(c) == phase = "serve" /\ active[c] /\ connected[c]

\* The types of the four groups of variables.
ClientsOK ==
    /\ active \in [Clients -> BOOLEAN]
    /\ connected \in [Clients -> BOOLEAN]
    /\ username \in [Clients -> Users \cup {NoUser}]
    /\ state \in [Clients -> ClientState]
    /\ saved_state \in [Clients -> ClientState]
    /\ room_id \in [Clients -> Rooms \cup {None}]
    /\ player_index \in [Clients -> Slots \cup {None}]
    /\ pong_age \in [Clients -> 0 .. PING_TIMEOUT + 1]
    /\ disconnect_age \in [Clients -> 0 .. RECONNECT_TIMEOUT]

RoomsOK ==
    /\ room_active \in [Rooms -> BOOLEAN]
    /\ player_ids \in [Rooms -> [Slots -> Clients \cup {None}]]
    /\ player_ready \in [Rooms -> [Slots -> BOOLEAN]]
    /\ player_count \in [Rooms -> Int]
    /\ host_index \in [Rooms -> Slots \cup {None}]

GamesOK ==
    /\ game_started \in [Rooms -> BOOLEAN]
    /\ game_elapsed \in [Rooms -> 0 .. GAME_DURATION]
    /\ solution \in [Rooms -> [Slots -> Cells]]
    /\ submitted_answers \in [Rooms -> [Slots -> Cells]]
    /\ answer_submitted \in [Rooms -> [Slots -> BOOLEAN]]
    /\ current_round \in [Rooms -> Nat]
    /\ round_continue_ready \in [Rooms -> [Slots -> BOOLEAN]]
    /\ waiting_for_continue \in [Rooms -> BOOLEAN]
    /\ announced \in [Rooms -> {"none", "WIN", "LOSE"}]

LoopOK ==
    /\ phase \in {"serve", "sweep"}
    /\ lag \in 0 .. MAX_LAG

\* Type invariant: what the tables hold, and the ranges of seats, rooms and ages.
TypeOK == ClientsOK /\ RoomsOK /\ GamesOK /\ LoopOK

\* server_init: every slot and every room unused.
Init ==
    /\ active = [c \in Clients |-> FALSE]
    /\ connected = [c \in Clients |-> FALSE]
    /\ username = [c \in Clients |-> NoUser]
    /\ state = [c \in Clients |-> "CONNECTED"]
    /\ saved_state = [c \in Clients |-> "CONNECTED"]
    /\ room_id = [c \in Clients |-> None]
    /\ player_index = [c \in Clients |-> None]
    /\ pong_age = [c \in Clients |-> 0]
    /\ disconnect_age = [c \in Clients |-> RECONNECT_TIMEOUT]
    /\ room_active = [r \in Rooms |-> FALSE]
    /\ player_ids = [r \in Rooms |-> [s \in Slots |-> None]]
    /\ player_ready = [r \in Rooms |-> [s \in Slots |-> FALSE]]
    /\ player_count = [r \in Rooms |-> 0]
    /\ host_index = [r \in Rooms |-> None]
    /\ game_started = [r \in Rooms |-> FALSE]
    /\ game_elapsed = [r \in Rooms |-> 0]
    /\ solution = [r \in Rooms |-> [s \in Slots |-> Origin]]
    /\ submitted_answers = [r \in Rooms |-> [s \in Slots |-> Origin]]
    /\ answer_submitted = [r \in Rooms |-> [s \in Slots |-> FALSE]]
    /\ current_round = [r \in Rooms |-> 0]
    /\ round_continue_ready = [r \in Rooms |-> [s \in Slots |-> FALSE]]
    /\ waiting_for_continue = [r \in Rooms |-> FALSE]
    /\ announced = [r \in Rooms |-> "none"]
    /\ phase = "serve"
    /\ lag = 0
=============================================================================
