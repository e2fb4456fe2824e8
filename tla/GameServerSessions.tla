-------------------------- MODULE GameServerSessions -------------------------
(***************************************************************************)
(* Proof of the properties of the rounds and of the sessions.              *)
(*                                                                         *)
(* The rounds: their numbers, how a round is won, who may enter.  Every    *)
(* step does one of six things to a room's game (RoundStep), and the       *)
(* properties follow from that.                                            *)
(*                                                                         *)
(* The sessions: no user has two, and every client, lost ones included,    *)
(* agrees with its room about the state it is in.                          *)
(*                                                                         *)
(* handle_login passes over a lost session that is past its window, so two *)
(* sessions of one user are excluded only because the keepalive removes a  *)
(* silent client first: a lost session sends no PONG and falls silent      *)
(* before its window closes (SilenceFirst: 30 s and one pass against 60 s  *)
(* in the code).  The theorems about sessions are for builds where         *)
(* FD_ISSET(-1, _) reads no live descriptor (~FdAlias).                    *)
(***************************************************************************)
EXTENDS GameServerSeats

\* The round of room r goes on with the same puzzle, no answer is taken back
\* and its clock is not.
Kept(r) ==
    /\ solution'[r] = solution[r]
    /\ game_elapsed'[r] >= game_elapsed[r]
    /\ \A s \in Slots : answer_submitted[r][s] => answer_submitted'[r][s]

\* Every occupant has answered, and all four answers are right.
Solved(r) ==
    /\ \A s \in TakenSeats(r) : answer_submitted'[r][s]
    /\ \A s \in Slots : submitted_answers'[r][s] = solution[r][s]

\* The game of room r is left as it is, but for time and answers.
Untouched(r) ==
    /\ game_started'[r] = game_started[r]
    /\ current_round'[r] = current_round[r]
    /\ waiting_for_continue'[r] = waiting_for_continue[r]
    /\ announced'[r] = announced[r]
    /\ Kept(r)

\* It ends and is not won, or the room is zeroed.
Finished(r) ==
    /\ ~game_started'[r] /\ current_round'[r] = 0
    /\ waiting_for_continue'[r] => waiting_for_continue[r]
    /\ announced'[r] # "WIN"

\* Whoever is needed asks for a game: all seats, or the host.
Called(r) ==
    \/ /\ player_count[r] = PLAYERS_PER_ROOM
       /\ \A s \in TakenSeats(r) : player_ready'[r][s]
    \/ \E c \in Clients : /\ room_id[c] = r /\ player_index[c] = host_index[r]
                          /\ handle_start_game(c)

\* READY or START_GAME of an occupant who is not playing: it begins, or its
\* round would be started again.
Begun(r) ==
    /\ Called(r)
    /\ \E c \in Clients : active[c] /\ room_id[c] = r /\ state[c] \in {"IN_ROOM", "READY"}
    /\ game_started'[r] /\ ~waiting_for_continue'[r] /\ announced'[r] = "none"
    /\ current_round'[r] = IF game_started[r] THEN current_round[r] ELSE 1

\* The last vote: it goes on to the next round, or begins where the timer had
\* ended it.
Continued(r) ==
    /\ game_started'[r] /\ ~waiting_for_continue'[r] /\ announced'[r] = "none"
    /\ waiting_for_continue[r]
    /\ current_round'[r] = IF game_started[r] THEN current_round[r] + 1 ELSE 1
    /\ Cardinality({s \in TakenSeats(r) : ~round_continue_ready[r][s]}) <= 1

\* The last answer wins a round before the last.
Won(r) ==
    /\ game_started[r] /\ game_started'[r]
    /\ ~waiting_for_continue[r] /\ waiting_for_continue'[r]
    /\ current_round[r] < TOTAL_ROUNDS /\ current_round'[r] = current_round[r]
    /\ announced'[r] = "WIN"
    /\ Kept(r) /\ Solved(r)

\* The last answer wins the last round, and with it the game.
Prevailed(r) ==
    /\ game_started[r] /\ ~game_started'[r]
    /\ ~waiting_for_continue[r] /\ ~waiting_for_continue'[r]
    /\ ~(current_round[r] < TOTAL_ROUNDS) /\ current_round'[r] = 0
    /\ announced'[r] = "WIN"
    /\ Solved(r)

RoundStep(r) ==
    Untouched(r) \/ Finished(r) \/ Begun(r) \/ Continued(r) \/ Won(r) \/ Prevailed(r)

\* A game plays in a room in use, and after a periodic pass it has time left.
TimeLeft ==
    \A r \in Rooms : game_started[r] =>
        room_active[r] /\ (lag = 0 => game_elapsed[r] < GAME_DURATION)

-----------------------------------------------------------------------------
\* Nothing is said of a game that a step leaves alone.
LEMMA SameGame ==
    ASSUME GamesOK, UNCHANGED gameVars, NEW r \in Rooms
    PROVE  RoundStep(r)
<1>1. game_elapsed[r] \in Int
  BY DEF GamesOK
<1> QED BY <1>1 DEF gameVars, RoundStep, Untouched, Kept

\* A zeroed room has no game; the others are left alone.
LEMMA ZeroStep ==
    ASSUME GamesOK, NEW q \in Rooms, ZeroGame(q), NEW r \in Rooms
    PROVE  RoundStep(r)
<1>1. game_elapsed[r] \in Int
  BY DEF GamesOK
<1>2. CASE r = q
  BY <1>2 DEF GamesOK, ZeroGame, RoundStep, Finished
<1>3. CASE r # q
  BY <1>1, <1>3 DEF GamesOK, ZeroGame, RoundStep, Untouched, Kept
<1> QED BY <1>2, <1>3

\* Games that end are over; the others are left alone.
LEMMA OverStep ==
    ASSUME GamesOK, NEW R, GamesOver(R), NEW told, Announce(R, told), NEW r \in Rooms,
           r \in R => told # "WIN",
           r \notin R => answer_submitted'[r] = answer_submitted[r]
    PROVE  RoundStep(r)
<1>1. game_elapsed[r] \in Int
  BY DEF GamesOK
<1>2. CASE r \in R
  BY <1>2 DEF GamesOK, GamesOver, Announce, RoundStep, Finished
<1>3. CASE r \notin R
  BY <1>1, <1>3 DEF GamesOK, GamesOver, Announce, RoundStep, Untouched, Kept
<1> QED BY <1>2, <1>3

\* Starting a round sets the number of that room's round and closes its vote.
LEMMA StartStep ==
    ASSUME GamesOK, NEW q \in Rooms, NEW k, NEW st, room_start_game(q, k, st),
           NEW r \in Rooms
    PROVE  IF r = q
           THEN /\ game_started'[r] /\ ~waiting_for_continue'[r]
                /\ announced'[r] = "none"
                /\ current_round'[r] = IF game_started[r] THEN k ELSE 1
           ELSE Untouched(r)
<1>1. game_elapsed[r] \in Int
  BY DEF GamesOK
<1>2. CASE r = q
  BY <1>2 DEF GamesOK, room_start_game
<1>3. CASE r # q
  <2>1. solution'[r] = solution[r]
    BY <1>3 DEF GamesOK, room_start_game, puzzle_generate
  <2> QED BY <1>1, <1>3, <2>1 DEF GamesOK, room_start_game, Untouched, Kept
<1> QED BY <1>2, <1>3

\* So does taking a client out of its room.
LEMMA RemoveStep ==
    ASSUME GamesOK, NEW q \in Rooms, NEW c, NEW st, NEW host,
           RemovePlayer(q, c, st, host), NEW r \in Rooms
    PROVE  RoundStep(r)
<1>1. ZeroGame(q) \/ UNCHANGED gameVars
  BY DEF RemovePlayer
<1> QED BY <1>1, ZeroStep, SameGame

\* And removing a session.
LEMMA DisconnectStep ==
    ASSUME TypeOK, NEW c \in Clients, client_disconnect(c), NEW r \in Rooms
    PROVE  RoundStep(r)
<1>1. CASE room_id[c] # None
  <2>1. room_id[c] \in Rooms
    BY <1>1 DEF TypeOK, ClientsOK
  <2> QED BY <1>1, <2>1, RemoveStep DEF client_disconnect, TypeOK
<1>2. CASE room_id[c] = None
  BY <1>2, SameGame DEF client_disconnect, TypeOK
<1> QED BY <1>1, <1>2

-----------------------------------------------------------------------------
\* SUBMIT: the round is won only with every answer given and right.
LEMMA SubmitStep ==
    ASSUME TypeOK, NEW c \in Clients, NEW cell \in Cells, handle_submit(c, cell),
           NEW r \in Rooms
    PROVE  RoundStep(r)
<1> DEFINE q       == room_id[c]
           answers == [submitted_answers[q] EXCEPT ![player_index[c]] = cell]
           given   == [answer_submitted[q] EXCEPT ![player_index[c]] = TRUE]
<1>1. q \in Rooms
  BY DEF handle_submit, TypeOK, ClientsOK
<1>2. /\ submitted_answers' = [submitted_answers EXCEPT ![q] = answers]
      /\ answer_submitted' = [answer_submitted EXCEPT ![q] = given]
      /\ \/ /\ AllAnswered(q, given)
            /\ game_started[q] /\ ~waiting_for_continue[q]
            /\ room_end_game(q, puzzle_verify_solution(q, answers))
         \/ UNCHANGED progressVars
  BY DEF handle_submit
<1>3. game_elapsed[r] \in Int
  BY DEF TypeOK, GamesOK
<1>4. \A s \in Slots : answer_submitted[r][s] => answer_submitted'[r][s]
  <2>1. \A s \in Slots : answer_submitted[q][s] => given[s]
    BY <1>1 DEF TypeOK, GamesOK, given
  <2> HIDE DEF q, given
  <2> QED BY <1>1, <1>2, <2>1 DEF TypeOK, GamesOK
<1> HIDE DEF q, answers, given
<1>5. CASE UNCHANGED progressVars
  BY <1>3, <1>4, <1>5 DEF progressVars, RoundStep, Untouched, Kept
<1>6. ASSUME r # q, room_end_game(q, puzzle_verify_solution(q, answers))
      PROVE  RoundStep(r)
  <2>1. announced'[r] = announced[r]
    BY <1>6 DEF room_end_game, Announce
  <2>2. CASE RoundWon(q)
    BY <1>3, <1>4, <1>6, <2>1, <2>2
    DEF RoundWon, RoundStep, Untouched, Kept, TypeOK, GamesOK
  <2>3. CASE GamesOver({q})
    BY <1>3, <1>4, <1>6, <2>1, <2>3
    DEF GamesOver, RoundStep, Untouched, Kept, TypeOK, GamesOK
  <2> QED BY <1>6, <2>2, <2>3 DEF room_end_game
<1>7. ASSUME r = q, AllAnswered(q, given), game_started[q], ~waiting_for_continue[q],
             room_end_game(q, puzzle_verify_solution(q, answers))
      PROVE  RoundStep(r)
  <2>1. answer_submitted'[r] = given /\ submitted_answers'[r] = answers
    BY <1>1, <1>2, <1>7 DEF TypeOK, GamesOK
  <2>2. puzzle_verify_solution(q, answers) => Solved(r)
    BY <1>7, <2>1 DEF AllAnswered, puzzle_verify_solution, TakenSeats, Solved
  <2>3. CASE ~puzzle_verify_solution(q, answers)
    <3>1. GamesOver({q}) /\ Announce({q}, "LOSE")
      BY <1>7, <2>3 DEF room_end_game
    <3> QED BY <1>7, <3>1, OverStep DEF TypeOK
  <2>4. CASE puzzle_verify_solution(q, answers) /\ current_round[q] < TOTAL_ROUNDS
    <3>1. RoundWon(q) /\ announced'[r] = "WIN"
      BY <1>1, <1>7, <2>4 DEF room_end_game, Announce
    <3>2. /\ game_started'[r] = game_started[r] /\ current_round'[r] = current_round[r]
          /\ waiting_for_continue'[r] /\ UNCHANGED <<game_elapsed, solution>>
      BY <1>1, <1>7, <3>1 DEF RoundWon, TypeOK, GamesOK
    <3> QED BY <1>3, <1>4, <1>7, <2>2, <2>4, <3>1, <3>2 DEF RoundStep, Won, Kept
  <2>5. CASE puzzle_verify_solution(q, answers) /\ ~(current_round[q] < TOTAL_ROUNDS)
    <3>1. GamesOver({q}) /\ announced'[r] = "WIN"
      BY <1>1, <1>7, <2>5 DEF room_end_game, Announce
    <3>2. /\ ~game_started'[r] /\ current_round'[r] = 0
          /\ waiting_for_continue'[r] = waiting_for_continue[r]
      BY <1>1, <1>7, <3>1 DEF GamesOver, TypeOK, GamesOK
    <3> QED BY <1>7, <2>2, <2>5, <3>1, <3>2 DEF RoundStep, Prevailed
  <2> QED BY <2>3, <2>4, <2>5
<1> QED BY <1>2, <1>5, <1>6, <1>7

\* READY_NEXT_ROUND: the vote that completes the set was the only one missing.
LEMMA VoteStep ==
    ASSUME TypeOK, NEW c \in Clients, handle_ready_next_round(c), NEW r \in Rooms
    PROVE  RoundStep(r)
<1> DEFINE q     == room_id[c]
           votes == [round_continue_ready[q] EXCEPT ![player_index[c]] = TRUE]
           open  == {s \in TakenSeats(q) : ~round_continue_ready[q][s]}
<1>1. q \in Rooms
  BY DEF handle_ready_next_round, TypeOK, ClientsOK
<1>2. CASE UNCHANGED <<game_started, current_round, waiting_for_continue, announced,
                       solution, game_elapsed, answer_submitted>>
  <2>1. game_elapsed[r] \in Int
    BY DEF TypeOK, GamesOK
  <2> QED BY <1>2, <2>1 DEF RoundStep, Untouched, Kept
<1>3. ASSUME AllVoted(q, votes), room_start_game(q, current_round[q] + 1, state)
      PROVE  RoundStep(r)
  <2>1. waiting_for_continue[q]
    BY DEF handle_ready_next_round
  <2>2. open \subseteq {player_index[c]}
    <3>1. ASSUME NEW s \in Slots, s # player_index[c]
          PROVE  votes[s] = round_continue_ready[q][s]
      BY <1>1, <3>1 DEF TypeOK, GamesOK
    <3> QED BY <1>3, <3>1 DEF AllVoted, TakenSeats
  <2>3. Cardinality(open) <= 1
    <3> HIDE DEF open
    <3>1. IsFiniteSet({player_index[c]}) /\ Cardinality({player_index[c]}) = 1
      BY FS_Singleton
    <3> QED BY <2>2, <3>1, FS_Subset
  <2> HIDE DEF votes
  <2> QED BY <1>1, <1>3, <2>1, <2>3, StartStep DEF RoundStep, Continued, TypeOK
<1> QED BY <1>2, <1>3 DEF handle_ready_next_round

\* READY and START_GAME begin the room's game, if anything.
LEMMA BeginStep ==
    ASSUME TypeOK, NEW c \in Clients, handle_ready(c) \/ handle_start_game(c),
           NEW r \in Rooms
    PROVE  RoundStep(r)
<1> DEFINE q == room_id[c]
<1>1. q \in Rooms /\ active[c] /\ state[c] \in {"IN_ROOM", "READY"}
  BY DEF handle_ready, handle_start_game, Serving, TypeOK, ClientsOK
<1>2. ASSUME NEW st, room_start_game(q, current_round[q], st), r = q => Called(r)
      PROVE  RoundStep(r)
  <2>1. r = q => \E d \in Clients :
            active[d] /\ room_id[d] = r /\ state[d] \in {"IN_ROOM", "READY"}
    BY <1>1
  <2> HIDE DEF q
  <2> QED BY <1>1, <1>2, <2>1, StartStep DEF RoundStep, Begun, TypeOK
<1>3. CASE UNCHANGED gameVars
  BY <1>3, SameGame DEF TypeOK
<1>4. CASE handle_start_game(c)
  <2>1. r = q => Called(r)
    BY <1>4 DEF handle_start_game, Called
  <2> QED BY <1>2, <1>4, <2>1 DEF handle_start_game
<1>5. CASE handle_ready(c)
  <2> DEFINE flags == [player_ready[q] EXCEPT ![player_index[c]] = ~@]
  <2>1. /\ player_ready' = [player_ready EXCEPT ![q] = flags]
        /\ IF player_count[q] = PLAYERS_PER_ROOM /\ \A s \in TakenSeats(q) : flags[s]
           THEN \E st : room_start_game(q, current_round[q], st)
           ELSE UNCHANGED gameVars
    BY <1>5 DEF handle_ready
  <2> HIDE DEF flags
  <2>2. player_ready'[q] = flags
    BY <1>1, <2>1 DEF TypeOK, RoomsOK
  <2>3. CASE player_count[q] = PLAYERS_PER_ROOM /\ \A s \in TakenSeats(q) : flags[s]
    <3>1. r = q => Called(r)
      BY <2>2, <2>3 DEF Called
    <3> HIDE DEF q
    <3> QED BY <1>2, <2>1, <2>3, <3>1
  <2> QED BY <1>3, <2>1, <2>3
<1> QED BY <1>4, <1>5

\* Each step of the server does one of the six things to each room's game.
LEMMA RoundSteps ==
    ASSUME TypeOK, [Next]_vars, NEW r \in Rooms PROVE RoundStep(r)
<1> GamesOK
  BY DEF TypeOK
<1>1. CASE UNCHANGED vars
  BY <1>1, SameGame DEF vars
<1>2. CASE client_accept
  BY <1>2, SameGame DEF client_accept
<1>3. ASSUME NEW c \in Clients, ConnectionLost(c) \/ AliasedRead(c)
      PROVE  RoundStep(r)
  BY <1>3, SameGame DEF ConnectionLost, AliasedRead, client_mark_disconnected
<1>4. ASSUME NEW c \in Clients, handle_message(c) PROVE RoundStep(r)
  <2>1. CASE \E u \in Users : handle_login(c, u)
    BY <2>1, SameGame DEF handle_login, login_fresh, login_resume
  <2>2. CASE handle_create_room(c)
    <3>1. Least({q \in Rooms : ~room_active[q]}) \in Rooms
      BY <2>2, LeastRoom DEF handle_create_room
    <3> QED BY <2>2, <3>1, ZeroStep DEF handle_create_room, TypeOK
  <2>3. CASE \E q \in Rooms : handle_join_room(c, q)
    BY <2>3, SameGame DEF handle_join_room
  <2>4. CASE handle_leave_room(c)
    <3>1. room_id[c] \in Rooms
      BY <2>4 DEF handle_leave_room, TypeOK, ClientsOK
    <3> QED BY <2>4, <3>1, RemoveStep DEF handle_leave_room, TypeOK
  <2>5. CASE handle_pong(c)
    BY <2>5, SameGame DEF handle_pong
  <2> QED BY <1>4, <2>1, <2>2, <2>3, <2>4, <2>5, BeginStep, SubmitStep, VoteStep
          DEF handle_message
<1>5. CASE Clock
  <2>1. game_elapsed[r] \in 0 .. GAME_DURATION /\ GAME_DURATION \in Nat
    BY TimesAssumption DEF GamesOK
  <2>2. game_elapsed'[r] >= game_elapsed[r]
    BY <1>5, <2>1 DEF Clock, Capped
  <2> QED BY <1>5, <2>2 DEF Clock, RoundStep, Untouched, Kept
<1>6. CASE Tick
  BY <1>6, OverStep DEF Tick, TypeOK
<1>7. CASE Sweep
  <2>1. CASE check_ping_timeouts
    <3>1. Least(Silent) \in Clients
      BY <2>1, LeastClient DEF check_ping_timeouts, Silent
    <3> QED BY <2>1, <3>1, DisconnectStep DEF check_ping_timeouts
  <2>2. CASE check_reconnect_timeouts
    <3>1. Least(Expired) \in Clients
      BY <2>2, LeastClient DEF check_reconnect_timeouts, Expired
    <3> QED BY <2>2, <3>1, DisconnectStep DEF check_reconnect_timeouts
  <2>3. CASE SweepDone
    BY <2>3, SameGame DEF SweepDone
  <2> QED BY <1>7, <2>1, <2>2, <2>3 DEF Sweep
<1> QED BY <1>1, <1>2, <1>3, <1>4, <1>5, <1>6, <1>7 DEF Next, Periodic

-----------------------------------------------------------------------------
(***************************************************************************)
(* The time of a round, and the seats of a room that plays.                *)
(***************************************************************************)

\* Someone who has a room is in a room in use.
LEMMA OwnRoomActive ==
    ASSUME SeatInv, NEW c \in Clients, active[c], room_id[c] # None
    PROVE  room_id[c] \in Rooms /\ room_active[room_id[c]]
<1>1. room_id[c] \in Rooms
  BY DEF SeatInv, TypeOK, ClientsOK
<1>2. player_index[c] \in TakenSeats(room_id[c])
  BY OwnSeat, SizesAssumption DEF SeatInv, TakenSeats, Clients, None
<1> QED BY <1>1, <1>2, UnusedIsEmpty DEF SeatInv, SeatsRight

\* A step that begins no game, and lets neither time nor a pass go by, keeps
\* the time of the games that it does not end.
LEMMA TimeKept ==
    ASSUME TimeLeft, lag' = lag,
           \A r \in Rooms : game_started'[r] =>
               /\ game_started[r]
               /\ game_elapsed'[r] = game_elapsed[r]
               /\ room_active'[r] = room_active[r]
    PROVE  TimeLeft'
  BY DEF TimeLeft

\* A round that starts has all its time.
LEMMA TimeStarts ==
    ASSUME SeatInv, TimeLeft, NEW c \in Clients, active[c], room_id[c] # None,
           NEW k, NEW st, room_start_game(room_id[c], k, st),
           UNCHANGED <<room_active, lag>>
    PROVE  TimeLeft'
<1> DEFINE q == room_id[c]
<1>1. q \in Rooms /\ room_active[q]
  BY OwnRoomActive
<1>2. \A r \in Rooms \ {q} : /\ game_started'[r] = game_started[r]
                             /\ game_elapsed'[r] = game_elapsed[r]
  BY <1>1 DEF room_start_game, SeatInv, TypeOK, GamesOK
<1>3. game_elapsed'[q] = 0
  BY <1>1 DEF room_start_game, SeatInv, TypeOK, GamesOK
<1> HIDE DEF q
<1> QED BY <1>1, <1>2, <1>3, TimesAssumption DEF TimeLeft

\* A client that leaves its room ends no other room's time.
LEMMA TimeRemoved ==
    ASSUME TypeOK, TimeLeft, NEW q \in Rooms, NEW c, NEW st, NEW host,
           RemovePlayer(q, c, st, host), lag' = lag
    PROVE  TimeLeft'
<1>1. CASE player_count[q] = 1
  <2>1. ZeroGame(q) /\ room_active' = [room_active EXCEPT ![q] = FALSE]
    BY <1>1 DEF RemovePlayer
  <2> QED BY <2>1, TimeKept DEF ZeroGame, TypeOK, RoomsOK, GamesOK
<1>2. CASE player_count[q] # 1
  BY <1>2, TimeKept DEF RemovePlayer, gameVars
<1> QED BY <1>1, <1>2

\* Nor does a session that ends.
LEMMA TimeDisconnected ==
    ASSUME TypeOK, TimeLeft, NEW c \in Clients, client_disconnect(c), lag' = lag
    PROVE  TimeLeft'
<1>1. CASE room_id[c] # None
  <2>1. room_id[c] \in Rooms
    BY <1>1 DEF TypeOK, ClientsOK
  <2> QED BY <1>1, <2>1, TimeRemoved DEF client_disconnect
<1>2. CASE room_id[c] = None
  BY <1>2, TimeKept DEF client_disconnect, roomVars, gameVars
<1> QED BY <1>1, <1>2

\* Each message keeps the time of the games.
LEMMA TimeServed ==
    ASSUME SeatInv, TimeLeft, NEW c \in Clients, handle_message(c)
    PROVE  TimeLeft'
<1>1. CASE \/ \E u \in Users : handle_login(c, u)
           \/ \E q \in Rooms : handle_join_room(c, q)
           \/ handle_pong(c)
  BY <1>1, TimeKept
  DEF handle_login, login_fresh, login_resume, handle_join_room, handle_pong,
      unchangedByRooms, roomVars, gameVars, loopVars
<1>2. CASE handle_create_room(c)
  <2> DEFINE q == Least({r \in Rooms : ~room_active[r]})
  <2>1. /\ ZeroGame(q) /\ room_active' = [room_active EXCEPT ![q] = TRUE]
        /\ lag' = lag
    BY <1>2 DEF handle_create_room, unchangedByRooms, loopVars
  <2>2. q \in Rooms
    BY <1>2, LeastRoom DEF handle_create_room
  <2> HIDE DEF q
  <2> QED BY <2>1, <2>2, TimeKept DEF ZeroGame, SeatInv, TypeOK, RoomsOK, GamesOK
<1>3. CASE handle_leave_room(c)
  <2>1. room_id[c] \in Rooms
    BY <1>3 DEF handle_leave_room, SeatInv, TypeOK, ClientsOK
  <2> QED BY <1>3, <2>1, TimeRemoved
          DEF handle_leave_room, unchangedByRooms, loopVars, SeatInv
<1>4. CASE handle_ready(c) \/ handle_start_game(c) \/ handle_ready_next_round(c)
  <2>1. /\ active[c] /\ room_id[c] # None
        /\ UNCHANGED <<room_active, lag>>
    BY <1>4 DEF handle_ready, handle_start_game, handle_ready_next_round,
                Serving, unchangedByRooms, roomVars, loopVars
  <2>2. \/ \E k, st : room_start_game(room_id[c], k, st)
        \/ UNCHANGED <<game_started, game_elapsed>>
    BY <1>4 DEF handle_ready, handle_start_game, handle_ready_next_round, gameVars
  <2> QED BY <2>1, <2>2, TimeStarts, TimeKept
<1>5. ASSUME NEW cell \in Cells, handle_submit(c, cell) PROVE TimeLeft'
  <2>1. UNCHANGED <<room_active, lag>>
    BY <1>5 DEF handle_submit, loopVars
  <2>2. \A r \in Rooms : game_started'[r] =>
            game_started[r] /\ game_elapsed'[r] = game_elapsed[r]
    <3>1. \/ \E R : GamesOver(R) 
          \/ UNCHANGED <<game_started, game_elapsed>>
      BY <1>5 DEF handle_submit, room_end_game, RoundWon, progressVars
    <3> QED BY <3>1 DEF GamesOver
  <2> QED BY <2>1, <2>2, TimeKept
<1> QED BY <1>1, <1>2, <1>3, <1>4, <1>5 DEF handle_message

\* And so does every step: a pass ends the rounds whose time is up.
LEMMA NextTime == ASSUME SeatInv, TimeLeft, [Next]_vars PROVE TimeLeft'
<1>1. CASE \/ UNCHANGED vars
           \/ client_accept
           \/ \E c \in Clients : ConnectionLost(c) \/ AliasedRead(c)
           \/ SweepDone
  BY <1>1, TimeKept
  DEF vars, client_accept, ConnectionLost, AliasedRead, client_mark_disconnected,
      SweepDone, roomVars, gameVars, loopVars
<1>2. ASSUME NEW c \in Clients, handle_message(c) PROVE TimeLeft'
  BY <1>2, TimeServed
<1>3. CASE Clock
  <2>1. lag' # 0 /\ UNCHANGED <<game_started, room_active>>
    BY <1>3 DEF Clock, roomVars, SeatInv, TypeOK, LoopOK
  <2> QED BY <2>1 DEF TimeLeft
<1>4. CASE Tick
  <2> SUFFICES ASSUME NEW r \in Rooms, game_started'[r]
               PROVE  room_active'[r] /\ game_elapsed'[r] < GAME_DURATION
    BY DEF TimeLeft
  <2>1. /\ game_started[r] /\ r \notin TimeIsUp
        /\ game_elapsed'[r] = game_elapsed[r] /\ room_active'[r] = room_active[r]
    BY <1>4 DEF Tick, GamesOver
  <2>2. game_elapsed[r] \in Int /\ GAME_DURATION \in Int
    BY TimesAssumption DEF SeatInv, TypeOK, GamesOK
  <2> QED BY <2>1, <2>2 DEF TimeIsUp, TimeLeft
<1>5. CASE check_ping_timeouts
  <2>1. Least(Silent) \in Clients
    BY <1>5, LeastClient DEF check_ping_timeouts, Silent
  <2> QED BY <1>5, <2>1, TimeDisconnected DEF check_ping_timeouts, loopVars, SeatInv
<1>6. CASE check_reconnect_timeouts
  <2>1. Least(Expired) \in Clients
    BY <1>6, LeastClient DEF check_reconnect_timeouts, Expired
  <2> QED BY <1>6, <2>1, TimeDisconnected
          DEF check_reconnect_timeouts, loopVars, SeatInv
<1> QED BY <1>1, <1>2, <1>3, <1>4, <1>5, <1>6 DEF Next, Periodic, Sweep

-----------------------------------------------------------------------------
(***************************************************************************)
(* Theorems.                                                               *)
(***************************************************************************)

\* However many rounds a game has, its round number stays in 1 .. TOTAL_ROUNDS
\* and no vote is open after its last round, the games included that the timer
\* ended while a vote was open (room_start_game, room_end_game).
THEOREM RoundsInRange == Spec => []RoundInRange
<1>1. Init => RoundInRange
  BY DEF Init, RoundInRange
<1>2. ASSUME TypeOK, RoundInRange, [Next]_vars PROVE RoundInRange'
  <2> SUFFICES ASSUME NEW r \in Rooms
               PROVE  /\ current_round'[r] \in IF game_started'[r] THEN 1 .. TOTAL_ROUNDS
                                               ELSE {0}
                      /\ game_started'[r] =>
                           announced'[r] = IF waiting_for_continue'[r] THEN "WIN" ELSE "none"
                      /\ game_started'[r] /\ waiting_for_continue'[r]
                           => current_round'[r] < TOTAL_ROUNDS
    BY DEF RoundInRange
  <2>1. /\ current_round[r] \in IF game_started[r] THEN 1 .. TOTAL_ROUNDS ELSE {0}
        /\ game_started[r] =>
             announced[r] = IF waiting_for_continue[r] THEN "WIN" ELSE "none"
        /\ game_started[r] /\ waiting_for_continue[r] => current_round[r] < TOTAL_ROUNDS
    BY <1>2 DEF RoundInRange
  <2>2. RoundStep(r)
    BY <1>2, RoundSteps
  <2> QED BY <2>1, <2>2, SizesAssumption
          DEF RoundStep, Untouched, Finished, Begun, Continued, Won, Prevailed
<1> QED BY <1>1, <1>2, TypeCorrect, PTL DEF Spec

\* A running game goes on to another round only from a round that was won, to
\* the next one, and with at most one vote still missing
\* (handle_ready_next_round), whatever the clients send.
THEOREM RoundsAdvance == Spec => RoundAdvance
<1>1. ASSUME TypeOK, [Next]_vars, NEW r \in Rooms,
             game_started[r], game_started'[r], current_round'[r] # current_round[r]
      PROVE  /\ waiting_for_continue[r]
             /\ current_round'[r] = current_round[r] + 1
             /\ Cardinality({s \in TakenSeats(r) : ~round_continue_ready[r][s]}) <= 1
  <2>1. RoundStep(r)
    BY <1>1, RoundSteps
  <2> QED BY <1>1, <2>1 DEF RoundStep, Untouched, Finished, Begun, Continued, Won, Prevailed
<1>2. TypeOK /\ [Next]_vars => [\A r \in Rooms :
         game_started[r] /\ game_started'[r] /\ current_round'[r] # current_round[r] =>
            /\ waiting_for_continue[r]
            /\ current_round'[r] = current_round[r] + 1
            /\ Cardinality({s \in TakenSeats(r) : ~round_continue_ready[r][s]}) <= 1]_vars
  BY <1>1
<1> QED BY <1>2, TypeCorrect, PTL DEF Spec, RoundAdvance

\* After a periodic pass no running game is out of time.
THEOREM TimeInHand == ASSUME AtTheDoor PROVE Spec => []TimeLeft
<1>1. Init => TimeLeft
  BY DEF Init, TimeLeft
<1>2. SeatInv /\ TimeLeft /\ [Next]_vars => TimeLeft'
  BY NextTime
<1> QED BY <1>1, <1>2, SeatInvariant, PTL DEF Spec

\* A round is won, the last one and with it the game like any other, only while
\* it is played and before its time was found to be up, with every occupant's
\* own answer of that round in hand and the answers of all four seats right
\* (handle_submit, room_end_game, the game timers of server_run), however the
\* answers, losses and passes interleave.
THEOREM WinsEarned == ASSUME AtTheDoor PROVE Spec => EarnedWin
<1>1. ASSUME TypeOK, RoundInRange, TimeLeft, [Next]_vars, NEW r \in Rooms,
             announced[r] # "WIN", announced'[r] = "WIN"
      PROVE  /\ game_started[r] /\ ~waiting_for_continue[r]
             /\ game_elapsed[r] < GAME_DURATION + lag
             /\ game_started'[r] <=> current_round[r] < TOTAL_ROUNDS
             /\ \A s \in TakenSeats(r) : answer_submitted'[r][s]
             /\ \A s \in Slots : submitted_answers'[r][s] = solution[r][s]
  <2>1. RoundStep(r)
    BY <1>1, RoundSteps
  <2>2. Won(r) \/ Prevailed(r)
    BY <1>1, <2>1 DEF RoundStep, Untouched, Finished, Begun, Continued
  <2>3. /\ game_elapsed[r] \in 0 .. GAME_DURATION
        /\ lag \in Nat /\ GAME_DURATION \in Nat
    BY <1>1, TimesAssumption DEF TypeOK, GamesOK, LoopOK
  <2>4. game_elapsed[r] < GAME_DURATION + lag
    BY <1>1, <2>2, <2>3 DEF TimeLeft, Won, Prevailed
  <2> QED BY <2>2, <2>4 DEF Won, Prevailed, Solved
<1>2. TypeOK /\ RoundInRange /\ TimeLeft /\ [Next]_vars => [\A r \in Rooms :
         announced[r] # "WIN" /\ announced'[r] = "WIN" =>
            /\ game_started[r] /\ ~waiting_for_continue[r]
            /\ game_elapsed[r] < GAME_DURATION + lag
            /\ game_started'[r] <=> current_round[r] < TOTAL_ROUNDS
            /\ \A s \in TakenSeats(r) : answer_submitted'[r][s]
            /\ \A s \in Slots : submitted_answers'[r][s] = solution[r][s]]_vars
  BY <1>1
<1> QED BY <1>2, TypeCorrect, RoundsInRange, TimeInHand, PTL DEF Spec, EarnedWin

\* A game begins only when everybody is ready, when the host asks for it or with
\* the last vote that a game ended by the timer has left open (handle_ready,
\* handle_start_game, handle_ready_next_round).
THEOREM GamesCalled == ASSUME AtTheDoor PROVE Spec => BegunInOrder
<1>1. ASSUME SeatInv, [Next]_vars, NEW r \in Rooms, ~game_started[r], game_started'[r]
      PROVE  \/ \A s \in Slots : player_ids[r][s] # None /\ player_ready'[r][s]
             \/ \E c \in Clients : /\ room_id[c] = r /\ player_index[c] = host_index[r]
                                   /\ handle_start_game(c)
             \/ /\ waiting_for_continue[r]
                /\ Cardinality({s \in TakenSeats(r) : ~round_continue_ready[r][s]}) <= 1
  <2>1. RoundStep(r) /\ r \in Rooms
    BY <1>1, RoundSteps DEF SeatInv
  <2>2. Begun(r) \/ Continued(r)
    BY <1>1, <2>1 DEF RoundStep, Untouched, Finished, Won, Prevailed
  <2>3. player_count[r] = PLAYERS_PER_ROOM => TakenSeats(r) = Slots
    <3>1. /\ IsFiniteSet(Slots) /\ Cardinality(Slots) = PLAYERS_PER_ROOM
          /\ TakenSeats(r) \subseteq Slots
      BY SizesAssumption, FS_Interval DEF Slots, TakenSeats
    <3>2. player_count[r] = Cardinality(TakenSeats(r))
      BY <1>1 DEF SeatInv, SeatsRight, OccupancyExact
    <3> QED BY <3>1, <3>2, FS_Subset
  <2>4. ASSUME Begun(r), TakenSeats(r) = Slots, \A s \in TakenSeats(r) : player_ready'[r][s]
        PROVE  \A s \in Slots : player_ids[r][s] # None /\ player_ready'[r][s]
    BY <2>4 DEF TakenSeats
  <2>5. CASE Begun(r)
    BY <2>3, <2>4, <2>5 DEF Begun, Called
  <2>6. CASE Continued(r)
    BY <2>6 DEF Continued
  <2> QED BY <2>2, <2>5, <2>6
<1>2. SeatInv /\ [Next]_vars => [\A r \in Rooms :
         ~game_started[r] /\ game_started'[r] =>
            \/ \A s \in Slots : player_ids[r][s] # None /\ player_ready'[r][s]
            \/ \E c \in Clients : /\ room_id[c] = r /\ player_index[c] = host_index[r]
                                  /\ handle_start_game(c)
            \/ /\ waiting_for_continue[r]
               /\ Cardinality({s \in TakenSeats(r) : ~round_continue_ready[r][s]}) <= 1]_vars
  BY <1>1
<1> QED BY <1>2, SeatInvariant, PTL DEF Spec, BegunInOrder

\* Nobody new sits down in a room whose game runs, by any of the four ways to a
\* seat: CREATE_ROOM, JOIN_ROOM, a resumed session and a seat left by another.
THEOREM LateEntryBarred == ASSUME AtTheDoor PROVE Spec => NoLateEntry
<1>1. ASSUME SeatInv, TimeLeft, [Next]_vars, NEW r \in Rooms, NEW s \in Slots,
             game_started[r], game_started'[r], player_ids[r][s] = None
      PROVE  player_ids'[r][s] = None
  <2>1. \/ player_ids' = player_ids
        \/ \E c \in Clients : \/ \E u \in Users : login_resume(c, u)
                              \/ handle_create_room(c)
                              \/ \E q \in Rooms : handle_join_room(c, q)
                              \/ handle_leave_room(c)
                              \/ room_id[c] # None /\ client_disconnect(c)
    <3>1. \A c : client_disconnect(c) =>
             \/ player_ids' = player_ids
             \/ room_id[c] # None /\ client_disconnect(c)
      BY DEF client_disconnect, roomVars
    <3>2. Silent # {} => Least(Silent) \in Clients
      BY LeastClient DEF Silent
    <3>3. Expired # {} => Least(Expired) \in Clients
      BY LeastClient DEF Expired
    <3>4. CASE Sweep
      BY <3>1, <3>2, <3>3, <3>4
      DEF Sweep, check_ping_timeouts, check_reconnect_timeouts, SweepDone, roomVars
    <3>5. CASE \/ UNCHANGED vars \/ client_accept \/ Clock \/ Tick
               \/ \E c \in Clients : ConnectionLost(c) \/ AliasedRead(c)
      BY <3>5 DEF vars, client_accept, Clock, Tick, ConnectionLost, AliasedRead,
                  client_mark_disconnected, roomVars
    <3>6. ASSUME NEW c \in Clients, handle_message(c)
          PROVE  \/ player_ids' = player_ids
                 \/ \E u \in Users : login_resume(c, u)
                 \/ handle_create_room(c)
                 \/ \E q \in Rooms : handle_join_room(c, q)
                 \/ handle_leave_room(c)
      BY <3>6 DEF handle_message, handle_login, login_fresh, handle_ready,
                  handle_start_game, handle_submit, handle_pong,
                  handle_ready_next_round, roomVars
    <3> QED BY <1>1, <3>4, <3>5, <3>6 DEF Next, Periodic
  <2>2. ASSUME NEW c \in Clients, NEW u \in Users, login_resume(c, u)
        PROVE  player_ids'[r][s] = None
    <3> DEFINE old == Least(ScanStops(c, u))
    <3>1. old \in Clients /\ active[old] /\ player_ids' = SeatTakenOver(c, old)
      <4>1. old \in ScanStops(c, u)
        BY <2>2, LeastClient DEF login_resume, ScanStops
      <4> QED BY <2>2, <4>1 DEF login_resume, ScanStops
    <3> HIDE DEF old
    <3>2. room_id[old] # None => player_ids[room_id[old]][player_index[old]] # None
      BY <1>1, <3>1, OwnSeat, SizesAssumption DEF SeatInv, Clients, None
    <3> QED BY <1>1, <3>1, <3>2 DEF SeatTakenOver, SeatInv, TypeOK, RoomsOK
  <2>3. ASSUME NEW c \in Clients, handle_create_room(c)
        PROVE  player_ids'[r][s] = None
    <3> DEFINE q == Least({p \in Rooms : ~room_active[p]})
    <3>1. q \in {p \in Rooms : ~room_active[p]}
      BY <2>3, LeastRoom DEF handle_create_room
    <3>2. r # q
      BY <1>1, <3>1 DEF TimeLeft
    <3> QED BY <1>1, <2>3, <3>2 DEF handle_create_room, SeatInv, TypeOK, RoomsOK
  <2>4. ASSUME NEW c \in Clients, NEW q \in Rooms, handle_join_room(c, q)
        PROVE  player_ids'[r][s] = None
    BY <1>1, <2>4 DEF handle_join_room, room_join, CanJoin, SeatInv, TypeOK, RoomsOK
  <2>5. ASSUME NEW c \in Clients, NEW st, NEW host, room_id[c] # None,
               RemovePlayer(room_id[c], c, st, host)
        PROVE  player_ids'[r][s] = None
    <3>1. room_id[c] \in Rooms
      BY <1>1, <2>5 DEF SeatInv, TypeOK, ClientsOK
    <3>2. player_ids' = [player_ids EXCEPT ![room_id[c]] = Vacated(room_id[c], c)]
      BY <2>5 DEF RemovePlayer
    <3>3. player_ids[room_id[c]] \in [Slots -> Clients \cup {None}]
      BY <1>1, <3>1 DEF SeatInv, TypeOK, RoomsOK
    <3>4. Vacated(room_id[c], c)[s] \in {None, player_ids[room_id[c]][s]}
      BY <3>3 DEF Vacated
    <3> QED BY <1>1, <3>1, <3>2, <3>4 DEF SeatInv, TypeOK, RoomsOK
  <2> QED BY <1>1, <2>1, <2>2, <2>3, <2>4, <2>5 DEF handle_leave_room, client_disconnect
<1>2. SeatInv /\ TimeLeft /\ [Next]_vars => [\A r \in Rooms, s \in Slots :
         game_started[r] /\ game_started'[r] /\ player_ids[r][s] = None
            => player_ids'[r][s] = None]_vars
  BY <1>1
<1> QED BY <1>2, SeatInvariant, TimeInHand, PTL DEF Spec, NoLateEntry

-----------------------------------------------------------------------------
(***************************************************************************)
(* The sessions.                                                           *)
(***************************************************************************)

\* A silent client is found out before the window of a lost one closes.
SilenceFirst == PING_TIMEOUT + MAX_LAG < RECONNECT_TIMEOUT

\* A client with a connection is not lost, and no lost session resumes as one.
LostAt(c) ==
    active[c] => /\ connected[c] => state[c] # "DISCONNECTED"
                 /\ saved_state[c] # "DISCONNECTED"

\* A lost session has been silent for at least as long as it has been lost.
SilentAt(c) ==
    active[c] /\ state[c] = "DISCONNECTED" =>
        /\ pong_age[c] <= PING_TIMEOUT => disconnect_age[c] <= pong_age[c]
        /\ phase = "serve" => disconnect_age[c] <= PING_TIMEOUT + lag

Silenced == \A c \in Clients : LostAt(c) /\ SilentAt(c)

\* The inductive invariant for the names.
NameInv == TypeOK /\ Silenced /\ SingleSession

-----------------------------------------------------------------------------
(***************************************************************************)
(* Names.                                                                  *)
(***************************************************************************)

\* What a step may do to a slot without disturbing the invariant: it loses no
\* connection, ages nothing and gives no name.
SlotKept(d) ==
    /\ active'[d] => active[d]
    /\ connected'[d] => connected[d]
    /\ state'[d] = state[d] \/ state'[d] # "DISCONNECTED"
    /\ active'[d] => /\ saved_state'[d] = saved_state[d]
                     /\ username'[d] = username[d]
                     /\ disconnect_age'[d] = disconnect_age[d]
                     /\ pong_age'[d] = pong_age[d]

\* Such a step, taken outside the periodic pass, keeps both parts.
LEMMA SlotsKept ==
    ASSUME NameInv, UNCHANGED loopVars, \A d \in Clients : SlotKept(d)
    PROVE  Silenced' /\ SingleSession'
<1>1. Silenced'
  <2> SUFFICES ASSUME NEW d \in Clients PROVE LostAt(d)' /\ SilentAt(d)'
    BY DEF Silenced
  <2> QED BY DEF NameInv, Silenced, SlotKept, LostAt, SilentAt, loopVars
<1>2. SingleSession'
  BY DEF NameInv, SingleSession, SlotKept
<1> QED BY <1>1, <1>2

\* Removing a client from its room leaves nobody lost who was not.
LEMMA RemovedKept ==
    ASSUME NEW q, NEW c, NEW st, NEW host, st # "DISCONNECTED",
           RemovePlayer(q, c, st, host), NEW d \in Clients
    PROVE  state'[d] = state[d] \/ state'[d] # "DISCONNECTED"
  BY DEF RemovePlayer

\* The removal of a session.
LEMMA DisconnectNames ==
    ASSUME NameInv, NEW c \in Clients, client_disconnect(c), UNCHANGED loopVars
    PROVE  Silenced' /\ SingleSession'
<1>1. ASSUME NEW d \in Clients PROVE SlotKept(d)
  <2>1. state'[d] = state[d] \/ state'[d] # "DISCONNECTED"
    BY RemovedKept DEF client_disconnect, NameInv, TypeOK, ClientsOK
  <2> QED BY <2>1 DEF client_disconnect, BlankSlot, SlotKept, NameInv, TypeOK, ClientsOK
<1> QED BY <1>1, SlotsKept

\* A connection: opened, lost.
LEMMA ConnectionNames ==
    ASSUME ~FdAlias, NameInv,
           client_accept \/ \E c \in Clients : ConnectionLost(c) \/ AliasedRead(c)
    PROVE  Silenced' /\ SingleSession'
<1>1. CASE client_accept
  <2> DEFINE c == Least({k \in Clients : ~active[k]})
  <2>1. c \in Clients /\ ~active[c]
    <3>1. c \in {k \in Clients : ~active[k]}
      BY <1>1, LeastClient DEF client_accept
    <3> QED BY <3>1
  <2>2. /\ active' = [active EXCEPT ![c] = TRUE]
        /\ connected' = [connected EXCEPT ![c] = TRUE]
        /\ state' = [state EXCEPT ![c] = "CONNECTED"]
        /\ BlankSlot(c) /\ UNCHANGED loopVars
    BY <1>1 DEF client_accept
  <2> HIDE DEF c
  <2>3. Silenced'
    <3> SUFFICES ASSUME NEW d \in Clients PROVE LostAt(d)' /\ SilentAt(d)'
      BY DEF Silenced
    <3> QED BY <2>1, <2>2 DEF BlankSlot, NameInv, TypeOK, ClientsOK, Silenced,
                              LostAt, SilentAt, loopVars
  <2>4. SingleSession'
    BY <2>1, <2>2 DEF BlankSlot, NameInv, TypeOK, ClientsOK, SingleSession
  <2> QED BY <2>3, <2>4
<1>2. ASSUME NEW c \in Clients, ConnectionLost(c) PROVE Silenced' /\ SingleSession'
  <2>1. /\ active[c] /\ connected[c]
        /\ saved_state' = [saved_state EXCEPT ![c] = state[c]]
        /\ state' = [state EXCEPT ![c] = "DISCONNECTED"]
        /\ disconnect_age' = [disconnect_age EXCEPT ![c] = 0]
        /\ connected' = [connected EXCEPT ![c] = FALSE]
        /\ UNCHANGED <<active, username, pong_age, loopVars>>
    BY <1>2 DEF ConnectionLost, Serving, client_mark_disconnected
  <2>2. Silenced'
    <3> SUFFICES ASSUME NEW d \in Clients PROVE LostAt(d)' /\ SilentAt(d)'
      BY DEF Silenced
    <3>1. pong_age[d] \in Nat /\ PING_TIMEOUT + lag >= 0
      BY TimesAssumption DEF NameInv, TypeOK, ClientsOK, LoopOK
    <3> QED BY <2>1, <3>1 DEF NameInv, TypeOK, ClientsOK, Silenced, LostAt, SilentAt,
                              loopVars
  <2>3. SingleSession'
    BY <2>1 DEF NameInv, SingleSession
  <2> QED BY <2>2, <2>3
<1>3. \A c \in Clients : ~AliasedRead(c)
  BY DEF AliasedRead
<1> QED BY <1>1, <1>2, <1>3

\* LOGIN: while messages are served every lost session is in its window, so the
\* scan misses no session of the user.
LEMMA LoginNames ==
    ASSUME SilenceFirst, NameInv, NEW c \in Clients, NEW u \in Users, handle_login(c, u)
    PROVE  Silenced' /\ SingleSession'
<1>1. active[c] /\ connected[c] /\ phase = "serve"
  BY DEF handle_login, login_fresh, login_resume, Serving
<1>2. \A k \in Clients : active[k] /\ state[k] = "DISCONNECTED" => Resumable(k)
  <2> SUFFICES ASSUME NEW k \in Clients, active[k], state[k] = "DISCONNECTED"
               PROVE  disconnect_age[k] < RECONNECT_TIMEOUT
    BY DEF Resumable
  <2>1. disconnect_age[k] <= PING_TIMEOUT + lag
    BY <1>1 DEF NameInv, Silenced, SilentAt
  <2> QED BY <2>1, TimesAssumption DEF SilenceFirst, NameInv, TypeOK, ClientsOK, LoopOK
<1>3. CASE login_fresh(c, u)
  <2>1. /\ username' = [username EXCEPT ![c] = u]
        /\ state' = [state EXCEPT ![c] = "IN_LOBBY"]
        /\ UNCHANGED <<active, connected, saved_state, pong_age, disconnect_age, loopVars>>
    BY <1>3 DEF login_fresh
  <2>2. \A k \in Clients \ {c} : active[k] => username[k] # u
    BY <1>2, <1>3 DEF login_fresh, ScanStops
  <2>3. Silenced'
    <3> SUFFICES ASSUME NEW d \in Clients PROVE LostAt(d)' /\ SilentAt(d)'
      BY DEF Silenced
    <3> QED BY <2>1 DEF NameInv, TypeOK, ClientsOK, Silenced, LostAt, SilentAt, loopVars
  <2>4. SingleSession'
    BY <2>1, <2>2 DEF NameInv, TypeOK, ClientsOK, SingleSession
  <2> QED BY <2>3, <2>4
<1>4. CASE login_resume(c, u)
  <2> DEFINE old == Least(ScanStops(c, u))
  <2>1. /\ old \in Clients /\ old # c /\ active[old] /\ username[old] = u
    <3>1. old \in ScanStops(c, u)
      BY <1>4, LeastClient DEF login_resume, ScanStops
    <3> QED BY <3>1 DEF ScanStops
  <2>2. /\ username' = [username EXCEPT ![c] = u, ![old] = NoUser]
        /\ state' = [state EXCEPT ![c] = saved_state[old], ![old] = "CONNECTED"]
        /\ active' = [active EXCEPT ![old] = FALSE]
        /\ connected' = [connected EXCEPT ![old] = FALSE]
        /\ saved_state' = [saved_state EXCEPT ![old] = "CONNECTED"]
        /\ pong_age' = [pong_age EXCEPT ![old] = 0]
        /\ disconnect_age' = [disconnect_age EXCEPT ![old] = RECONNECT_TIMEOUT]
        /\ UNCHANGED loopVars
    BY <1>4 DEF login_resume
  <2> HIDE DEF old
  <2>3. Silenced'
    <3> SUFFICES ASSUME NEW d \in Clients PROVE LostAt(d)' /\ SilentAt(d)'
      BY DEF Silenced
    <3>1. saved_state[old] # "DISCONNECTED"
      BY <2>1 DEF NameInv, Silenced, LostAt
    <3> QED BY <1>1, <2>1, <2>2, <3>1 DEF NameInv, TypeOK, ClientsOK, Silenced, LostAt,
                                          SilentAt, loopVars
  <2>4. SingleSession'
    BY <2>1, <2>2, InputsAssumption DEF NameInv, TypeOK, ClientsOK, SingleSession
  <2> QED BY <2>3, <2>4
<1> QED BY <1>3, <1>4 DEF handle_login

\* Every message.
LEMMA MessageNames ==
    ASSUME SilenceFirst, NameInv, NEW c \in Clients, handle_message(c)
    PROVE  Silenced' /\ SingleSession'
<1>1. ASSUME NEW u \in Users, handle_login(c, u) PROVE Silenced' /\ SingleSession'
  BY <1>1, LoginNames
<1>2. CASE handle_pong(c)
  <2>1. /\ active[c] /\ connected[c]
        /\ pong_age' = [pong_age EXCEPT ![c] = 0]
        /\ UNCHANGED <<active, connected, username, state, saved_state,
                       disconnect_age, loopVars>>
    BY <1>2 DEF handle_pong, Serving
  <2>2. Silenced'
    <3> SUFFICES ASSUME NEW d \in Clients PROVE LostAt(d)' /\ SilentAt(d)'
      BY DEF Silenced
    <3> QED BY <2>1 DEF NameInv, TypeOK, ClientsOK, Silenced, LostAt, SilentAt, loopVars
  <2> QED BY <2>1, <2>2 DEF NameInv, SingleSession
<1>3. ASSUME UNCHANGED <<active, connected, username, saved_state, pong_age,
                         disconnect_age, loopVars>>,
             \A d \in Clients : state'[d] = state[d] \/ state'[d] # "DISCONNECTED"
      PROVE  Silenced' /\ SingleSession'
  BY <1>3, SlotsKept DEF SlotKept
<1>4. CASE \/ handle_create_room(c) \/ \E r \in Rooms : handle_join_room(c, r)
  BY <1>3, <1>4 DEF handle_create_room, handle_join_room, room_join,
                    unchangedByRooms, NameInv, TypeOK, ClientsOK
<1>5. CASE handle_leave_room(c)
  BY <1>3, <1>5, RemovedKept DEF handle_leave_room, unchangedByRooms
<1>6. CASE handle_ready(c)
  <2> DEFINE r     == room_id[c]
             flags == [player_ready[r] EXCEPT ![player_index[c]] = ~@]
             st    == [state EXCEPT ![c] =
                         IF flags[player_index[c]] THEN "READY" ELSE "IN_ROOM"]
  <2>1. room_start_game(r, current_round[r], st) \/ state' = st
    BY <1>6 DEF handle_ready
  <2>2. \A d \in Clients : st[d] = state[d] \/ st[d] # "DISCONNECTED"
    BY DEF NameInv, TypeOK, ClientsOK
  <2> HIDE DEF r, st
  <2>3. \A d \in Clients : state'[d] = state[d] \/ state'[d] # "DISCONNECTED"
    BY <2>1, <2>2, GameStates DEF NameInv
  <2> QED BY <1>3, <1>6, <2>3 DEF handle_ready, unchangedByRooms
<1>7. CASE handle_start_game(c)
  BY <1>3, <1>7, GameStates DEF handle_start_game, unchangedByRooms, NameInv
<1>8. ASSUME NEW cell \in Cells, handle_submit(c, cell) PROVE Silenced' /\ SingleSession'
  BY <1>3, <1>8, GameStates DEF handle_submit, progressVars, NameInv
<1>9. CASE handle_ready_next_round(c)
  BY <1>3, <1>9, GameStates DEF handle_ready_next_round, NameInv
<1> QED BY <1>1, <1>2, <1>4, <1>5, <1>6, <1>7, <1>8, <1>9 DEF handle_message

\* The clock and the periodic pass, which leaves nobody silent behind it.
LEMMA PeriodicNames == ASSUME NameInv, Periodic PROVE Silenced' /\ SingleSession'
<1>1. CASE Clock
  <2>1. /\ phase = "serve" /\ phase' = phase /\ lag' = lag + 1
        /\ UNCHANGED <<active, connected, username, state, saved_state>>
    BY <1>1 DEF Clock
  <2>2. Silenced'
    <3> SUFFICES ASSUME NEW d \in Clients PROVE LostAt(d)' /\ SilentAt(d)'
      BY DEF Silenced
    <3>1. LostAt(d)'
      BY <2>1 DEF NameInv, Silenced, LostAt
    <3>2. ASSUME active[d], state[d] = "DISCONNECTED"
          PROVE  /\ pong_age'[d] <= PING_TIMEOUT => disconnect_age'[d] <= pong_age'[d]
                 /\ disconnect_age'[d] <= PING_TIMEOUT + (lag + 1)
      <4>1. /\ pong_age'[d] = Capped(pong_age[d] + 1, PING_TIMEOUT + 1)
            /\ disconnect_age'[d] = Capped(disconnect_age[d] + 1, RECONNECT_TIMEOUT)
        BY <1>1, <3>2 DEF Clock
      <4>2. /\ pong_age[d] \in Nat /\ disconnect_age[d] \in Nat /\ lag \in Nat
            /\ disconnect_age[d] <= RECONNECT_TIMEOUT
        BY DEF NameInv, TypeOK, ClientsOK, LoopOK
      <4>3. /\ pong_age[d] <= PING_TIMEOUT => disconnect_age[d] <= pong_age[d]
            /\ disconnect_age[d] <= PING_TIMEOUT + lag
        BY <2>1, <3>2 DEF NameInv, Silenced, SilentAt
      <4> QED BY <4>1, <4>2, <4>3, TimesAssumption DEF Capped
    <3> QED BY <2>1, <3>1, <3>2 DEF SilentAt
  <2> QED BY <2>1, <2>2 DEF NameInv, SingleSession
<1>2. ASSUME Silent = {}, NEW d \in Clients, active[d], state[d] = "DISCONNECTED"
      PROVE  disconnect_age[d] <= PING_TIMEOUT
  <2>1. ~(pong_age[d] > PING_TIMEOUT) /\ pong_age[d] \in Nat /\ disconnect_age[d] \in Nat
    BY <1>2 DEF Silent, NameInv, TypeOK, ClientsOK
  <2> QED BY <1>2, <2>1, TimesAssumption DEF NameInv, Silenced, SilentAt
<1>3. CASE Tick
  <2>1. /\ UNCHANGED <<active, connected, username, saved_state, pong_age, disconnect_age>>
        /\ \A d \in Clients : state'[d] = state[d] \/ state'[d] # "DISCONNECTED"
        /\ phase' = "serve" => Silent = {}
        /\ lag' = 0
    BY <1>3, GameStates DEF Tick, NameInv
  <2>2. Silenced'
    <3> SUFFICES ASSUME NEW d \in Clients PROVE LostAt(d)' /\ SilentAt(d)'
      BY DEF Silenced
    <3> QED BY <1>2, <2>1, TimesAssumption DEF NameInv, Silenced, LostAt, SilentAt
  <2> QED BY <2>1, <2>2 DEF NameInv, SingleSession
<1>4. CASE check_ping_timeouts
  <2>1. Least(Silent) \in Clients
    BY <1>4, LeastClient DEF check_ping_timeouts, Silent
  <2> QED BY <1>4, <2>1, DisconnectNames DEF check_ping_timeouts
<1>5. CASE check_reconnect_timeouts
  <2>1. Least(Expired) \in Clients
    BY <1>5, LeastClient DEF check_reconnect_timeouts, Expired
  <2> QED BY <1>5, <2>1, DisconnectNames DEF check_reconnect_timeouts
<1>6. CASE SweepDone
  <2>1. Silent = {} /\ lag' = lag /\ UNCHANGED clientVars
    BY <1>6 DEF SweepDone
  <2>2. Silenced'
    <3> SUFFICES ASSUME NEW d \in Clients PROVE LostAt(d)' /\ SilentAt(d)'
      BY DEF Silenced
    <3>1. lag \in Nat /\ disconnect_age[d] \in Nat
      BY DEF NameInv, TypeOK, LoopOK, ClientsOK
    <3> QED BY <1>2, <2>1, <3>1, TimesAssumption
            DEF clientVars, NameInv, Silenced, LostAt, SilentAt
  <2> QED BY <2>1, <2>2 DEF clientVars, NameInv, SingleSession
<1> QED BY <1>1, <1>3, <1>4, <1>5, <1>6 DEF Periodic, Sweep

-----------------------------------------------------------------------------
(***************************************************************************)
(* States.                                                                 *)
(***************************************************************************)

\* Client c agrees with its room: StateAgreement at one slot.
AgreesAt(c) == active[c] =>
    IF room_id[c] = None THEN Standing(c) \in Outside
    ELSE IF game_started[room_id[c]] THEN Standing(c) = "IN_GAME"
    ELSE Standing(c) = IF player_ready[room_id[c]][player_index[c]]
                       THEN "READY" ELSE "IN_ROOM"

\* What every step starts from.
AgreeInv == SeatInv /\ NameInv /\ StateAgreement

LEMMA AgreePointwise == StateAgreement <=> \A c \in Clients : AgreesAt(c)
  BY DEF StateAgreement, AgreesAt, Outside

\* A client that a step leaves alone, in a room whose game and whose flag for
\* this client it leaves alone.
LEMMA AgreeFrame ==
    ASSUME AgreeInv, NEW d \in Clients,
           active'[d] => active[d],
           state'[d] = state[d] /\ saved_state'[d] = saved_state[d],
           room_id'[d] = room_id[d] /\ player_index'[d] = player_index[d],
           room_id[d] # None /\ active[d] =>
               /\ game_started'[room_id[d]] = game_started[room_id[d]]
               /\ player_ready'[room_id[d]][player_index[d]] =
                    player_ready[room_id[d]][player_index[d]]
    PROVE  AgreesAt(d)'
  BY AgreePointwise DEF AgreeInv, AgreesAt, Standing

\* Two clients of one room have two seats.
LEMMA OtherSeat ==
    ASSUME SeatInv, NEW c \in Clients, NEW d \in Clients, c # d,
           active[c], active[d], room_id[c] # None, room_id[d] = room_id[c]
    PROVE  player_index[d] # player_index[c]
  BY OwnSeat DEF SeatInv

\* An active client sits in the room that it names and in no other.
LEMMA SeatedThere ==
    ASSUME SeatInv, NEW d \in Clients, active[d], NEW r \in Rooms
    PROVE  d \in Seated(r) <=> room_id[d] = r
<1>1. r # None
  BY SizesAssumption DEF Rooms, None
<1>2. room_id[d] = r => player_index[d] \in SeatsOf(r, d)
  BY <1>1, OwnSeat DEF SeatInv
<1>3. SeatsOf(r, d) # {} => room_id[d] = r
  BY DEF SeatInv, SeatsRight, SeatConsistency, SeatsOf
<1> QED BY <1>2, <1>3 DEF Seated

\* A game starts: everyone in the room is IN_GAME, nobody else is touched.
LEMMA StartAgrees ==
    ASSUME AgreeInv, NEW r \in Rooms, NEW k, NEW st, room_start_game(r, k, st),
           \A d \in Clients : active[d] /\ room_id[d] # r => st[d] = state[d],
           \A q \in Rooms : q # r => player_ready'[q] = player_ready[q],
           UNCHANGED <<active, saved_state, room_id, player_index>>
    PROVE  \A d \in Clients : AgreesAt(d)'
<1> SUFFICES ASSUME NEW d \in Clients, active[d] PROVE AgreesAt(d)'
  BY DEF AgreesAt
<1>1. state'[d] = IF d \in Seated(r) THEN "IN_GAME" ELSE st[d]
  BY DEF room_start_game
<1>2. game_started' = [game_started EXCEPT ![r] = TRUE]
  BY DEF room_start_game
<1>3. CASE room_id[d] = r
  <2>1. state'[d] = "IN_GAME"
    BY <1>1, <1>3, SeatedThere DEF AgreeInv
  <2>2. game_started'[r] /\ r # None
    BY <1>2, SizesAssumption DEF AgreeInv, SeatInv, TypeOK, GamesOK, Rooms, None
  <2> QED BY <1>3, <2>1, <2>2 DEF AgreesAt, Standing
<1>4. CASE room_id[d] # r
  <2>1. state'[d] = state[d]
    BY <1>1, <1>4, SeatedThere DEF AgreeInv
  <2>2. room_id[d] # None => room_id[d] \in Rooms
    BY DEF AgreeInv, SeatInv, TypeOK, ClientsOK
  <2> QED BY <1>2, <1>4, <2>1, <2>2, AgreeFrame DEF AgreeInv, SeatInv, TypeOK, GamesOK
<1> QED BY <1>3, <1>4

\* Games end: everyone in those rooms is IN_ROOM with no flag set.
LEMMA OverAgrees ==
    ASSUME AgreeInv, NEW R \in SUBSET Rooms, GamesOver(R),
           UNCHANGED <<active, saved_state, room_id, player_index>>
    PROVE  \A d \in Clients : AgreesAt(d)'
<1> SUFFICES ASSUME NEW d \in Clients, active[d] PROVE AgreesAt(d)'
  BY DEF AgreesAt
<1>1. state'[d] = IF \E r \in R : d \in Seated(r) THEN "IN_ROOM" ELSE state[d]
  BY DEF GamesOver
<1>2. \A r \in Rooms :
        /\ r \in R => ~game_started'[r] /\ \A s \in Slots : ~player_ready'[r][s]
        /\ r \notin R => /\ game_started'[r] = game_started[r]
                         /\ player_ready'[r] = player_ready[r]
  BY DEF GamesOver, AgreeInv, SeatInv, TypeOK, GamesOK
<1>3. CASE room_id[d] \in R
  <2>1. state'[d] = "IN_ROOM"
    BY <1>1, <1>3, SeatedThere DEF AgreeInv
  <2>2. room_id[d] # None /\ player_index[d] \in Slots
    BY <1>3, OwnSeat, SizesAssumption DEF AgreeInv, SeatInv, Rooms, None
  <2> QED BY <1>2, <1>3, <2>1, <2>2 DEF AgreesAt, Standing
<1>4. CASE room_id[d] \notin R
  <2>1. state'[d] = state[d]
    BY <1>1, <1>4, SeatedThere DEF AgreeInv
  <2>2. room_id[d] # None => room_id[d] \in Rooms
    BY DEF AgreeInv, SeatInv, TypeOK, ClientsOK
  <2> QED BY <1>2, <1>4, <2>1, <2>2, AgreeFrame
<1> QED BY <1>3, <1>4

\* A client leaves its room, with or without its slot; the others keep their
\* states and their flags.
LEMMA LeaveAgrees ==
    ASSUME AgreeInv, NEW c \in Clients, active[c], room_id[c] # None,
           NEW st \in Outside, NEW host, RemovePlayer(room_id[c], c, st, host),
           UNCHANGED active \/ active' = [active EXCEPT ![c] = FALSE],
           \A d \in Clients : d # c => saved_state'[d] = saved_state[d]
    PROVE  \A d \in Clients : AgreesAt(d)'
<1>1. PICK r, s : r = room_id[c] /\ s = player_index[c]
  OBVIOUS
<1>2. /\ r \in Rooms /\ s \in Slots
      /\ Vacated(r, c) = [player_ids[r] EXCEPT ![s] = None] /\ Evicted(r, c) = {}
  BY <1>1, OwnSeat, Departure DEF AgreeInv, SeatInv, TypeOK, ClientsOK
<1>3. RemovePlayer(r, c, st, host)
  BY <1>1
<1>4. /\ room_id' = [room_id EXCEPT ![c] = None]
      /\ state' = [state EXCEPT ![c] = st]
  BY <1>2, <1>3 DEF RemovePlayer, AgreeInv, SeatInv, TypeOK, ClientsOK
<1> SUFFICES ASSUME NEW d \in Clients PROVE AgreesAt(d)'
  OBVIOUS
<1>5. CASE d = c
  BY <1>4, <1>5
  DEF AgreesAt, Standing, Outside, AgreeInv, SeatInv, TypeOK, ClientsOK
<1>6. CASE d # c /\ active[d]
  <2>1. /\ room_id'[d] = room_id[d] /\ state'[d] = state[d]
        /\ player_index'[d] = player_index[d]
    BY <1>1, <1>2, <1>3, <1>4, <1>6 DEF RemovePlayer, AgreeInv, SeatInv, TypeOK, ClientsOK
  <2>2. ASSUME room_id[d] = r
        PROVE  /\ game_started'[r] = game_started[r]
               /\ player_ready'[r][player_index[d]] = player_ready[r][player_index[d]]
    <3>1. /\ player_index[d] \in Slots /\ player_index[d] # s
          /\ player_ids[r][player_index[d]] = d
      BY <1>1, <1>6, <2>2, OtherSeat, OwnSeat DEF AgreeInv, SeatInv
    <3>2. Vacated(r, c)[player_index[d]] = d
      BY <1>2, <3>1 DEF AgreeInv, SeatInv, TypeOK, RoomsOK
    <3>3. player_count[r] # 1
      BY <1>2, <1>6, <3>1, <3>2 DEF Evicted
    <3>4. /\ UNCHANGED game_started
          /\ player_ready' = [player_ready EXCEPT ![r] = [k \in Slots |->
                                @[k] /\ Vacated(r, c)[k] = player_ids[r][k]]]
      BY <1>3, <3>3 DEF RemovePlayer, gameVars
    <3> QED BY <1>2, <3>1, <3>2, <3>4 DEF AgreeInv, SeatInv, TypeOK, RoomsOK
  <2>3. ASSUME room_id[d] # r, room_id[d] # None
        PROVE  /\ game_started'[room_id[d]] = game_started[room_id[d]]
               /\ player_ready'[room_id[d]] = player_ready[room_id[d]]
    <3>1. room_id[d] \in Rooms
      BY <2>3 DEF AgreeInv, SeatInv, TypeOK, ClientsOK
    <3>2. \/ UNCHANGED game_started
          \/ game_started' = [game_started EXCEPT ![r] = FALSE]
      BY <1>3 DEF RemovePlayer, ZeroGame, gameVars
    <3>3. \E flags : player_ready' = [player_ready EXCEPT ![r] = flags]
      BY <1>3 DEF RemovePlayer
    <3> QED BY <2>3, <3>1, <3>2, <3>3 DEF AgreeInv, SeatInv, TypeOK, GamesOK, RoomsOK
  <2> QED BY <1>6, <2>1, <2>2, <2>3, AgreeFrame
<1>7. CASE d # c /\ ~active[d]
  BY <1>7 DEF AgreesAt, AgreeInv, SeatInv, TypeOK, ClientsOK
<1> QED BY <1>5, <1>6, <1>7

\* Connections and logins.
LEMMA DoorAgrees ==
    ASSUME AtTheDoor, ~FdAlias, AgreeInv,
           \/ client_accept
           \/ \E c \in Clients : \/ ConnectionLost(c) \/ AliasedRead(c)
                                 \/ SendsLogin(c) /\ \E u \in Users : handle_login(c, u)
    PROVE  \A d \in Clients : AgreesAt(d)'
<1>1. CASE client_accept
  <2> DEFINE c == Least({k \in Clients : ~active[k]})
  <2>1. c \in {k \in Clients : ~active[k]}
    BY <1>1, LeastClient DEF client_accept
  <2>2. /\ active' = [active EXCEPT ![c] = TRUE]
        /\ state' = [state EXCEPT ![c] = "CONNECTED"]
        /\ saved_state' = [saved_state EXCEPT ![c] = "CONNECTED"]
        /\ room_id' = [room_id EXCEPT ![c] = None]
        /\ player_index' = [player_index EXCEPT ![c] = None]
        /\ UNCHANGED <<game_started, player_ready>>
    BY <1>1 DEF client_accept, BlankSlot, roomVars, gameVars
  <2> HIDE DEF c
  <2> SUFFICES ASSUME NEW d \in Clients PROVE AgreesAt(d)'
    OBVIOUS
  <2>3. CASE d = c
    BY <2>1, <2>2, <2>3
    DEF AgreesAt, Standing, Outside, AgreeInv, SeatInv, TypeOK, ClientsOK
  <2>4. CASE d # c
    BY <2>1, <2>2, <2>4, AgreeFrame DEF AgreeInv, SeatInv, TypeOK, ClientsOK
  <2> QED BY <2>3, <2>4
<1>2. ASSUME NEW c \in Clients, ConnectionLost(c), NEW d \in Clients PROVE AgreesAt(d)'
  <2>1. /\ active[c] /\ connected[c]
        /\ saved_state' = [saved_state EXCEPT ![c] = state[c]]
        /\ state' = [state EXCEPT ![c] = "DISCONNECTED"]
        /\ UNCHANGED <<active, room_id, player_index, game_started, player_ready>>
    BY <1>2 DEF ConnectionLost, Serving, client_mark_disconnected, roomVars, gameVars
  <2>2. CASE d = c
    <3>1. state[c] # "DISCONNECTED"
      BY <2>1 DEF AgreeInv, NameInv, Silenced, LostAt
    <3>2. Standing(c)' = Standing(c)
      BY <2>1, <3>1 DEF Standing, AgreeInv, SeatInv, TypeOK, ClientsOK
    <3> QED BY <2>1, <2>2, <3>2, AgreePointwise DEF AgreesAt, AgreeInv
  <2>3. CASE d # c
    BY <2>1, <2>3, AgreeFrame DEF AgreeInv, SeatInv, TypeOK, ClientsOK
  <2> QED BY <2>2, <2>3
<1>3. \A c \in Clients : ~AliasedRead(c)
  BY DEF AliasedRead
<1>4. ASSUME NEW c \in Clients, SendsLogin(c), NEW u \in Users, handle_login(c, u),
             NEW d \in Clients
      PROVE  AgreesAt(d)'
  <2>1. active[c] /\ room_id[c] = None
    BY <1>4 DEF handle_login, login_fresh, login_resume, SendsLogin, Serving, AtTheDoor,
                AgreeInv, SeatInv, Roomless, RoomlessAt
  <2>2. UNCHANGED <<game_started, player_ready>>
    BY <1>4 DEF handle_login, login_fresh, login_resume, roomVars, gameVars
  <2>3. CASE login_fresh(c, u)
    <3>1. /\ state' = [state EXCEPT ![c] = "IN_LOBBY"]
          /\ UNCHANGED <<active, saved_state, room_id, player_index>>
      BY <2>3 DEF login_fresh
    <3>2. CASE d = c
      BY <2>1, <3>1, <3>2
      DEF AgreesAt, Standing, Outside, AgreeInv, SeatInv, TypeOK, ClientsOK
    <3>3. CASE d # c
      BY <2>2, <3>1, <3>3, AgreeFrame DEF AgreeInv, SeatInv, TypeOK, ClientsOK
    <3> QED BY <3>2, <3>3
  <2>4. CASE login_resume(c, u)
    <3> DEFINE old == Least(ScanStops(c, u))
    <3>1. old \in Clients /\ old # c /\ active[old]
      <4>1. old \in ScanStops(c, u)
        BY <2>4, LeastClient DEF login_resume, ScanStops
      <4> QED BY <4>1 DEF ScanStops
    <3>2. /\ state[old] = "DISCONNECTED"
          /\ state' = [state EXCEPT ![c] = saved_state[old], ![old] = "CONNECTED"]
          /\ room_id' = [room_id EXCEPT ![c] = room_id[old], ![old] = None]
          /\ player_index' =
               [player_index EXCEPT ![c] = player_index[old], ![old] = None]
          /\ active' = [active EXCEPT ![old] = FALSE]
          /\ saved_state' = [saved_state EXCEPT ![old] = "CONNECTED"]
      BY <2>4 DEF login_resume, Resumable
    <3> HIDE DEF old
    <3>3. CASE d = c
      <4>1. saved_state[old] # "DISCONNECTED"
        BY <3>1 DEF AgreeInv, NameInv, Silenced, LostAt
      <4>2. /\ Standing(c)' = Standing(old)
            /\ room_id'[c] = room_id[old] /\ player_index'[c] = player_index[old]
        BY <3>1, <3>2, <4>1 DEF Standing, AgreeInv, SeatInv, TypeOK, ClientsOK
      <4> QED BY <2>2, <3>1, <3>3, <4>2, AgreePointwise DEF AgreesAt, AgreeInv
    <3>4. CASE d = old
      BY <3>1, <3>2, <3>4 DEF AgreesAt, AgreeInv, SeatInv, TypeOK, ClientsOK
    <3>5. CASE d # c /\ d # old
      BY <2>2, <3>1, <3>2, <3>5, AgreeFrame DEF AgreeInv, SeatInv, TypeOK, ClientsOK
    <3> QED BY <3>3, <3>4, <3>5
  <2> QED BY <1>4, <2>3, <2>4 DEF handle_login
<1> QED BY <1>1, <1>2, <1>3, <1>4

\* CREATE_ROOM and JOIN_ROOM: a free seat, its flag down, in a room not playing.
LEMMA SitAgrees ==
    ASSUME AgreeInv, NEW c \in Clients,
           handle_create_room(c) \/ \E r \in Rooms : handle_join_room(c, r)
    PROVE  \A d \in Clients : AgreesAt(d)'
<1> SUFFICES ASSUME NEW d \in Clients PROVE AgreesAt(d)'
  OBVIOUS
<1>1. CASE handle_create_room(c)
  <2> DEFINE r == Least({q \in Rooms : ~room_active[q]})
  <2>1. r \in {q \in Rooms : ~room_active[q]}
    BY <1>1, LeastRoom DEF handle_create_room
  <2>2. /\ player_ready' = [player_ready EXCEPT ![r] = [s \in Slots |-> FALSE]]
        /\ game_started' = [game_started EXCEPT ![r] = FALSE]
        /\ room_id' = [room_id EXCEPT ![c] = r]
        /\ player_index' = [player_index EXCEPT ![c] = 0]
        /\ state' = [state EXCEPT ![c] = "IN_ROOM"]
        /\ UNCHANGED <<active, saved_state>>
    BY <1>1 DEF handle_create_room, ZeroGame, unchangedByRooms
  <2> HIDE DEF r
  <2>3. CASE d = c
    <3>1. /\ room_id'[c] = r /\ player_index'[c] = 0 /\ 0 \in Slots
          /\ ~game_started'[r] /\ ~player_ready'[r][0] /\ state'[c] = "IN_ROOM"
          /\ r # None
      BY <2>1, <2>2, SizesAssumption DEF AgreeInv, SeatInv, TypeOK, ClientsOK, RoomsOK,
                                         GamesOK, Slots, Rooms, None
    <3> QED BY <2>3, <3>1 DEF AgreesAt, Standing
  <2>4. CASE d # c
    <3>1. active[d] /\ room_id[d] # None => room_id[d] \in Rooms /\ room_id[d] # r
      BY <2>1, OwnRoomActive DEF AgreeInv
    <3> QED BY <2>2, <2>4, <3>1, AgreeFrame DEF AgreeInv, SeatInv, TypeOK, ClientsOK,
                                                RoomsOK, GamesOK
  <2> QED BY <2>3, <2>4
<1>2. ASSUME NEW r \in Rooms, handle_join_room(c, r) PROVE AgreesAt(d)'
  <2> DEFINE s == Least(FreeSeats(r))
  <2>1. s \in FreeSeats(r) /\ ~game_started[r]
    BY <1>2, LeastSlot DEF handle_join_room, room_join, CanJoin, FreeSeats
  <2>2. /\ player_ready' = [player_ready EXCEPT ![r][s] = FALSE]
        /\ room_id' = [room_id EXCEPT ![c] = r]
        /\ player_index' = [player_index EXCEPT ![c] = s]
        /\ state' = [state EXCEPT ![c] = "IN_ROOM"]
        /\ UNCHANGED <<active, saved_state, game_started>>
    BY <1>2 DEF handle_join_room, room_join, unchangedByRooms, gameVars
  <2> HIDE DEF s
  <2>3. s \in Slots /\ player_ids[r][s] = None /\ r # None
    BY <2>1, SizesAssumption DEF FreeSeats, Rooms, None
  <2>4. CASE d = c
    <3>1. /\ room_id'[c] = r /\ player_index'[c] = s /\ ~player_ready'[r][s]
          /\ state'[c] = "IN_ROOM"
      BY <2>2, <2>3 DEF AgreeInv, SeatInv, TypeOK, ClientsOK, RoomsOK
    <3> QED BY <2>1, <2>2, <2>3, <2>4, <3>1 DEF AgreesAt, Standing
  <2>5. CASE d # c
    <3>1. active[d] /\ room_id[d] # None =>
             /\ room_id[d] \in Rooms /\ player_index[d] \in Slots
             /\ player_ids[room_id[d]][player_index[d]] = d /\ d # None
      BY OwnSeat, SizesAssumption DEF AgreeInv, SeatInv, TypeOK, ClientsOK, Clients, None
    <3> QED BY <2>2, <2>3, <2>5, <3>1, AgreeFrame
            DEF AgreeInv, SeatInv, TypeOK, ClientsOK, RoomsOK
  <2> QED BY <2>4, <2>5
<1> QED BY <1>1, <1>2

\* READY: the flag and the state change together, or the game starts.
LEMMA ReadyAgrees ==
    ASSUME AgreeInv, NEW c \in Clients, handle_ready(c)
    PROVE  \A d \in Clients : AgreesAt(d)'
<1> DEFINE r     == room_id[c]
           p     == player_index[c]
           flags == [player_ready[r] EXCEPT ![p] = ~@]
           st    == [state EXCEPT ![c] = IF flags[p] THEN "READY" ELSE "IN_ROOM"]
<1>1. /\ active[c] /\ r # None /\ state[c] \in {"IN_ROOM", "READY"}
      /\ player_ready' = [player_ready EXCEPT ![r] = flags]
      /\ \/ room_start_game(r, current_round[r], st)
         \/ state' = st /\ UNCHANGED gameVars
      /\ UNCHANGED <<active, saved_state, room_id, player_index>>
  <2>1. /\ active[c] /\ r # None /\ state[c] \in {"IN_ROOM", "READY"}
        /\ player_ready' = [player_ready EXCEPT ![r] = flags]
        /\ UNCHANGED <<active, saved_state, room_id, player_index>>
    BY DEF handle_ready, Serving, unchangedByRooms
  <2>2. \/ room_start_game(r, current_round[r], st)
        \/ state' = st /\ UNCHANGED gameVars
    BY DEF handle_ready
  <2> QED BY <2>1, <2>2
<1>2. r \in Rooms /\ p \in Slots
  BY <1>1, OwnSeat DEF AgreeInv, SeatInv, TypeOK, ClientsOK
<1>3. \A d \in Clients : d # c => st[d] = state[d]
  BY DEF AgreeInv, SeatInv, TypeOK, ClientsOK
<1>4. st[c] = IF flags[p] THEN "READY" ELSE "IN_ROOM"
  BY DEF AgreeInv, SeatInv, TypeOK, ClientsOK
<1>5. ASSUME NEW k \in Slots, k # p PROVE flags[k] = player_ready[r][k]
  BY <1>2, <1>5 DEF AgreeInv, SeatInv, TypeOK, RoomsOK
<1>6. player_ready'[r] = flags /\ \A q \in Rooms : q # r => player_ready'[q] = player_ready[q]
  BY <1>1, <1>2 DEF AgreeInv, SeatInv, TypeOK, RoomsOK
<1>7. ~game_started[r]
  BY <1>1, AgreePointwise DEF AgreeInv, AgreesAt, Standing
<1> HIDE DEF r, p, flags, st
<1>8. CASE room_start_game(r, current_round[r], st)
  BY <1>1, <1>2, <1>3, <1>6, <1>8, StartAgrees DEF r
<1>9. CASE state' = st /\ UNCHANGED gameVars
  <2> SUFFICES ASSUME NEW d \in Clients, active[d] PROVE AgreesAt(d)'
    BY <1>1 DEF AgreesAt
  <2>1. CASE d = c
    BY <1>1, <1>4, <1>6, <1>7, <1>9, <2>1 DEF r, p, AgreesAt, Standing, gameVars
  <2>2. CASE d # c
    <3>1. room_id[d] = r => player_index[d] # p /\ player_index[d] \in Slots
      BY <1>1, <2>2, OtherSeat, OwnSeat DEF r, p, AgreeInv, SeatInv
    <3>2. room_id[d] # None => room_id[d] \in Rooms
      BY DEF AgreeInv, SeatInv, TypeOK, ClientsOK
    <3> QED BY <1>1, <1>3, <1>5, <1>6, <1>9, <2>2, <3>1, <3>2, AgreeFrame DEF gameVars
  <2> QED BY <2>1, <2>2
<1> QED BY <1>1, <1>8, <1>9

\* Every step.
LEMMA NextAgrees ==
    ASSUME AtTheDoor, ~FdAlias, AgreeInv, [Next]_vars PROVE StateAgreement'
<1> SUFFICES \A d \in Clients : AgreesAt(d)'
  BY AgreePointwise DEF StateAgreement, AgreesAt, Outside, Standing
<1>1. ASSUME UNCHANGED <<active, state, saved_state, room_id, player_index,
                         game_started, player_ready>>
      PROVE  \A d \in Clients : AgreesAt(d)'
  BY <1>1, AgreeFrame
<1>2. CASE \/ client_accept
           \/ \E c \in Clients : \/ ConnectionLost(c) \/ AliasedRead(c)
                                 \/ SendsLogin(c) /\ \E u \in Users : handle_login(c, u)
  BY <1>2, DoorAgrees
<1>3. ASSUME NEW c \in Clients,
             handle_create_room(c) \/ \E r \in Rooms : handle_join_room(c, r)
      PROVE  \A d \in Clients : AgreesAt(d)'
  BY <1>3, SitAgrees
<1>4. ASSUME NEW c \in Clients, handle_leave_room(c)
      PROVE  \A d \in Clients : AgreesAt(d)'
  <2>1. /\ active[c] /\ room_id[c] # None
        /\ RemovePlayer(room_id[c], c, "IN_LOBBY", NextHost(room_id[c], c))
        /\ UNCHANGED <<active, saved_state>>
    BY <1>4 DEF handle_leave_room, Serving, unchangedByRooms
  <2>2. "IN_LOBBY" \in Outside
    BY DEF Outside
  <2> QED BY <2>1, <2>2, LeaveAgrees
<1>5. ASSUME NEW c \in Clients, handle_ready(c) PROVE \A d \in Clients : AgreesAt(d)'
  BY <1>5, ReadyAgrees
<1>6. ASSUME NEW c \in Clients,
             \/ handle_start_game(c)
             \/ \E cell \in Cells : handle_submit(c, cell)
             \/ handle_ready_next_round(c)
      PROVE  \A d \in Clients : AgreesAt(d)'
  <2>1. /\ room_id[c] \in Rooms
        /\ UNCHANGED <<active, saved_state, room_id, player_index>>
    BY <1>6 DEF handle_start_game, handle_submit, handle_ready_next_round,
                unchangedByRooms, AgreeInv, SeatInv, TypeOK, ClientsOK
  <2>2. \/ UNCHANGED <<state, game_started, player_ready>>
        \/ GamesOver({room_id[c]})
        \/ /\ \E k : room_start_game(room_id[c], k, state)
           /\ UNCHANGED player_ready
    BY <1>6 DEF handle_start_game, handle_submit, handle_ready_next_round,
                room_end_game, RoundWon, progressVars, roomVars
  <2> QED BY <1>1, <2>1, <2>2, OverAgrees, StartAgrees
<1>7. ASSUME NEW c \in Clients, active[c], client_disconnect(c)
      PROVE  \A d \in Clients : AgreesAt(d)'
  <2>1. /\ active' = [active EXCEPT ![c] = FALSE]
        /\ \A d \in Clients : d # c => saved_state'[d] = saved_state[d]
    BY <1>7 DEF client_disconnect, BlankSlot, AgreeInv, SeatInv, TypeOK, ClientsOK
  <2>2. CASE room_id[c] # None
    <3>1. RemovePlayer(room_id[c], c, "CONNECTED", host_index[room_id[c]])
      BY <1>7, <2>2 DEF client_disconnect
    <3>2. "CONNECTED" \in Outside
      BY DEF Outside
    <3> QED BY <1>7, <2>1, <2>2, <3>1, <3>2, LeaveAgrees
  <2>3. CASE room_id[c] = None
    <3>1. /\ state' = [state EXCEPT ![c] = "CONNECTED"]
          /\ player_index' = [player_index EXCEPT ![c] = None]
          /\ UNCHANGED <<room_id, game_started, player_ready>>
      BY <1>7, <2>3 DEF client_disconnect, roomVars, gameVars
    <3> SUFFICES ASSUME NEW d \in Clients PROVE AgreesAt(d)'
      OBVIOUS
    <3>2. CASE d = c
      BY <2>1, <3>2 DEF AgreesAt, AgreeInv, SeatInv, TypeOK, ClientsOK
    <3>3. CASE d # c
      BY <2>1, <3>1, <3>3, AgreeFrame DEF AgreeInv, SeatInv, TypeOK, ClientsOK
    <3> QED BY <3>2, <3>3
  <2> QED BY <2>2, <2>3
<1>8. CASE Tick
  <2>1. TimeIsUp \subseteq Rooms
    BY DEF TimeIsUp
  <2> QED BY <1>8, <2>1, OverAgrees DEF Tick
<1>9. CASE Sweep
  <2>1. Silent # {} => Least(Silent) \in Clients /\ active[Least(Silent)]
    <3>1. Silent # {} => Least(Silent) \in Silent
      BY LeastClient DEF Silent
    <3> QED BY <3>1 DEF Silent
  <2>2. Expired # {} => Least(Expired) \in Clients /\ active[Least(Expired)]
    <3>1. Expired # {} => Least(Expired) \in Expired
      BY LeastClient DEF Expired
    <3> QED BY <3>1 DEF Expired
  <2> QED BY <1>1, <1>7, <1>9, <2>1, <2>2
          DEF Sweep, check_ping_timeouts, check_reconnect_timeouts, SweepDone,
              clientVars, roomVars, gameVars
<1>10. CASE UNCHANGED vars \/ Clock \/ \E c \in Clients : handle_pong(c)
  BY <1>1, <1>10 DEF vars, Clock, handle_pong, clientVars, roomVars, gameVars
<1> QED BY <1>2, <1>3, <1>4, <1>5, <1>6, <1>8, <1>9, <1>10
        DEF Next, handle_message, Periodic

-----------------------------------------------------------------------------
(***************************************************************************)
(* Theorems.                                                               *)
(***************************************************************************)

\* The inductive invariant for the names holds in every reachable state.
THEOREM NameInvariant == ASSUME SilenceFirst, ~FdAlias PROVE Spec => []NameInv
<1>1. Init => NameInv
  <2>1. Init => Silenced /\ SingleSession
    BY DEF Init, Silenced, LostAt, SilentAt, SingleSession
  <2> QED BY <2>1, InitTypes DEF NameInv
<1>2. ASSUME NameInv, [Next]_vars PROVE NameInv'
  <2>1. TypeOK'
    BY <1>2, NextTypes DEF NameInv
  <2>2. CASE UNCHANGED vars
    BY <1>2, <2>1, <2>2
    DEF vars, clientVars, loopVars, NameInv, Silenced, LostAt, SilentAt, SingleSession
  <2>3. CASE client_accept \/ \E c \in Clients : ConnectionLost(c) \/ AliasedRead(c)
    BY <1>2, <2>1, <2>3, ConnectionNames DEF NameInv
  <2>4. ASSUME NEW c \in Clients, handle_message(c) PROVE NameInv'
    BY <1>2, <2>1, <2>4, MessageNames DEF NameInv
  <2>5. CASE Periodic
    BY <1>2, <2>1, <2>5, PeriodicNames DEF NameInv
  <2> QED BY <1>2, <2>2, <2>3, <2>4, <2>5 DEF Next
<1> QED BY <1>1, <1>2, PTL DEF Spec

\* No user ever has two sessions, lost ones included, although the scan of
\* handle_login passes over a lost session past its window: none gets there.
THEOREM SessionsSingle ==
    ASSUME SilenceFirst, ~FdAlias PROVE Spec => []SingleSession
<1>1. NameInv => SingleSession
  BY DEF NameInv
<1> QED BY <1>1, NameInvariant, PTL

\* Every client agrees with its room about the state it is in or will resume
\* in, though seven handlers and the periodic pass write one side or the other.
THEOREM StatesAgree ==
    ASSUME AtTheDoor, SilenceFirst, ~FdAlias PROVE Spec => []StateAgreement
<1>1. Init => StateAgreement
  BY DEF Init, StateAgreement
<1>2. SeatInv /\ NameInv /\ StateAgreement /\ [Next]_vars => StateAgreement'
  BY NextAgrees DEF AgreeInv
<1> QED BY <1>1, <1>2, SeatInvariant, NameInvariant, PTL DEF Spec

\* A running round is not begun again: its puzzle, its time and its answers stay
\* until the game goes on or ends.  READY and START_GAME would begin it anew
\* (room_start_game); that no occupant can send them follows from StatesAgree.
THEOREM RoundsKept ==
    ASSUME AtTheDoor, SilenceFirst, ~FdAlias PROVE Spec => RoundKept
<1>1. ASSUME TypeOK, StateAgreement, [Next]_vars, NEW r \in Rooms,
             game_started[r], game_started'[r], current_round'[r] = current_round[r]
      PROVE  /\ solution'[r] = solution[r]
             /\ game_elapsed'[r] >= game_elapsed[r]
             /\ \A s \in Slots : answer_submitted[r][s] => answer_submitted'[r][s]
  <2>1. RoundStep(r)
    BY <1>1, RoundSteps
  <2>2. ~Begun(r)
    <3> SUFFICES ASSUME NEW c \in Clients, active[c], room_id[c] = r,
                        state[c] \in {"IN_ROOM", "READY"}
                 PROVE  FALSE
      BY DEF Begun
    <3>1. room_id[c] # None /\ Standing(c) = state[c]
      BY SizesAssumption DEF Standing, Rooms, None
    <3> QED BY <1>1, <3>1 DEF StateAgreement
  <2>3. ~Continued(r)
    <3>1. current_round[r] \in Nat
      BY <1>1 DEF TypeOK, GamesOK
    <3> QED BY <1>1, <3>1 DEF Continued
  <2> QED BY <1>1, <2>1, <2>2, <2>3
          DEF RoundStep, Untouched, Finished, Won, Prevailed, Kept
<1>2. TypeOK /\ StateAgreement /\ [Next]_vars => [\A r \in Rooms :
         game_started[r] /\ game_started'[r] /\ current_round'[r] = current_round[r] =>
            /\ solution'[r] = solution[r]
            /\ game_elapsed'[r] >= game_elapsed[r]
            /\ \A s \in Slots : answer_submitted[r][s] => answer_submitted'[r][s]]_vars
  BY <1>1
<1> QED BY <1>2, TypeCorrect, StatesAgree, PTL DEF Spec, RoundKept
=============================================================================
