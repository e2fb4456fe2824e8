-------------------------------- MODULE Game --------------------------------
(***************************************************************************)
(* src/server/game.c: rounds of a game, answers and the vote to continue.  *)
(*                                                                         *)
(* The puzzle itself is abstracted to the coordinates of its solution: who *)
(* wins depends on nothing else (puzzle_verify_solution).                  *)
(***************************************************************************)
EXTENDS ServerState

\* What room_start_game and room_end_game assign besides the answers.
progressVars == <<game_started, current_round, waiting_for_continue,
                  round_continue_ready, state, player_ready, game_elapsed,
                  solution, announced>>

\* Coordinates drawn for the four solution values, any at all.
puzzle_generate(r) ==
    \E place \in [Slots -> Cells] : solution' = [solution EXCEPT ![r] = place]

\* Start round k of room r (a game not yet started starts at round 1): the
\* flags of the round are cleared, the answers of the previous one are kept.
\* Every occupant goes IN_GAME, whatever state st gave it.
room_start_game(r, k, st) ==
    /\ puzzle_generate(r)
    /\ current_round' = [current_round EXCEPT ![r] = IF game_started[r] THEN k ELSE 1]
    /\ game_started' = [game_started EXCEPT ![r] = TRUE]
    /\ game_elapsed' = [game_elapsed EXCEPT ![r] = 0]
    /\ waiting_for_continue' = [waiting_for_continue EXCEPT ![r] = FALSE]
    /\ answer_submitted' = [answer_submitted EXCEPT ![r] = [s \in Slots |-> FALSE]]
    /\ round_continue_ready' =
         [round_continue_ready EXCEPT ![r] = [s \in Slots |-> FALSE]]
    /\ announced' = [announced EXCEPT ![r] = "none"]
    /\ state' = [c \in Clients |-> IF c \in Seated(r) THEN "IN_GAME" ELSE st[c]]

\* A round won before the last: the room waits for every occupant to continue.
RoundWon(r) ==
    /\ waiting_for_continue' = [waiting_for_continue EXCEPT ![r] = TRUE]
    /\ round_continue_ready' =
         [round_continue_ready EXCEPT ![r] = [s \in Slots |-> FALSE]]
    /\ UNCHANGED <<game_started, current_round, state, player_ready, game_elapsed,
                   solution>>

\* The games of the rooms in R are over; waiting_for_continue stays.
GamesOver(R) ==
    /\ game_started' = [r \in Rooms |-> game_started[r] /\ r \notin R]
    /\ current_round' = [r \in Rooms |-> IF r \in R THEN 0 ELSE current_round[r]]
    /\ player_ready' =
         [r \in Rooms |-> IF r \in R THEN [s \in Slots |-> FALSE] ELSE player_ready[r]]
    /\ state' = [c \in Clients |-> IF \E r \in R : c \in Seated(r)
                                   THEN "IN_ROOM" ELSE state[c]]
    /\ game_elapsed' = [r \in Rooms |-> IF r \in R THEN 0 ELSE game_elapsed[r]]
    /\ solution' =
         [r \in Rooms |-> IF r \in R THEN [s \in Slots |-> Origin] ELSE solution[r]]
    /\ UNCHANGED <<waiting_for_continue, round_continue_ready>>

\* ROUND_END or GAME_END tells the rooms in R how their round, or game, ended.
Announce(R, word) ==
    announced' = [r \in Rooms |-> IF r \in R THEN word ELSE announced[r]]

\* Changed copy of room_end_game: off by one, the last round opens a vote too.
room_end_game_off_by_one(r, won) ==
    /\ IF won /\ current_round[r] <= TOTAL_ROUNDS THEN RoundWon(r) ELSE GamesOver({r})
    /\ Announce({r}, IF won THEN "WIN" ELSE "LOSE")

\* Changed copy of room_end_game: the reset runs over every room.
room_end_game_everywhere(r, won) ==
    /\ IF won /\ current_round[r] < TOTAL_ROUNDS THEN RoundWon(r) ELSE GamesOver(Rooms)
    /\ Announce({r}, IF won THEN "WIN" ELSE "LOSE")

\* Changed copy of room_end_game: who gets to the end of the last round has won.
room_end_game_last_won(r, won) ==
    /\ IF won /\ current_round[r] < TOTAL_ROUNDS THEN RoundWon(r) ELSE GamesOver({r})
    /\ Announce({r}, IF won \/ current_round[r] = TOTAL_ROUNDS THEN "WIN" ELSE "LOSE")

\* A won round before the last waits for votes; the last one, and a lost one,
\* end the game, as won and as lost.
room_end_game(r, won) ==
    /\ IF won /\ current_round[r] < TOTAL_ROUNDS THEN RoundWon(r) ELSE GamesOver({r})
    /\ Announce({r}, IF won THEN "WIN" ELSE "LOSE")

\* All PLAYERS_PER_ROOM answers are compared, those of empty seats too.
puzzle_verify_solution(r, answers) == \A s \in Slots : answers[s] = solution[r][s]

\* Changed copies of the two checks that follow: one seat is enough.
AnyAnswered(r, given) == \E s \in TakenSeats(r) : given[s]
AnyVoted(r, votes)    == \E s \in TakenSeats(r) : votes[s]

\* Every occupied seat has its answer, or its vote; empty seats do not count.
AllAnswered(r, given) == \A s \in TakenSeats(r) : given[s]
AllVoted(r, votes)    == \A s \in TakenSeats(r) : votes[s]

-----------------------------------------------------------------------------
\* SUBMIT|row|col.  Coordinates outside the matrix are refused, so a cell
\* here is a valid one.
handle_submit(c, cell) ==
    LET r       == room_id[c]
        s       == player_index[c]
        answers == [submitted_answers[r] EXCEPT ![s] = cell]
        given   == [answer_submitted[r] EXCEPT ![s] = TRUE]
    IN  /\ Serving(c)
        /\ state[c] = "IN_GAME"
        /\ r # None
        /\ submitted_answers' = [submitted_answers EXCEPT ![r] = answers]
        /\ answer_submitted' = [answer_submitted EXCEPT ![r] = given]
        /\ IF /\ AllAnswered(r, given)
              /\ ~waiting_for_continue[r]
              /\ game_started[r]
           THEN room_end_game(r, puzzle_verify_solution(r, answers))
           ELSE UNCHANGED progressVars
        /\ UNCHANGED <<active, connected, username, saved_state, room_id,
                       player_index, pong_age, disconnect_age, room_active,
                       player_ids, player_count, host_index, loopVars>>

\* READY_NEXT_ROUND.  A second vote of the same seat changes nothing; the
\* vote that completes the set starts the next round.
handle_ready_next_round(c) ==
    LET r     == room_id[c]
        votes == [round_continue_ready[r] EXCEPT ![player_index[c]] = TRUE]
    IN  /\ Serving(c)
        /\ state[c] \in {"IN_GAME", "IN_ROOM"}
        /\ r # None
        /\ room_active[r]
        /\ waiting_for_continue[r]
        /\ ~round_continue_ready[r][player_index[c]]
        /\ IF AllVoted(r, votes)
           THEN /\ room_start_game(r, current_round[r] + 1, state)
                /\ UNCHANGED player_ready
           ELSE /\ round_continue_ready' = [round_continue_ready EXCEPT ![r] = votes]
                /\ UNCHANGED <<game_started, current_round, waiting_for_continue,
                               state, player_ready, game_elapsed, solution,
                               answer_submitted, announced>>
        /\ UNCHANGED <<active, connected, username, saved_state, room_id,
                       player_index, pong_age, disconnect_age, room_active,
                       player_ids, player_count, host_index,
                       submitted_answers, loopVars>>
=============================================================================
