---------------------------- MODULE UserSession ----------------------------
(***************************************************************************)
(* The server as one user meets it: a session that is entered, cut off,    *)
(* resumed or given up, the seat it holds, and the game of its room, which *)
(* other players and the timer move as well.  GameServer implements it for *)
(* every user; Dialogue puts it at the far end of a client's connection.   *)
(***************************************************************************)
EXTENDS Naturals

CONSTANT ROUNDS         \* rounds of a game

VARIABLE me             \* the session, a record of

Session ==
    [place     : {"out", "lobby", "room"},
     online    : BOOLEAN,       \* a connection belongs to it
     resumable : BOOLEAN,       \* cut off, and LOGIN would take it over
     stray     : BOOLEAN,       \* seated, and in the lobby by its state
     playing   : BOOLEAN,       \* the room's game has started
     round     : 0 .. ROUNDS,   \* its round, 0 without a game
     waiting   : BOOLEAN,       \* the room waits for votes to continue
     voted     : BOOLEAN,       \* this seat has voted
     answered  : BOOLEAN]       \* this seat has answered in the current round

NoSession ==
    [place |-> "out", online |-> FALSE, resumable |-> FALSE, stray |-> FALSE,
     playing |-> FALSE, round |-> 0, waiting |-> FALSE, voted |-> FALSE,
     answered |-> FALSE]

InLobby == [NoSession EXCEPT !.place = "lobby", !.online = TRUE]

SessionInit == me = NoSession

Enter == me.place = "out" /\ me' = InLobby

\* LOGIN once more: in the lobby nothing changes, at a seat the state does.
Again ==
    /\ me.place # "out" /\ me.online
    /\ me' = [me EXCEPT !.stray = (me.place = "room")]

Cut ==
    /\ me.place # "out" /\ me.online
    /\ me' = [me EXCEPT !.online = FALSE, !.resumable = TRUE]

\* The very same seat and game, whatever happened to them meanwhile.
Resume ==
    /\ me.place # "out" /\ ~me.online /\ me.resumable
    /\ me' = [me EXCEPT !.online = TRUE, !.resumable = FALSE]

\* The server's timeouts end a session at any time.
GiveUp == me.place # "out" /\ me' = NoSession

\* A room that exists may still wait for votes from a game that timed out, and
\* the seat may still carry the vote of whoever had it before.
Sit ==
    /\ me.place = "lobby" /\ me.online
    /\ \E waits, vote \in BOOLEAN :
         me' = [me EXCEPT !.place = "room", !.waiting = waits, !.voted = waits /\ vote]

Rise == me.place = "room" /\ me.online /\ me' = InLobby

-----------------------------------------------------------------------------
\* A round starts: the session's state is overwritten, so a lost one cannot be
\* resumed any more.
Starts(n) ==
    me' = [me EXCEPT !.playing = TRUE, !.round = n, !.waiting = FALSE, !.voted = FALSE,
                     !.answered = FALSE, !.resumable = FALSE, !.stray = FALSE]

Begin   == me.place = "room" /\ ~me.playing /\ Starts(1)

\* The vote of this seat is in, or is the one that starts the round.
Proceed ==
    /\ me.playing /\ me.waiting /\ me.round < ROUNDS
    /\ me.voted \/ (me.online /\ ~me.stray)
    /\ Starts(me.round + 1)

Answer ==
    /\ me.playing /\ me.online /\ ~me.stray
    /\ me' = [me EXCEPT !.answered = TRUE]

\* A round before the last is won with the answer of this seat in hand.
Win ==
    /\ me.playing /\ ~me.waiting /\ me.round < ROUNDS
    /\ me.answered \/ (me.online /\ ~me.stray)
    /\ me' = [me EXCEPT !.answered = TRUE, !.waiting = TRUE, !.voted = FALSE]

\* The game ends, by its last answers or by the timer; whether the room waits
\* for votes is not reset.
Over ==
    /\ me.playing
    /\ me' = [me EXCEPT !.playing = FALSE, !.round = 0, !.answered = FALSE,
                        !.resumable = FALSE, !.stray = FALSE]

Vote ==
    /\ me.place = "room" /\ me.online /\ ~me.stray
    /\ me.waiting /\ ~me.voted
    /\ me' = [me EXCEPT !.voted = TRUE]

SessionNext ==
    \/ Enter \/ Again \/ Cut \/ Resume \/ GiveUp \/ Sit \/ Rise
    \/ Begin \/ Proceed \/ Answer \/ Win \/ Over \/ Vote

SessionSpec == SessionInit /\ [][SessionNext]_me
=============================================================================
