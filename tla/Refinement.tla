----------------------------- MODULE Refinement -----------------------------
(***************************************************************************)
(* The server implements SeatBook for its users, UserSession for each of   *)
(* them and Match for each room.                                           *)
(***************************************************************************)
EXTENDS GameServer

\* The slots that hold a session of user u: at most one (SingleSession).
SessionsOf(u) == {c \in Clients : active[c] /\ username[c] = u}

PlaceOf(u) ==
    IF SessionsOf(u) = {} THEN <<"out">>
    ELSE LET c == Least(SessionsOf(u))
         IN  IF room_id[c] = None THEN <<"lobby">> ELSE <<room_id[c], player_index[c]>>

OnlineOf(u) == \E c \in SessionsOf(u) : connected[c]

Where  == [u \in Users |-> PlaceOf(u)]
Online == [u \in Users |-> OnlineOf(u)]

Book == INSTANCE SeatBook WITH
    Places <- Rooms \X Slots,
    place  <- Where,
    online <- Online

\* Every step of the server is a step of SeatBook or changes nothing in it: a
\* user's place survives a lost connection, moves to the new slot on LOGIN, and
\* is taken away by nobody but the user and the server's own timeouts.
KeepsPlaces == Book!BookSpec

StageOf(r) ==
    IF ~room_active[r] THEN "closed"
    ELSE IF ~game_started[r] THEN "open"
    ELSE IF waiting_for_continue[r] THEN "won" ELSE "playing"

MatchOf(r) == INSTANCE Match WITH
    LastRound <- TOTAL_ROUNDS,
    stage     <- StageOf(r),
    round     <- current_round[r]

\* Every room lives the life of a Match: no handler skips or goes back over a
\* round of a running game, and only a won round leads to the next one.
PlaysMatches ==
    /\ \A r \in Rooms : MatchOf(r)!MatchInit
    /\ [][\A r \in Rooms : MatchOf(r)!MatchNext
                               \/ UNCHANGED <<StageOf(r), current_round[r]>>]_vars

Blank == INSTANCE UserSession WITH ROUNDS <- TOTAL_ROUNDS, me <- 0

\* What one user sees of the tables; a flag counts only where it is read.
ViewOf(u) ==
    IF SessionsOf(u) = {} THEN Blank!NoSession
    ELSE LET c == Least(SessionsOf(u))
             r == room_id[c]
             s == player_index[c]
         IN  IF r = None
             THEN [Blank!InLobby EXCEPT !.online = connected[c],
                                            !.resumable = (state[c] = "DISCONNECTED")]
             ELSE [place     |-> "room",
                   online    |-> connected[c],
                   resumable |-> state[c] = "DISCONNECTED",
                   stray     |-> Standing(c) = "IN_LOBBY",
                   playing   |-> game_started[r],
                   round     |-> current_round[r],
                   waiting   |-> waiting_for_continue[r],
                   voted     |-> waiting_for_continue[r] /\ round_continue_ready[r][s],
                   answered  |-> game_started[r] /\ answer_submitted[r][s]]

UserOf(u) == INSTANCE UserSession WITH ROUNDS <- TOTAL_ROUNDS, me <- ViewOf(u)

\* Every user meets a UserSession, whatever the others and the timers do: this
\* is the server that Dialogue puts at the other end of a client's connection.
ServesSessions ==
    /\ \A u \in Users : UserOf(u)!SessionInit
    /\ [][\A u \in Users : UNCHANGED ViewOf(u) \/ UserOf(u)!SessionNext]_vars
=============================================================================
