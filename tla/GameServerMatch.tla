--------------------------- MODULE GameServerMatch ---------------------------
(***************************************************************************)
(* Proofs that every room of the server lives the life of a Match and that *)
(* every user meets a UserSession.  Both follow from the five things a     *)
(* step may do to a room's game and from the agreement of the clients'     *)
(* states with their rooms (both GameServerSessions); the second also      *)
(* needs the ways in which sessions move (GameServerPlaces).               *)
(***************************************************************************)
EXTENDS GameServerPlaces

\* The invariants that the steps of a Match follow from.
MatchInv == SeatInv /\ StateAgreement /\ TimeLeft /\ RoundInRange

\* A room comes into use or out of use without a game.
RoomStep(r) ==
    \/ room_active'[r] = room_active[r]
    \/ ~game_started'[r] /\ current_round'[r] = 0

-----------------------------------------------------------------------------
\* Taking a client out of a room touches no other room.
LEMMA RemoveRoom ==
    ASSUME TypeOK, NEW q \in Rooms, NEW c, NEW st, NEW host,
           RemovePlayer(q, c, st, host), NEW r \in Rooms
    PROVE  RoomStep(r)
<1>1. CASE player_count[q] = 1
  <2>1. ZeroGame(q) /\ room_active' = [room_active EXCEPT ![q] = FALSE]
    BY <1>1 DEF RemovePlayer
  <2> QED BY <2>1 DEF ZeroGame, RoomStep, TypeOK, RoomsOK, GamesOK
<1>2. CASE player_count[q] # 1
  BY <1>2 DEF RemovePlayer, RoomStep
<1> QED BY <1>1, <1>2

\* Nor does removing a session.
LEMMA DisconnectRoom ==
    ASSUME TypeOK, NEW c \in Clients, client_disconnect(c), NEW r \in Rooms
    PROVE  RoomStep(r)
<1>1. CASE room_id[c] # None
  <2>1. room_id[c] \in Rooms
    BY <1>1 DEF TypeOK, ClientsOK
  <2> QED BY <1>1, <2>1, RemoveRoom DEF client_disconnect
<1>2. CASE room_id[c] = None
  BY <1>2 DEF client_disconnect, roomVars, RoomStep
<1> QED BY <1>1, <1>2

\* Only CREATE_ROOM and departures bring rooms into use and out of it.
LEMMA RoomSteps ==
    ASSUME TypeOK, [Next]_vars, NEW r \in Rooms PROVE RoomStep(r)
<1>1. CASE \/ UNCHANGED vars \/ client_accept \/ Clock \/ Tick
           \/ \E c \in Clients : ConnectionLost(c) \/ AliasedRead(c)
  BY <1>1 DEF vars, client_accept, Clock, Tick, ConnectionLost, AliasedRead,
              client_mark_disconnected, roomVars, RoomStep
<1>2. CASE Sweep
  <2>1. Silent # {} => Least(Silent) \in Clients
    BY LeastClient DEF Silent
  <2>2. Expired # {} => Least(Expired) \in Clients
    BY LeastClient DEF Expired
  <2>3. CASE SweepDone
    BY <2>3 DEF SweepDone, roomVars, RoomStep
  <2> QED BY <1>2, <2>1, <2>2, <2>3, DisconnectRoom
          DEF Sweep, check_ping_timeouts, check_reconnect_timeouts
<1>3. ASSUME NEW c \in Clients, handle_message(c) PROVE RoomStep(r)
  <2>1. CASE handle_create_room(c)
    <3> DEFINE q == Least({p \in Rooms : ~room_active[p]})
    <3>1. /\ ZeroGame(q) /\ room_active' = [room_active EXCEPT ![q] = TRUE]
          /\ q \in Rooms
      BY <2>1, LeastRoom DEF handle_create_room
    <3> HIDE DEF q
    <3> QED BY <3>1 DEF ZeroGame, RoomStep, TypeOK, RoomsOK, GamesOK
  <2>2. CASE handle_leave_room(c)
    <3>1. room_id[c] \in Rooms
      BY <2>2 DEF handle_leave_room, TypeOK, ClientsOK
    <3> QED BY <2>2, <3>1, RemoveRoom DEF handle_leave_room
  <2>3. CASE \/ \E u \in Users : handle_login(c, u)
             \/ \E q \in Rooms : handle_join_room(c, q)
             \/ handle_ready(c) \/ handle_start_game(c)
             \/ \E cell \in Cells : handle_submit(c, cell)
             \/ handle_pong(c) \/ handle_ready_next_round(c)
    BY <2>3 DEF handle_login, login_fresh, login_resume, handle_join_room, handle_ready,
                handle_start_game, handle_submit, handle_pong, handle_ready_next_round,
                roomVars, RoomStep
  <2> QED BY <1>3, <2>1, <2>2, <2>3 DEF handle_message
<1> QED BY <1>1, <1>2, <1>3 DEF Next, Periodic

\* READY and START_GAME begin a game only where none plays: whoever sends them
\* is IN_ROOM or READY, and in a playing room everyone is IN_GAME.
LEMMA BegunFresh ==
    ASSUME MatchInv, NEW r \in Rooms, Begun(r) PROVE ~game_started[r] /\ room_active[r]
<1>1. PICK c \in Clients :
        active[c] /\ room_id[c] = r /\ state[c] \in {"IN_ROOM", "READY"}
  BY DEF Begun
<1>2. r # None
  BY SizesAssumption DEF Rooms, None
<1>3. Standing(c) = state[c]
  BY <1>1 DEF Standing
<1>4. ~game_started[r]
  BY <1>1, <1>2, <1>3 DEF MatchInv, StateAgreement
<1> QED BY <1>1, <1>2, <1>4, OwnRoomActive DEF MatchInv

\* One step at one room.
LEMMA MatchStep ==
    ASSUME MatchInv, TimeLeft', [Next]_vars, NEW r \in Rooms
    PROVE  MatchOf(r)!MatchNext \/ UNCHANGED <<StageOf(r), current_round[r]>>
<1>1. /\ RoomStep(r) /\ RoundStep(r)
      /\ room_active[r] \in BOOLEAN /\ room_active'[r] \in BOOLEAN
      /\ game_started[r] \in BOOLEAN
      /\ game_started'[r] => room_active'[r]
      /\ game_started[r] => room_active[r]
      /\ ~game_started[r] => current_round[r] = 0
      /\ game_started[r] /\ waiting_for_continue[r] => current_round[r] < TOTAL_ROUNDS
  <2>1. TypeOK'
    BY NextTypes DEF MatchInv, SeatInv
  <2> QED BY <2>1, RoomSteps, RoundSteps
          DEF MatchInv, SeatInv, TimeLeft, RoundInRange, TypeOK, RoomsOK, GamesOK
<1>2. CASE Untouched(r)
  BY <1>1, <1>2 DEF Untouched, RoomStep, StageOf, MatchOf!MatchNext, MatchOf!Open,
                    MatchOf!Close
<1>3. CASE Finished(r)
  BY <1>1, <1>3 DEF Finished, StageOf, MatchOf!MatchNext, MatchOf!Open, MatchOf!Close,
                    MatchOf!Finish
<1>4. CASE Begun(r)
  BY <1>1, <1>4, BegunFresh DEF Begun, StageOf, MatchOf!MatchNext, MatchOf!Begin
<1>5. CASE Continued(r)
  BY <1>1, <1>5 DEF Continued, RoomStep, StageOf, MatchOf!MatchNext, MatchOf!Begin,
                    MatchOf!Proceed
<1>6. CASE Won(r)
  BY <1>1, <1>6 DEF Won, RoomStep, StageOf, MatchOf!MatchNext, MatchOf!Win
<1>7. CASE Prevailed(r)
  BY <1>1, <1>7 DEF Prevailed, StageOf, MatchOf!MatchNext, MatchOf!Close, MatchOf!Finish
<1> QED BY <1>1, <1>2, <1>3, <1>4, <1>5, <1>6, <1>7 DEF RoundStep

-----------------------------------------------------------------------------
\* The rooms of the server implement Match: whatever is sent, lost or timed
\* out, no handler restarts, skips or repeats a round of a running game.
THEOREM MatchesPlayed ==
    ASSUME AtTheDoor, SilenceFirst, ~FdAlias PROVE Spec => PlaysMatches
<1>1. Init => \A r \in Rooms : MatchOf(r)!MatchInit
  BY DEF Init, StageOf, MatchOf!MatchInit
<1>2. MatchInv /\ TimeLeft' /\ [Next]_vars =>
        [\A r \in Rooms : MatchOf(r)!MatchNext
                              \/ UNCHANGED <<StageOf(r), current_round[r]>>]_vars
  BY MatchStep
<1>3. SeatInv /\ StateAgreement /\ TimeLeft /\ RoundInRange => MatchInv
  BY DEF MatchInv
<1> QED BY <1>1, <1>2, <1>3, SeatInvariant, StatesAgree, TimeInHand, RoundsInRange, PTL
        DEF Spec, PlaysMatches

-----------------------------------------------------------------------------
(***************************************************************************)
(* UserSession.                                                            *)
(***************************************************************************)

\* The session me of a user who is not astray, field by field.
IsSession(me, place, o, l, p, n, w, v, a) ==
    /\ me \in Blank!Session
    /\ me.place = place /\ me.online = o /\ me.resumable = l /\ me.stray = FALSE
    /\ me.playing = p /\ me.round = n /\ me.waiting = w /\ me.voted = v /\ me.answered = a

\* What a user sees whose session is in slot c.
LobbyAt(me, c) ==
    IsSession(me, "lobby", connected[c], state[c] = "DISCONNECTED", FALSE, 0, FALSE, FALSE,
              FALSE)

SeatAt(me, c) ==
    LET r == room_id[c]
        s == player_index[c]
    IN  IsSession(me, "room", connected[c], state[c] = "DISCONNECTED", game_started[r],
                  current_round[r], waiting_for_continue[r],
                  waiting_for_continue[r] /\ round_continue_ready[r][s],
                  game_started[r] /\ answer_submitted[r][s])

\* The invariants that the steps of a UserSession follow from.
UserInv == MatchInv /\ NameInv

Sights ==
    \A u \in Users :
        /\ \A c \in Clients : active[c] /\ username[c] = u =>
             IF room_id[c] = None THEN LobbyAt(ViewOf(u), c) ELSE SeatAt(ViewOf(u), c)
        /\ (\A c \in Clients : active[c] => username[c] # u) =>
             ViewOf(u) = Blank!NoSession

LEMMA BlankSessions ==
    /\ Blank!NoSession \in Blank!Session
    /\ IsSession(Blank!InLobby, "lobby", TRUE, FALSE, FALSE, 0, FALSE, FALSE, FALSE)
<1>1. /\ Blank!NoSession \in Blank!Session
      /\ Blank!NoSession.stray = FALSE /\ Blank!NoSession.resumable = FALSE
      /\ Blank!NoSession.playing = FALSE /\ Blank!NoSession.round = 0
      /\ Blank!NoSession.waiting = FALSE /\ Blank!NoSession.voted = FALSE
      /\ Blank!NoSession.answered = FALSE
  BY SizesAssumption DEF Blank!NoSession, Blank!Session
<1> QED BY <1>1 DEF IsSession, Blank!InLobby, Blank!Session

\* Two sessions with the same fields are the same.
LEMMA SameSession ==
    ASSUME NEW x, NEW y, NEW place, NEW o, NEW l, NEW p, NEW n, NEW w, NEW v, NEW a,
           IsSession(x, place, o, l, p, n, w, v, a), IsSession(y, place, o, l, p, n, w, v, a)
    PROVE  x = y
  BY DEF IsSession, Blank!Session

\* What the updates of a session change, field by field.
LEMMA CutUpdate ==
    ASSUME NEW me, NEW you, NEW place, NEW o, NEW l, NEW p, NEW n, NEW w, NEW v, NEW a,
           IsSession(me, place, o, l, p, n, w, v, a),
           IsSession(you, place, FALSE, TRUE, p, n, w, v, a)
    PROVE  you = [me EXCEPT !.online = FALSE, !.resumable = TRUE]
<1>1. /\ me \in Blank!Session /\ you \in Blank!Session
      /\ you.place = me.place /\ you.stray = me.stray /\ you.playing = me.playing
      /\ you.round = me.round /\ you.waiting = me.waiting /\ you.voted = me.voted
      /\ you.answered = me.answered /\ you.online = FALSE /\ you.resumable = TRUE
  BY DEF IsSession
<1> QED BY <1>1 DEF Blank!Session

LEMMA ResumeUpdate ==
    ASSUME NEW me, NEW you, NEW place, NEW o, NEW l, NEW p, NEW n, NEW w, NEW v, NEW a,
           IsSession(me, place, o, l, p, n, w, v, a),
           IsSession(you, place, TRUE, FALSE, p, n, w, v, a)
    PROVE  you = [me EXCEPT !.online = TRUE, !.resumable = FALSE]
<1>1. /\ me \in Blank!Session /\ you \in Blank!Session
      /\ you.place = me.place /\ you.stray = me.stray /\ you.playing = me.playing
      /\ you.round = me.round /\ you.waiting = me.waiting /\ you.voted = me.voted
      /\ you.answered = me.answered /\ you.online = TRUE /\ you.resumable = FALSE
  BY DEF IsSession
<1> QED BY <1>1 DEF Blank!Session

InRound(me, k) ==
    [me EXCEPT !.playing = TRUE, !.round = k, !.waiting = FALSE, !.voted = FALSE,
               !.answered = FALSE, !.resumable = FALSE, !.stray = FALSE]

LEMMA StartUpdate ==
    ASSUME NEW me \in Blank!Session, NEW you \in Blank!Session, NEW k,
           you.place = me.place, you.online = me.online, you.stray = FALSE,
           you.playing = TRUE, you.round = k, you.waiting = FALSE,
           you.voted = FALSE, you.answered = FALSE, you.resumable = FALSE
    PROVE  you = InRound(me, k)
  BY DEF InRound, Blank!Session

LEMMA OverUpdate ==
    ASSUME NEW me, NEW you, NEW place, NEW o, NEW l, NEW p, NEW n, NEW w, NEW v, NEW a,
           IsSession(me, place, o, l, p, n, w, v, a),
           IsSession(you, place, o, FALSE, FALSE, 0, w, v, FALSE)
    PROVE  you = [me EXCEPT !.playing = FALSE, !.round = 0, !.answered = FALSE,
                            !.resumable = FALSE, !.stray = FALSE]
<1>1. /\ me \in Blank!Session /\ you \in Blank!Session
      /\ you.place = me.place /\ you.online = me.online /\ you.stray = FALSE
      /\ you.playing = FALSE /\ you.round = 0 /\ you.waiting = me.waiting
      /\ you.voted = me.voted /\ you.answered = FALSE /\ you.resumable = FALSE
  BY DEF IsSession
<1> QED BY <1>1 DEF Blank!Session

LEMMA WinUpdate ==
    ASSUME NEW me, NEW you, NEW place, NEW o, NEW l, NEW p, NEW n, NEW w, NEW v, NEW a,
           IsSession(me, place, o, l, p, n, w, v, a),
           IsSession(you, place, o, l, p, n, TRUE, FALSE, TRUE)
    PROVE  you = [me EXCEPT !.answered = TRUE, !.waiting = TRUE, !.voted = FALSE]
<1>1. /\ me \in Blank!Session /\ you \in Blank!Session
      /\ you.place = me.place /\ you.online = me.online /\ you.stray = me.stray
      /\ you.resumable = me.resumable /\ you.playing = me.playing /\ you.round = me.round
      /\ you.waiting = TRUE /\ you.voted = FALSE /\ you.answered = TRUE
  BY DEF IsSession
<1> QED BY <1>1 DEF Blank!Session

LEMMA AnswerUpdate ==
    ASSUME NEW me, NEW you, NEW place, NEW o, NEW l, NEW p, NEW n, NEW w, NEW v, NEW a,
           IsSession(me, place, o, l, p, n, w, v, a),
           IsSession(you, place, o, l, p, n, w, v, TRUE)
    PROVE  you = [me EXCEPT !.answered = TRUE]
<1>1. /\ me \in Blank!Session /\ you \in Blank!Session
      /\ you.place = me.place /\ you.online = me.online /\ you.stray = me.stray
      /\ you.resumable = me.resumable /\ you.playing = me.playing /\ you.round = me.round
      /\ you.waiting = me.waiting /\ you.voted = me.voted /\ you.answered = TRUE
  BY DEF IsSession
<1> QED BY <1>1 DEF Blank!Session

LEMMA VoteUpdate ==
    ASSUME NEW me, NEW you, NEW place, NEW o, NEW l, NEW p, NEW n, NEW w, NEW v, NEW a,
           IsSession(me, place, o, l, p, n, w, v, a),
           IsSession(you, place, o, l, p, n, w, TRUE, a)
    PROVE  you = [me EXCEPT !.voted = TRUE]
<1>1. /\ me \in Blank!Session /\ you \in Blank!Session
      /\ you.place = me.place /\ you.online = me.online /\ you.stray = me.stray
      /\ you.resumable = me.resumable /\ you.playing = me.playing /\ you.round = me.round
      /\ you.waiting = me.waiting /\ you.voted = TRUE /\ you.answered = me.answered
  BY DEF IsSession
<1> QED BY <1>1 DEF Blank!Session

LEMMA Unseen ==
    ASSUME NEW u \in Users, \A c \in Clients : active[c] => username[c] # u
    PROVE  ViewOf(u) = Blank!NoSession
<1>1. SessionsOf(u) = {}
  BY DEF SessionsOf
<1> QED BY <1>1 DEF ViewOf

\* Nobody who is seated is in the lobby by state.
LEMMA Seen == UserInv => Sights
<1> SUFFICES ASSUME UserInv, NEW u \in Users, NEW c \in Clients,
                    active[c], username[c] = u
             PROVE  IF room_id[c] = None THEN LobbyAt(ViewOf(u), c) ELSE SeatAt(ViewOf(u), c)
  BY Unseen DEF Sights
<1>1. SessionsOf(u) = {c}
  BY InputsAssumption DEF UserInv, NameInv, SingleSession, SessionsOf
<1>2. Least({c}) = c
  BY LeastClient
<1>3. connected[c] \in BOOLEAN
  BY DEF UserInv, NameInv, TypeOK, ClientsOK
<1>4. CASE room_id[c] = None
  <2>1. ViewOf(u) = [Blank!InLobby EXCEPT !.online = connected[c],
                                          !.resumable = (state[c] = "DISCONNECTED")]
    BY <1>1, <1>2, <1>4 DEF ViewOf
  <2> QED BY <1>3, <1>4, <2>1, BlankSessions DEF LobbyAt, IsSession, Blank!Session
<1>5. CASE room_id[c] # None
  <2>1. PICK r \in Rooms, s \in Slots : r = room_id[c] /\ s = player_index[c]
    BY <1>5 DEF UserInv, MatchInv, SeatInv, TypeOK, ClientsOK, SeatsRight, WholeSeat
  <2>2. Standing(c) # "IN_LOBBY"
    BY <1>5 DEF UserInv, MatchInv, StateAgreement
  <2>3. /\ game_started[r] \in BOOLEAN /\ waiting_for_continue[r] \in BOOLEAN
        /\ round_continue_ready[r][s] \in BOOLEAN /\ answer_submitted[r][s] \in BOOLEAN
        /\ current_round[r] \in 0 .. TOTAL_ROUNDS
    BY SizesAssumption DEF UserInv, MatchInv, RoundInRange, NameInv, TypeOK, GamesOK
  <2>4. ViewOf(u) = [place     |-> "room",
                     online    |-> connected[c],
                     resumable |-> state[c] = "DISCONNECTED",
                     stray     |-> FALSE,
                     playing   |-> game_started[r],
                     round     |-> current_round[r],
                     waiting   |-> waiting_for_continue[r],
                     voted     |-> waiting_for_continue[r] /\ round_continue_ready[r][s],
                     answered  |-> game_started[r] /\ answer_submitted[r][s]]
    BY <1>1, <1>2, <1>5, <2>1, <2>2 DEF ViewOf
  <2> QED BY <1>3, <1>5, <2>1, <2>3, <2>4 DEF SeatAt, IsSession, Blank!Session
<1> QED BY <1>4, <1>5

\* What a step may do to seat s of room r, where slot c stays.
SameState(c) ==
    connected'[c] = connected[c]
        /\ (state'[c] = "DISCONNECTED" <=> state[c] = "DISCONNECTED")

Unmoved(r) ==
    /\ game_started'[r] = game_started[r]
    /\ current_round'[r] = current_round[r]
    /\ waiting_for_continue'[r] = waiting_for_continue[r]

Quiet(c, r, s) ==
    /\ SameState(c) /\ Unmoved(r)
    /\ round_continue_ready'[r][s] = round_continue_ready[r][s]
    /\ answer_submitted'[r][s] = answer_submitted[r][s]

CutOff(c, r, s) ==
    /\ connected[c] /\ ~connected'[c] /\ state'[c] = "DISCONNECTED" /\ Unmoved(r)
    /\ round_continue_ready'[r][s] = round_continue_ready[r][s]
    /\ answer_submitted'[r][s] = answer_submitted[r][s]

Started(c, r, s) ==
    /\ connected'[c] = connected[c] /\ state'[c] = "IN_GAME"
    /\ game_started'[r] /\ ~waiting_for_continue'[r] /\ ~answer_submitted'[r][s]
    /\ \/ ~game_started[r] /\ current_round'[r] = 1
       \/ /\ game_started[r] /\ waiting_for_continue[r]
          /\ round_continue_ready[r][s] \/ connected[c]
          /\ current_round'[r] = current_round[r] + 1

Ended(c, r, s) ==
    /\ connected'[c] = connected[c] /\ state'[c] = "IN_ROOM"
    /\ game_started[r] /\ ~game_started'[r] /\ current_round'[r] = 0
    /\ waiting_for_continue'[r] = waiting_for_continue[r]
    /\ round_continue_ready'[r][s] = round_continue_ready[r][s]

WonThere(c, r, s) ==
    /\ SameState(c)
    /\ game_started[r] /\ game_started'[r]
    /\ ~waiting_for_continue[r] /\ waiting_for_continue'[r]
    /\ current_round[r] < TOTAL_ROUNDS /\ current_round'[r] = current_round[r]
    /\ answer_submitted[r][s] \/ connected[c]
    /\ answer_submitted'[r][s] /\ ~round_continue_ready'[r][s]

Answered(c, r, s) ==
    /\ SameState(c) /\ Unmoved(r)
    /\ connected[c] /\ game_started[r] /\ answer_submitted'[r][s]
    /\ round_continue_ready'[r][s] = round_continue_ready[r][s]

Voted(c, r, s) ==
    /\ SameState(c) /\ Unmoved(r)
    /\ connected[c] /\ waiting_for_continue[r]
    /\ ~round_continue_ready[r][s] /\ round_continue_ready'[r][s]
    /\ answer_submitted'[r][s] = answer_submitted[r][s]

SeatStep(c, r, s) ==
    \/ Quiet(c, r, s) \/ CutOff(c, r, s) \/ Started(c, r, s) \/ Ended(c, r, s)
    \/ WonThere(c, r, s) \/ Answered(c, r, s) \/ Voted(c, r, s)

\* Each of them is a step of the user's session, or none.
LEMMA SeatServed ==
    ASSUME TypeOK, TypeOK', RoundInRange, NEW u \in Users, NEW c \in Clients,
           NEW r \in Rooms, NEW s \in Slots, room_id[c] = r, player_index[c] = s,
           room_id'[c] = r, player_index'[c] = s,
           SeatAt(ViewOf(u), c), SeatAt(ViewOf(u), c)', SeatStep(c, r, s)
    PROVE  UNCHANGED ViewOf(u) \/ UserOf(u)!SessionNext
<1>1. PICK o, l, p, n, w, v, a :
        /\ o = connected[c] /\ l = (state[c] = "DISCONNECTED") /\ p = game_started[r]
        /\ n = current_round[r] /\ w = waiting_for_continue[r]
        /\ v = (w /\ round_continue_ready[r][s]) /\ a = (p /\ answer_submitted[r][s])
        /\ IsSession(ViewOf(u), "room", o, l, p, n, w, v, a)
  BY DEF SeatAt
<1>2. PICK o1, l1, p1, n1, w1, v1, a1 :
        /\ o1 = connected'[c] /\ l1 = (state'[c] = "DISCONNECTED") /\ p1 = game_started'[r]
        /\ n1 = current_round'[r] /\ w1 = waiting_for_continue'[r]
        /\ v1 = (w1 /\ round_continue_ready'[r][s]) /\ a1 = (p1 /\ answer_submitted'[r][s])
        /\ IsSession(ViewOf(u)', "room", o1, l1, p1, n1, w1, v1, a1)
  BY DEF SeatAt
<1>3. /\ p \in BOOLEAN /\ p1 \in BOOLEAN /\ w \in BOOLEAN /\ w1 \in BOOLEAN
      /\ round_continue_ready[r][s] \in BOOLEAN /\ round_continue_ready'[r][s] \in BOOLEAN
      /\ answer_submitted[r][s] \in BOOLEAN /\ answer_submitted'[r][s] \in BOOLEAN
      /\ o \in BOOLEAN /\ o1 \in BOOLEAN
  BY <1>1, <1>2 DEF TypeOK, GamesOK, ClientsOK
<1>4. CASE Quiet(c, r, s)
  BY <1>1, <1>2, <1>3, <1>4, SameSession DEF Quiet, SameState, Unmoved
<1>5. CASE CutOff(c, r, s)
  <2>1. IsSession(ViewOf(u)', "room", FALSE, TRUE, p, n, w, v, a) /\ o
    BY <1>1, <1>2, <1>3, <1>5 DEF CutOff, Unmoved
  <2>2. ViewOf(u)' = [ViewOf(u) EXCEPT !.online = FALSE, !.resumable = TRUE]
    <3>1. IsSession(ViewOf(u), "room", o, l, p, n, w, v, a)
      BY <1>1
    <3>2. IsSession(ViewOf(u)', "room", FALSE, TRUE, p, n, w, v, a)
      BY <2>1
    <3> QED BY <3>1, <3>2, CutUpdate
  <2> QED BY <1>1, <2>1, <2>2 DEF IsSession, UserOf!SessionNext, UserOf!Cut
<1>6. CASE Started(c, r, s)
  <2>1. IsSession(ViewOf(u)', "room", o, FALSE, TRUE, n1, FALSE, FALSE, FALSE)
    BY <1>1, <1>2, <1>3, <1>6 DEF Started
  <2>2. UserOf(u)!Starts(n1)
    <3>1. /\ ViewOf(u) \in Blank!Session /\ ViewOf(u)' \in Blank!Session
          /\ ViewOf(u)'.place = ViewOf(u).place /\ ViewOf(u)'.online = ViewOf(u).online
          /\ ViewOf(u)'.stray = FALSE /\ ViewOf(u)'.playing = TRUE
          /\ ViewOf(u)'.round = n1 /\ ViewOf(u)'.waiting = FALSE
          /\ ViewOf(u)'.voted = FALSE /\ ViewOf(u)'.answered = FALSE
          /\ ViewOf(u)'.resumable = FALSE
      BY <1>1, <2>1 DEF IsSession
    <3>2. ViewOf(u)' = InRound(ViewOf(u), n1)
      BY <3>1, StartUpdate
    <3> QED BY <3>2 DEF InRound, UserOf!Starts
  <2>3. CASE ~p /\ n1 = 1
    BY <1>1, <2>2, <2>3 DEF IsSession, UserOf!SessionNext, UserOf!Begin
  <2>4. CASE p /\ w /\ n1 = n + 1 /\ (v \/ o)
    <3>1. n < TOTAL_ROUNDS
      BY <1>1, <2>4 DEF RoundInRange
    <3> QED BY <1>1, <2>2, <2>4, <3>1 DEF IsSession, UserOf!SessionNext, UserOf!Proceed
  <2> QED BY <1>1, <1>2, <1>3, <1>6, <2>3, <2>4 DEF Started
<1>7. CASE Ended(c, r, s)
  <2>1. IsSession(ViewOf(u)', "room", o, FALSE, FALSE, 0, w, v, FALSE) /\ p
    BY <1>1, <1>2, <1>3, <1>7 DEF Ended
  <2>2. ViewOf(u)' = [ViewOf(u) EXCEPT !.playing = FALSE, !.round = 0, !.answered = FALSE,
                                     !.resumable = FALSE, !.stray = FALSE]
    BY <1>1, <2>1, OverUpdate
  <2> QED BY <1>1, <2>1, <2>2 DEF IsSession, UserOf!SessionNext, UserOf!Over
<1>8. CASE WonThere(c, r, s)
  <2>1. /\ IsSession(ViewOf(u)', "room", o, l, p, n, TRUE, FALSE, TRUE)
        /\ p /\ ~w /\ n < TOTAL_ROUNDS /\ (a \/ o)
    BY <1>1, <1>2, <1>3, <1>8 DEF WonThere, SameState
  <2>2. ViewOf(u)' = [ViewOf(u) EXCEPT !.answered = TRUE, !.waiting = TRUE, !.voted = FALSE]
    BY <1>1, <2>1, WinUpdate
  <2> QED BY <1>1, <2>1, <2>2 DEF IsSession, UserOf!SessionNext, UserOf!Win
<1>9. CASE Answered(c, r, s)
  <2>1. IsSession(ViewOf(u)', "room", o, l, p, n, w, v, TRUE) /\ p /\ o
    BY <1>1, <1>2, <1>3, <1>9 DEF Answered, SameState, Unmoved
  <2>2. ViewOf(u)' = [ViewOf(u) EXCEPT !.answered = TRUE]
    BY <1>1, <2>1, AnswerUpdate
  <2>3. ViewOf(u).playing /\ ViewOf(u).online
    BY <1>1, <2>1 DEF IsSession
  <2>4. ViewOf(u).stray = FALSE
    BY <1>1 DEF IsSession
  <2> QED BY <2>2, <2>3, <2>4 DEF UserOf!SessionNext, UserOf!Answer
<1>10. CASE Voted(c, r, s)
  <2>1. IsSession(ViewOf(u)', "room", o, l, p, n, w, TRUE, a) /\ o /\ w /\ ~v
    BY <1>1, <1>2, <1>3, <1>10 DEF Voted, SameState, Unmoved
  <2>2. ViewOf(u)' = [ViewOf(u) EXCEPT !.voted = TRUE]
    BY <1>1, <2>1, VoteUpdate, ZenonT(30)
  <2>3. /\ ViewOf(u).place = "room"
        /\ ViewOf(u).online
        /\ ViewOf(u).waiting
        /\ ~ViewOf(u).voted
    BY <1>1, <2>1 DEF IsSession
  <2>4. ViewOf(u).stray = FALSE
    BY <1>1 DEF IsSession
  <2> QED BY <2>2, <2>3, <2>4 DEF UserOf!SessionNext, UserOf!Vote
<1> QED BY <1>4, <1>5, <1>6, <1>7, <1>8, <1>9, <1>10 DEF SeatStep

-----------------------------------------------------------------------------
\* Slot c stays at seat s of room r.
SatThere(c, r, s) ==
    /\ UserInv
    /\ c \in Clients /\ r \in Rooms /\ s \in Slots
    /\ active[c] /\ room_id[c] = r /\ player_index[c] = s

\* A step that leaves the room's game and the slot alone.
LEMMA QuietStep ==
    ASSUME NEW c, NEW r, NEW s, GameStays(r), SameState(c) PROVE SeatStep(c, r, s)
  BY DEF GameStays, Unmoved, Quiet, SeatStep

\* Who is seated at a room is nowhere else.
LEMMA SeatedHere ==
    ASSUME NEW c, NEW r, NEW s, SatThere(c, r, s), NEW q \in Rooms
    PROVE  c \in Seated(q) <=> q = r
  BY SeatedThere DEF SatThere, UserInv, MatchInv

\* A client with a connection is in the state that its room's game calls for.
LEMMA ServedState ==
    ASSUME UserInv, NEW k \in Clients, Serving(k), room_id[k] # None
    PROVE  /\ game_started[room_id[k]] <=> state[k] = "IN_GAME"
           /\ state[k] # "DISCONNECTED" /\ room_id[k] \in Rooms /\ player_index[k] \in Slots
<1>1. room_id[k] \in Rooms /\ player_index[k] \in Slots
  BY DEF UserInv, MatchInv, SeatInv, TypeOK, ClientsOK, SeatsRight, WholeSeat, Serving
<1>2. state[k] # "DISCONNECTED"
  BY DEF Serving, UserInv, NameInv, Silenced, LostAt
<1> QED BY <1>1, <1>2 DEF UserInv, MatchInv, StateAgreement, Standing, Serving

\* READY and START_GAME of anybody.
LEMMA BeginSeat ==
    ASSUME NEW c, NEW r, NEW s, SatThere(c, r, s), NEW k \in Clients,
           handle_ready(k) \/ handle_start_game(k)
    PROVE  SeatStep(c, r, s)
<1>1. PICK q : q = room_id[k]
  OBVIOUS
<1>2. /\ Serving(k) /\ q # None /\ state[k] \in {"IN_ROOM", "READY"}
      /\ UNCHANGED connected
  BY <1>1 DEF handle_ready, handle_start_game, unchangedByRooms
<1>3. q \in Rooms /\ ~game_started[q] /\ state[k] # "DISCONNECTED"
  BY <1>1, <1>2, ServedState DEF SatThere
<1>4. PICK st \in [Clients -> ClientState] :
        /\ \A d \in Clients : d # k => st[d] = state[d]
        /\ st[k] # "DISCONNECTED"
        /\ \/ /\ room_start_game(q, current_round[q], st)
              /\ UNCHANGED submitted_answers
           \/ state' = st /\ UNCHANGED gameVars
  <2>1. CASE handle_start_game(k)
    <3>1. state \in [Clients -> ClientState]
      BY DEF SatThere, UserInv, NameInv, TypeOK, ClientsOK
    <3> QED BY <1>1, <1>3, <2>1, <3>1 DEF handle_start_game
  <2>2. CASE handle_ready(k)
    <3> DEFINE x == [player_ready[q] EXCEPT ![player_index[k]] = ~@][player_index[k]]
               st == [state EXCEPT ![k] = IF x THEN "READY" ELSE "IN_ROOM"]
    <3>1. st \in [Clients -> ClientState]
      BY DEF SatThere, UserInv, NameInv, TypeOK, ClientsOK, ClientState
    <3>2. /\ \A d \in Clients : d # k => st[d] = state[d]
          /\ st[k] # "DISCONNECTED"
      BY DEF SatThere, UserInv, NameInv, TypeOK, ClientsOK
    <3>3. \/ /\ room_start_game(q, current_round[q], st)
             /\ UNCHANGED submitted_answers
          \/ state' = st /\ UNCHANGED gameVars
      BY <1>1, <2>2 DEF handle_ready
    <3> HIDE DEF st
    <3> QED BY <3>1, <3>2, <3>3
  <2> QED BY <2>1, <2>2
<1>5. st[c] = "DISCONNECTED" <=> state[c] = "DISCONNECTED"
  BY <1>3, <1>4 DEF SatThere
<1>6. CASE state' = st /\ UNCHANGED gameVars
  BY <1>2, <1>5, <1>6, QuietStep DEF SameState, gameVars, GameStays
<1>7. CASE room_start_game(q, current_round[q], st) /\ UNCHANGED submitted_answers
  <2>1. CASE q # r
    <3>1. state'[c] = st[c]
      BY <1>3, <1>7, <2>1, SeatedHere DEF room_start_game, SatThere
    <3>2. GameStays(r)
      BY <1>3, <1>7, <2>1, StartElsewhere DEF SatThere, UserInv, NameInv
    <3> QED BY <1>2, <1>5, <3>1, <3>2, QuietStep DEF SameState
  <2>2. CASE q = r
    <3>1. state'[c] = "IN_GAME"
      BY <1>3, <1>7, <2>2, SeatedHere DEF room_start_game, SatThere
    <3> QED BY <1>2, <1>3, <1>7, <2>2, <3>1
            DEF room_start_game, SatThere, UserInv, NameInv, TypeOK, GamesOK, Started,
                SeatStep
  <2> QED BY <2>1, <2>2
<1> QED BY <1>4, <1>6, <1>7

\* READY_NEXT_ROUND of anybody.
LEMMA VoteSeat ==
    ASSUME NEW c, NEW r, NEW s, SatThere(c, r, s), NEW k \in Clients,
           handle_ready_next_round(k)
    PROVE  SeatStep(c, r, s)
<1>1. PICK q, p : q = room_id[k] /\ p = player_index[k]
  OBVIOUS
<1> DEFINE votes == [round_continue_ready[q] EXCEPT ![p] = TRUE]
<1>2. /\ Serving(k) /\ q # None
      /\ waiting_for_continue[q] /\ ~round_continue_ready[q][p]
      /\ UNCHANGED <<connected, submitted_answers>>
      /\ IF AllVoted(q, votes) THEN room_start_game(q, current_round[q] + 1, state)
         ELSE /\ round_continue_ready' = [round_continue_ready EXCEPT ![q] = votes]
              /\ UNCHANGED <<game_started, current_round, waiting_for_continue, state,
                             solution, answer_submitted>>
  BY <1>1 DEF handle_ready_next_round
<1>3. q \in Rooms /\ p \in Slots
  BY <1>1, <1>2, ServedState DEF SatThere
<1>4. votes[p] = TRUE /\ \A x \in Slots : x # p => votes[x] = round_continue_ready[q][x]
  BY <1>3 DEF SatThere, UserInv, NameInv, TypeOK, GamesOK
<1>5. q = r /\ p = s => k = c
  <2>1. /\ active[k] /\ active[c] /\ c \in Clients /\ r \in Rooms /\ s \in Slots
        /\ room_id[c] = r /\ player_index[c] = s
    BY <1>2 DEF SatThere, Serving
  <2>2. player_ids[r][s] = c /\ player_ids[q][p] = k
    BY <1>1, <1>3, <2>1 DEF SatThere, UserInv, MatchInv, SeatInv, SeatsRight, SeatConsistency
  <2> QED BY <2>2
<1>6. s \in TakenSeats(r)
  BY OwnSeat, SizesAssumption
     DEF SatThere, UserInv, MatchInv, SeatInv, TakenSeats, Clients, Rooms, None
<1> HIDE DEF votes
<1>7. CASE AllVoted(q, votes)
  <2>1. room_start_game(q, current_round[q] + 1, state)
    BY <1>2, <1>7
  <2>2. CASE q # r
    <3>1. state'[c] = state[c]
      BY <1>3, <2>1, <2>2, SeatedHere DEF room_start_game, SatThere
    <3>2. GameStays(r)
      BY <1>2, <1>3, <2>1, <2>2, StartElsewhere DEF SatThere, UserInv, NameInv
    <3> QED BY <1>2, <3>1, <3>2, QuietStep DEF SameState
  <2>3. CASE q = r
    <3>1. state'[c] = "IN_GAME"
      BY <1>3, <2>1, <2>3, SeatedHere DEF room_start_game, SatThere
    <3>2. round_continue_ready[r][s] \/ connected[c]
      BY <1>2, <1>4, <1>5, <1>6, <1>7, <2>3 DEF AllVoted, Serving, SatThere
    <3> QED BY <1>2, <1>3, <2>1, <2>3, <3>1, <3>2
            DEF room_start_game, SatThere, UserInv, NameInv, TypeOK, GamesOK, Started,
                SeatStep
  <2> QED BY <2>2, <2>3
<1>8. CASE ~AllVoted(q, votes)
  <2>1. /\ round_continue_ready' = [round_continue_ready EXCEPT ![q] = votes]
        /\ UNCHANGED <<game_started, current_round, waiting_for_continue, state, solution,
                       answer_submitted>>
    BY <1>2, <1>8
  <2>2. CASE q = r /\ p = s
    <3>1. round_continue_ready'[r][s]
      BY <1>3, <1>4, <2>1, <2>2 DEF SatThere, UserInv, NameInv, TypeOK, GamesOK
    <3> QED BY <1>2, <1>5, <2>1, <2>2, <3>1
            DEF Serving, Voted, SameState, Unmoved, SeatStep
  <2>3. CASE ~(q = r /\ p = s)
    <3>1. round_continue_ready'[r][s] = round_continue_ready[r][s]
      BY <1>3, <1>4, <2>1, <2>3 DEF SatThere, UserInv, NameInv, TypeOK, GamesOK
    <3> QED BY <1>2, <2>1, <3>1 DEF Quiet, SameState, Unmoved, SeatStep
  <2> QED BY <2>2, <2>3
<1> QED BY <1>7, <1>8

\* SUBMIT of anybody.
LEMMA SubmitSeat ==
    ASSUME NEW c, NEW r, NEW s, SatThere(c, r, s), NEW k \in Clients, NEW cell \in Cells,
           handle_submit(k, cell)
    PROVE  SeatStep(c, r, s)
<1>1. PICK q, p : q = room_id[k] /\ p = player_index[k]
  OBVIOUS
<1> DEFINE answers == [submitted_answers[q] EXCEPT ![p] = cell]
           given   == [answer_submitted[q] EXCEPT ![p] = TRUE]
<1>2. /\ Serving(k) /\ q # None /\ state[k] = "IN_GAME"
      /\ UNCHANGED connected
      /\ submitted_answers' = [submitted_answers EXCEPT ![q] = answers]
      /\ answer_submitted' = [answer_submitted EXCEPT ![q] = given]
      /\ IF AllAnswered(q, given) /\ ~waiting_for_continue[q] /\ game_started[q]
         THEN room_end_game(q, puzzle_verify_solution(q, answers))
         ELSE UNCHANGED progressVars
  BY <1>1 DEF handle_submit
<1>3. q \in Rooms /\ p \in Slots /\ game_started[q]
  BY <1>1, <1>2, ServedState DEF SatThere
<1>4. given[p] = TRUE /\ \A x \in Slots : x # p => given[x] = answer_submitted[q][x]
  BY <1>3 DEF SatThere, UserInv, NameInv, TypeOK, GamesOK
<1>5. q = r /\ p = s => k = c
  <2>1. /\ active[k] /\ active[c] /\ c \in Clients /\ r \in Rooms /\ s \in Slots
        /\ room_id[c] = r /\ player_index[c] = s
    BY <1>2 DEF SatThere, Serving
  <2>2. player_ids[r][s] = c /\ player_ids[q][p] = k
    BY <1>1, <1>3, <2>1 DEF SatThere, UserInv, MatchInv, SeatInv, SeatsRight, SeatConsistency
  <2> QED BY <2>2
<1>6. s \in TakenSeats(r)
  BY OwnSeat, SizesAssumption
     DEF SatThere, UserInv, MatchInv, SeatInv, TakenSeats, Clients, Rooms, None
<1> HIDE DEF answers, given
<1>7. /\ q = r => answer_submitted'[r][s] = given[s]
      /\ q # r => answer_submitted'[r] = answer_submitted[r]
                    /\ submitted_answers'[r] = submitted_answers[r]
  BY <1>2, <1>3 DEF SatThere, UserInv, NameInv, TypeOK, GamesOK
<1>8. CASE UNCHANGED progressVars
  <2>1. CASE q = r /\ p = s
    BY <1>2, <1>3, <1>4, <1>5, <1>7, <1>8, <2>1
       DEF progressVars, Serving, Answered, SameState, Unmoved, SeatStep
  <2>2. CASE ~(q = r /\ p = s)
    <3>1. answer_submitted'[r][s] = answer_submitted[r][s]
      BY <1>4, <1>7, <2>2 DEF SatThere
    <3> QED BY <1>2, <1>8, <3>1 DEF progressVars, Quiet, SameState, Unmoved, SeatStep
  <2> QED BY <2>1, <2>2
<1>9. ASSUME NEW won, room_end_game(q, won), AllAnswered(q, given), ~waiting_for_continue[q]
      PROVE  SeatStep(c, r, s)
  <2>1. CASE q # r
    <3>1. state'[c] = state[c]
      BY <1>3, <1>9, <2>1, SeatedHere DEF room_end_game, RoundWon, GamesOver, SatThere
    <3>2. GameStays(r)
      BY <1>3, <1>7, <1>9, <2>1, EndElsewhere DEF GameStays, SatThere, UserInv, NameInv
    <3> QED BY <1>2, <3>1, <3>2, QuietStep DEF SameState
  <2>2. CASE q = r /\ RoundWon(q) /\ current_round[q] < TOTAL_ROUNDS
    <3>1. answer_submitted'[r][s] /\ (answer_submitted[r][s] \/ connected[c])
      BY <1>2, <1>4, <1>5, <1>6, <1>7, <1>9, <2>2 DEF AllAnswered, Serving, SatThere
    <3>2. /\ waiting_for_continue'[r] /\ ~round_continue_ready'[r][s]
          /\ UNCHANGED <<game_started, current_round, state>>
      BY <1>3, <2>2 DEF RoundWon, SatThere, UserInv, NameInv, TypeOK, GamesOK
    <3> QED BY <1>2, <1>3, <1>9, <2>2, <3>1, <3>2 DEF WonThere, SameState, SeatStep
  <2>3. CASE q = r /\ GamesOver({q})
    <3>1. state'[c] = "IN_ROOM"
      BY <1>3, <2>3, SeatedHere DEF GamesOver, SatThere
    <3>2. ~game_started'[r] /\ current_round'[r] = 0
      BY <1>3, <2>3 DEF GamesOver
    <3>3. UNCHANGED <<waiting_for_continue, round_continue_ready>>
      BY <2>3 DEF GamesOver
    <3> QED BY <1>2, <1>3, <2>3, <3>1, <3>2, <3>3 DEF Ended, SeatStep
  <2> QED BY <1>9, <2>1, <2>2, <2>3 DEF room_end_game
<1> QED BY <1>2, <1>3, <1>8, <1>9

\* The game timers.
LEMMA TickSeat ==
    ASSUME NEW c, NEW r, NEW s, SatThere(c, r, s), Tick PROVE SeatStep(c, r, s)
<1>1. GamesOver(TimeIsUp) /\ UNCHANGED <<connected, submitted_answers, answer_submitted>>
  BY DEF Tick
<1>2. TimeIsUp \subseteq Rooms
  BY DEF TimeIsUp
<1>3. (\E q \in TimeIsUp : c \in Seated(q)) <=> r \in TimeIsUp
  BY <1>2, SeatedHere
<1>4. CASE r \in TimeIsUp
  <2>1. state'[c] = "IN_ROOM"
    BY <1>1, <1>3, <1>4 DEF GamesOver, SatThere
  <2>2. game_started[r] /\ ~game_started'[r] /\ current_round'[r] = 0
    BY <1>1, <1>2, <1>4 DEF GamesOver, TimeIsUp
  <2>3. UNCHANGED <<waiting_for_continue, round_continue_ready>>
    BY <1>1 DEF GamesOver
  <2> QED BY <1>1, <2>1, <2>2, <2>3 DEF Ended, SeatStep
<1>5. CASE r \notin TimeIsUp
  <2>1. state'[c] = state[c]
    BY <1>1, <1>3, <1>5 DEF GamesOver, SatThere
  <2>2. GameStays(r)
    BY <1>1, <1>5 DEF Tick, Announce, GamesOver, GameStays, SatThere, UserInv,
                         NameInv, TypeOK, GamesOK
  <2> QED BY <1>1, <2>1, <2>2, QuietStep DEF SameState
<1> QED BY <1>4, <1>5

\* Somebody else leaves: the room, which is still in use, and its game stay.
LEMMA RemoveSeat ==
    ASSUME NEW c, NEW r, NEW s, SatThere(c, r, s), NEW k \in Clients, k # c,
           active[k], room_id[k] # None, NEW st, NEW host,
           RemovePlayer(room_id[k], k, st, host), connected'[c] = connected[c], room_active'[r]
    PROVE  SeatStep(c, r, s)
<1>1. PICK q, p : q = room_id[k] /\ p = player_index[k]
  OBVIOUS
<1>2. q \in Rooms /\ Evicted(q, k) = {}
  BY <1>1, Departure DEF SatThere, UserInv, MatchInv, SeatInv, TypeOK, ClientsOK
<1>3. state'[c] = state[c]
  BY <1>1, <1>2 DEF RemovePlayer, SatThere
<1>4. CASE player_count[q] = 1
  <2>1. ZeroGame(q) /\ room_active' = [room_active EXCEPT ![q] = FALSE]
    BY <1>1, <1>4 DEF RemovePlayer
  <2>2. q # r
    BY <1>2, <2>1 DEF SatThere, UserInv, NameInv, TypeOK, RoomsOK
  <2> QED BY <1>2, <1>3, <2>1, <2>2, ZeroElsewhere, QuietStep
          DEF SameState, SatThere, UserInv, NameInv
<1>5. CASE player_count[q] # 1
  <2>1. GameStays(r)
    BY <1>1, <1>5 DEF RemovePlayer, gameVars, GameStays
  <2> QED BY <1>3, <2>1, QuietStep DEF SameState
<1> QED BY <1>4, <1>5

LEMMA DisconnectSeat ==
    ASSUME NEW c, NEW r, NEW s, SatThere(c, r, s), NEW k \in Clients, active[k],
           client_disconnect(k), active'[c], room_active'[r]
    PROVE  SeatStep(c, r, s)
<1>1. k # c /\ connected'[c] = connected[c]
  BY DEF client_disconnect, SatThere, UserInv, NameInv, TypeOK, ClientsOK
<1>2. CASE room_id[k] # None
  BY <1>1, <1>2, RemoveSeat DEF client_disconnect
<1>3. CASE room_id[k] = None
  <2>1. state'[c] = state[c] /\ GameStays(r)
    BY <1>1, <1>3 DEF client_disconnect, gameVars, GameStays, SatThere, UserInv, NameInv,
                      TypeOK, ClientsOK
  <2> QED BY <1>1, <2>1, QuietStep DEF SameState
<1> QED BY <1>2, <1>3

\* A connection is opened or lost; who opens one has no seat yet.
LEMMA DoorSeat ==
    ASSUME ~FdAlias, NEW c, NEW r, NEW s, SatThere(c, r, s), NEW k \in Clients,
           client_accept \/ ConnectionLost(k) \/ AliasedRead(k)
    PROVE  SeatStep(c, r, s)
<1>1. /\ GameStays(r) /\ Unmoved(r)
      /\ round_continue_ready'[r][s] = round_continue_ready[r][s]
      /\ answer_submitted'[r][s] = answer_submitted[r][s]
  BY DEF client_accept, ConnectionLost, AliasedRead, client_mark_disconnected, gameVars,
         GameStays, Unmoved
<1>2. CASE client_accept
  <2> DEFINE n == Least({d \in Clients : ~active[d]})
  <2>1. n \in Clients /\ ~active[n]
    <3>1. n \in {d \in Clients : ~active[d]}
      BY <1>2, LeastClient DEF client_accept
    <3> QED BY <3>1
  <2>2. /\ connected' = [connected EXCEPT ![n] = TRUE]
        /\ state' = [state EXCEPT ![n] = "CONNECTED"]
    BY <1>2 DEF client_accept
  <2> HIDE DEF n
  <2> QED BY <1>1, <2>1, <2>2, QuietStep
          DEF SameState, SatThere, UserInv, NameInv, TypeOK, ClientsOK
<1>3. CASE ConnectionLost(k)
  <2>1. /\ connected[k]
        /\ connected' = [connected EXCEPT ![k] = FALSE]
        /\ state' = [state EXCEPT ![k] = "DISCONNECTED"]
    BY <1>3 DEF ConnectionLost, Serving, client_mark_disconnected
  <2>2. CASE k = c
    BY <1>1, <2>1, <2>2 DEF CutOff, SeatStep, SatThere, UserInv, NameInv, TypeOK, ClientsOK
  <2>3. CASE k # c
    BY <1>1, <2>1, <2>3, QuietStep
       DEF SameState, SatThere, UserInv, NameInv, TypeOK, ClientsOK
  <2> QED BY <2>2, <2>3
<1> QED BY <1>2, <1>3 DEF AliasedRead

\* LOGIN, CREATE_ROOM and JOIN_ROOM come from clients without a room.
LEMMA EntrySeat ==
    ASSUME AtTheDoor, NEW c, NEW r, NEW s, SatThere(c, r, s), active'[c], NEW k \in Clients,
           \/ SendsLogin(k) /\ \E u \in Users : handle_login(k, u)
           \/ handle_create_room(k)
           \/ \E q \in Rooms : handle_join_room(k, q)
    PROVE  SeatStep(c, r, s)
<1>1. k # c
  <2>1. room_id[k] = None
    BY DEF handle_login, login_fresh, login_resume, handle_create_room, handle_join_room,
           SendsLogin, Serving, AtTheDoor, Outside, SatThere, UserInv, MatchInv, SeatInv,
           Roomless, RoomlessAt
  <2>2. room_id[c] # None
    BY SizesAssumption DEF SatThere, Rooms, None
  <2> QED BY <2>1, <2>2
<1>2. ASSUME NEW u \in Users, login_fresh(k, u) PROVE SeatStep(c, r, s)
  <2>1. SameState(c) /\ GameStays(r)
    BY <1>1, <1>2 DEF login_fresh, gameVars, GameStays, SameState, SatThere, UserInv, NameInv,
                      TypeOK, ClientsOK
  <2> QED BY <2>1, QuietStep
<1>3. ASSUME NEW u \in Users, login_resume(k, u) PROVE SeatStep(c, r, s)
  <2> DEFINE old == Least(ScanStops(k, u))
  <2>1. /\ state' = [state EXCEPT ![k] = saved_state[old], ![old] = "CONNECTED"]
        /\ active' = [active EXCEPT ![old] = FALSE]
        /\ connected' = [connected EXCEPT ![old] = FALSE]
        /\ UNCHANGED gameVars
    BY <1>3 DEF login_resume
  <2> HIDE DEF old
  <2>2. old # c
    BY <2>1 DEF SatThere, UserInv, NameInv, TypeOK, ClientsOK
  <2>3. SameState(c) /\ GameStays(r)
    BY <1>1, <2>1, <2>2 DEF gameVars, GameStays, SameState, SatThere, UserInv, NameInv,
                            TypeOK, ClientsOK
  <2> QED BY <2>3, QuietStep
<1>4. CASE handle_create_room(k)
  <2> DEFINE q == Least({p \in Rooms : ~room_active[p]})
  <2>1. q \in Rooms /\ ~room_active[q]
    <3>1. q \in {p \in Rooms : ~room_active[p]}
      BY <1>4, LeastRoom DEF handle_create_room
    <3> QED BY <3>1
  <2>2. /\ ZeroGame(q) /\ state' = [state EXCEPT ![k] = "IN_ROOM"] /\ UNCHANGED connected
    BY <1>4 DEF handle_create_room, unchangedByRooms
  <2> HIDE DEF q
  <2>3. q # r
    <3>1. room_active[r]
      BY OwnRoomActive, SizesAssumption DEF SatThere, UserInv, MatchInv, Rooms, None
    <3> QED BY <2>1, <3>1
  <2>4. GameStays(r)
    BY <2>1, <2>2, <2>3, ZeroElsewhere DEF SatThere, UserInv, NameInv
  <2>5. SameState(c)
    BY <1>1, <2>2 DEF SameState, SatThere, UserInv, NameInv, TypeOK, ClientsOK
  <2> QED BY <2>4, <2>5, QuietStep
<1>5. ASSUME NEW q \in Rooms, handle_join_room(k, q) PROVE SeatStep(c, r, s)
  <2>1. SameState(c) /\ GameStays(r)
    BY <1>1, <1>5 DEF handle_join_room, room_join, unchangedByRooms, gameVars, GameStays,
                      SameState, SatThere, UserInv, NameInv, TypeOK, ClientsOK
  <2> QED BY <2>1, QuietStep
<1> QED BY <1>2, <1>3, <1>4, <1>5 DEF handle_login

\* Every step that leaves slot c at its seat.
LEMMA SeatSteps ==
    ASSUME AtTheDoor, ~FdAlias, NEW c, NEW r, NEW s, SatThere(c, r, s), [Next]_vars,
           active'[c], room_id'[c] = r, room_active'[r]
    PROVE  SeatStep(c, r, s)
<1>1. CASE UNCHANGED vars \/ Clock \/ SweepDone \/ \E k \in Clients : handle_pong(k)
  <2>1. SameState(c) /\ GameStays(r)
    BY <1>1 DEF vars, Clock, SweepDone, handle_pong, clientVars, gameVars, GameStays,
                SameState
  <2> QED BY <2>1, QuietStep
<1>2. CASE check_ping_timeouts \/ check_reconnect_timeouts
  <2>1. Silent # {} => Least(Silent) \in Silent
    BY LeastClient DEF Silent
  <2>2. Expired # {} => Least(Expired) \in Expired
    BY LeastClient DEF Expired
  <2>3. PICK k \in Clients : active[k] /\ client_disconnect(k)
    BY <1>2, <2>1, <2>2 DEF check_ping_timeouts, check_reconnect_timeouts, Silent, Expired
  <2> QED BY <2>3, DisconnectSeat
<1>3. ASSUME NEW k \in Clients, handle_leave_room(k) PROVE SeatStep(c, r, s)
  <2>1. /\ active[k] /\ room_id[k] # None
        /\ RemovePlayer(room_id[k], k, "IN_LOBBY", NextHost(room_id[k], k))
        /\ connected'[c] = connected[c]
    BY <1>3 DEF handle_leave_room, Serving, unchangedByRooms
  <2>2. room_id'[k] = None
    BY <2>1 DEF RemovePlayer
  <2>3. k # c
    BY <2>2, SizesAssumption DEF SatThere, Rooms, None
  <2> QED BY <2>1, <2>3, RemoveSeat
<1>4. 0 \in Clients
  BY SizesAssumption DEF Clients
<1> QED BY <1>1, <1>2, <1>3, <1>4, DoorSeat, EntrySeat, BeginSeat, SubmitSeat, VoteSeat,
           TickSeat
        DEF Next, handle_message, Periodic, Sweep

-----------------------------------------------------------------------------
\* A lost session outside any room is told nothing and touched by nobody.
LEMMA LobbyStays ==
    ASSUME AtTheDoor, ~FdAlias, UserInv, [Next]_vars, NEW c \in Clients,
           active[c], active'[c], ~connected[c], room_id[c] = None
    PROVE  state'[c] = state[c]
<1>1. \A q \in Rooms : c \notin Seated(q)
  BY SeatedThere, SizesAssumption DEF UserInv, MatchInv, Rooms, None
<1>2. /\ TypeOK
      /\ \A k \in Clients : active[k] /\ room_id[k] # None =>
           room_id[k] \in Rooms /\ Evicted(room_id[k], k) = {}
  BY Departure DEF UserInv, NameInv, MatchInv, SeatInv, TypeOK, ClientsOK
<1>3. CASE UNCHANGED vars \/ Clock \/ SweepDone \/ \E k \in Clients : handle_pong(k)
  BY <1>3 DEF vars, Clock, SweepDone, handle_pong, clientVars
<1>4. CASE Tick
  BY <1>1, <1>4 DEF Tick, GamesOver, TimeIsUp
<1>5. CASE check_ping_timeouts \/ check_reconnect_timeouts
  <2>1. Silent # {} => Least(Silent) \in Silent
    BY LeastClient DEF Silent
  <2>2. Expired # {} => Least(Expired) \in Expired
    BY LeastClient DEF Expired
  <2>3. PICK k \in Clients : active[k] /\ client_disconnect(k)
    BY <1>5, <2>1, <2>2 DEF check_ping_timeouts, check_reconnect_timeouts, Silent, Expired
  <2>4. k # c
    BY <1>2, <2>3 DEF client_disconnect, TypeOK, ClientsOK
  <2>5. CASE room_id[k] = None
    BY <1>2, <2>3, <2>4, <2>5 DEF client_disconnect, TypeOK, ClientsOK
  <2>6. CASE room_id[k] # None
    BY <1>2, <2>3, <2>4, <2>6 DEF client_disconnect, RemovePlayer
  <2> QED BY <2>5, <2>6
<1>6. CASE client_accept
  <2> DEFINE n == Least({d \in Clients : ~active[d]})
  <2>1. n \in {d \in Clients : ~active[d]} /\ state' = [state EXCEPT ![n] = "CONNECTED"]
    BY <1>6, LeastClient DEF client_accept
  <2> HIDE DEF n
  <2> QED BY <1>2, <2>1 DEF TypeOK, ClientsOK
<1>7. ASSUME NEW k \in Clients, ConnectionLost(k) \/ AliasedRead(k)
      PROVE  state'[c] = state[c]
  <2>1. connected[k] /\ state' = [state EXCEPT ![k] = "DISCONNECTED"]
    BY <1>7 DEF ConnectionLost, AliasedRead, Serving, client_mark_disconnected
  <2> QED BY <1>2, <2>1 DEF TypeOK, ClientsOK
<1>8. ASSUME NEW k \in Clients, NEW u \in Users, handle_login(k, u)
      PROVE  state'[c] = state[c]
  <2>1. k # c
    BY <1>8 DEF handle_login, login_fresh, login_resume, Serving
  <2>2. CASE login_fresh(k, u)
    BY <1>2, <2>1, <2>2 DEF login_fresh, TypeOK, ClientsOK
  <2>3. CASE login_resume(k, u)
    <3> DEFINE old == Least(ScanStops(k, u))
    <3>1. /\ state' = [state EXCEPT ![k] = saved_state[old], ![old] = "CONNECTED"]
          /\ active' = [active EXCEPT ![old] = FALSE]
      BY <2>3 DEF login_resume
    <3> HIDE DEF old
    <3> QED BY <1>2, <2>1, <3>1 DEF TypeOK, ClientsOK
  <2> QED BY <1>8, <2>2, <2>3 DEF handle_login
<1>9. ASSUME NEW k \in Clients, handle_create_room(k) \/ \E q \in Rooms : handle_join_room(k, q)
      PROVE  state'[c] = state[c]
  BY <1>2, <1>9 DEF handle_create_room, handle_join_room, room_join, Serving, TypeOK,
                    ClientsOK
<1>10. ASSUME NEW k \in Clients, handle_leave_room(k) PROVE state'[c] = state[c]
  BY <1>2, <1>10 DEF handle_leave_room, RemovePlayer, Serving
<1>11. ASSUME NEW k \in Clients, \/ handle_ready(k) \/ handle_start_game(k)
                                 \/ handle_ready_next_round(k)
                                 \/ \E cell \in Cells : handle_submit(k, cell)
       PROVE  state'[c] = state[c]
  <2>1. PICK q : q = room_id[k]
    OBVIOUS
  <2>2. Serving(k) /\ q # None
    BY <1>11, <2>1 DEF handle_ready, handle_start_game, handle_ready_next_round,
                       handle_submit
  <2>3. q \in Rooms /\ k # c
    BY <1>2, <2>1, <2>2 DEF Serving
  <2>4. \A n, st : room_start_game(q, n, st) => state'[c] = st[c]
    BY <1>1, <2>3 DEF room_start_game
  <2>5. \A won : room_end_game(q, won) => state'[c] = state[c]
    BY <1>1, <2>3 DEF room_end_game, RoundWon, GamesOver
  <2>6. \A x : [state EXCEPT ![k] = x][c] = state[c]
    BY <1>2, <2>3 DEF TypeOK, ClientsOK
  <2>7. CASE handle_ready(k)
    BY <2>1, <2>4, <2>6, <2>7 DEF handle_ready
  <2>8. CASE handle_start_game(k) \/ handle_ready_next_round(k)
    BY <2>1, <2>4, <2>8 DEF handle_start_game, handle_ready_next_round
  <2>9. CASE \E cell \in Cells : handle_submit(k, cell)
    BY <2>1, <2>5, <2>9 DEF handle_submit, progressVars
  <2> QED BY <1>11, <2>7, <2>8, <2>9
<1> QED BY <1>3, <1>4, <1>5, <1>6, <1>7, <1>8, <1>9, <1>10, <1>11
        DEF Next, handle_message, Periodic, Sweep

\* The slot of a session that stays in it.
LEMMA KeptSlot ==
    ASSUME AtTheDoor, UserInv, [Next]_vars, NEW u \in Users, NEW c \in Clients,
           active[c], username[c] = u, active'[c], username'[c] = u
    PROVE  \/ /\ connected'[c] = connected[c] /\ room_id'[c] = room_id[c]
              /\ room_id[c] # None => player_index'[c] = player_index[c]
           \/ Lost(c) \/ LeftSeat(c)
           \/ \E r \in Rooms, s \in Slots : TookSeat(c, r, s)
<1>1. CASE Still
  BY <1>1 DEF Still, OnlyAt
<1>2. ASSUME NEW k \in Clients, k # c, OnlyAt({k})
      PROVE  /\ connected'[c] = connected[c] /\ room_id'[c] = room_id[c]
             /\ player_index'[c] = player_index[c]
  BY <1>2 DEF OnlyAt
<1>3. ASSUME NEW k \in Clients, NEW w \in Users, NEW old \in Clients, Resumed(k, old, w)
      PROVE  /\ connected'[c] = connected[c] /\ room_id'[c] = room_id[c]
             /\ player_index'[c] = player_index[c]
  <2>1. old # c
    BY <1>3 DEF Resumed
  <2>2. k # c
    BY <1>3, InputsAssumption DEF Resumed, UserInv, NameInv, SingleSession
  <2> QED BY <1>3, <2>1, <2>2 DEF Resumed, OnlyAt
<1>4. ASSUME NEW w \in Users, Entered(c, w)
      PROVE  connected'[c] = connected[c] /\ room_id'[c] = room_id[c] /\ room_id[c] = None
  BY <1>4 DEF Entered, Serving, UserInv, NameInv, TypeOK, ClientsOK
<1>5. ~Opened(c) /\ ~Removed(c)
  BY DEF Opened, Removed
<1>6. ASSUME NEW k \in Clients, Moves(k)
      PROVE  \/ /\ connected'[c] = connected[c] /\ room_id'[c] = room_id[c]
                /\ room_id[c] # None => player_index'[c] = player_index[c]
             \/ Lost(c) \/ LeftSeat(c)
             \/ \E r \in Rooms, s \in Slots : TookSeat(c, r, s)
  <2>1. CASE \E w \in Users, old \in Clients : Resumed(k, old, w)
    BY <1>3, <2>1
  <2>2. CASE ~\E w \in Users, old \in Clients : Resumed(k, old, w)
    <3>1. OnlyAt({k})
      BY <1>6, <2>2 DEF Moves, Opened, Lost, Entered, TookSeat, LeftSeat, Removed
    <3> QED BY <1>2, <1>4, <1>5, <1>6, <2>2, <3>1 DEF Moves
  <2> QED BY <2>1, <2>2
<1> QED BY <1>1, <1>6, Movement DEF UserInv, MatchInv

-----------------------------------------------------------------------------
\* User u has its session in slot c.
Holds(u, c) == active[c] /\ username[c] = u

\* The user's session takes a step, or none.
Served(u) == UNCHANGED ViewOf(u) \/ UserOf(u)!SessionNext

LEMMA SameBlank ==
    ASSUME NEW u
    PROVE  UserOf(u)!NoSession = Blank!NoSession /\ UserOf(u)!InLobby = Blank!InLobby
  BY DEF UserOf!NoSession, UserOf!InLobby, Blank!NoSession, Blank!InLobby

\* A session with a connection in the lobby is the one LOGIN gives.
LEMMA LobbySession ==
    ASSUME NEW you, IsSession(you, "lobby", TRUE, FALSE, FALSE, 0, FALSE, FALSE, FALSE)
    PROVE  you = Blank!InLobby
  BY BlankSessions, SameSession

LEMMA SitUpdate ==
    ASSUME NEW me, NEW you, NEW w, NEW v,
           IsSession(me, "lobby", TRUE, FALSE, FALSE, 0, FALSE, FALSE, FALSE),
           IsSession(you, "room", TRUE, FALSE, FALSE, 0, w, v, FALSE)
    PROVE  you = [me EXCEPT !.place = "room", !.waiting = w, !.voted = v]
<1>1. /\ me \in Blank!Session /\ you \in Blank!Session
      /\ you.place = "room" /\ you.stray = me.stray /\ you.playing = me.playing
      /\ you.round = me.round /\ you.waiting = w /\ you.voted = v
      /\ you.answered = me.answered /\ you.online = me.online
      /\ you.resumable = me.resumable
  BY DEF IsSession
<1> QED BY <1>1 DEF Blank!Session

\* What the steps of a user's session start from and lead to.
UserStepInv ==
    AtTheDoor /\ ~FdAlias /\ UserInv /\ Sights /\ [Next]_vars

\* A user without a session gets one by LOGIN only.
LEMMA EnterServed ==
    ASSUME UserStepInv, UserInv', Sights', NEW u \in Users, NEW c \in Clients,
           \A d \in Clients : ~Holds(u, d), Holds(u, c)'
    PROVE  Served(u)
<1>1. ViewOf(u) = Blank!NoSession
  BY Unseen DEF Holds
<1>2. ~Holds(u, c) /\ active'[c] /\ username'[c] = u
  BY DEF Holds
<1>3. PICK k \in Clients : Moves(k)
  <2>1. ~Still
    BY <1>2 DEF Still, OnlyAt, Holds
  <2> QED BY <2>1, Movement DEF UserStepInv, UserInv, MatchInv
<1>4. ASSUME NEW w \in Users, NEW old \in Clients PROVE ~Resumed(k, old, w)
  <2>1. SUFFICES ASSUME Resumed(k, old, w) PROVE FALSE
    OBVIOUS
  <2>2. c = k
    BY <1>2, <2>1 DEF Resumed, OnlyAt, Holds
  <2> QED BY <1>2, <2>1, <2>2 DEF Resumed, Holds
<1>5. OnlyAt({k}) /\ k = c
  <2>1. OnlyAt({k})
    BY <1>3, <1>4 DEF Moves, Opened, Lost, Entered, TookSeat, LeftSeat, Removed
  <2> QED BY <1>2, <2>1 DEF OnlyAt, Holds
<1>6. PICK w \in Users : Entered(c, w)
  BY <1>2, <1>3, <1>4, <1>5, InputsAssumption
     DEF Moves, Opened, Lost, TookSeat, LeftSeat, Removed, Stays, Holds
<1>7. connected'[c] /\ room_id'[c] = None
  BY <1>6 DEF Entered
<1>8. connected'[c] = TRUE /\ (state'[c] = "DISCONNECTED") = FALSE
  BY <1>2, <1>7 DEF UserInv, NameInv, Silenced, LostAt, TypeOK, ClientsOK
<1>9. LobbyAt(ViewOf(u), c)'
  BY <1>2, <1>7 DEF Sights
<1>10. ViewOf(u)' = Blank!InLobby
  BY <1>8, <1>9, LobbySession DEF LobbyAt
<1> QED BY <1>1, <1>10, SameBlank
        DEF Served, UserOf!SessionNext, UserOf!Enter, Blank!NoSession

\* A session moves to another slot when its user resumes it.
LEMMA ResumeServed ==
    ASSUME UserStepInv, UserInv', Sights', NEW u \in Users, NEW c \in Clients,
           NEW d \in Clients, c # d, Holds(u, c), Holds(u, d)'
    PROVE  Served(u)
<1>1. /\ active[c] /\ username[c] = u /\ active'[d] /\ username'[d] = u
      /\ ~Holds(u, d)
  BY InputsAssumption DEF Holds, UserStepInv, UserInv, NameInv, SingleSession
<1>2. PICK k \in Clients : Moves(k)
  <2>1. ~Still
    BY <1>1 DEF Still, OnlyAt, Holds
  <2> QED BY <2>1, Movement DEF UserStepInv, UserInv, MatchInv
<1>3. PICK w \in Users, old \in Clients : Resumed(k, old, w)
  <2> SUFFICES ASSUME ~\E w \in Users, old \in Clients : Resumed(k, old, w) PROVE FALSE
    OBVIOUS
  <2>1. OnlyAt({k})
    BY <1>2 DEF Moves, Opened, Lost, Entered, TookSeat, LeftSeat, Removed
  <2>2. k = d
    BY <1>1, <2>1 DEF OnlyAt, Holds
  <2>3. active'[c] /\ username'[c] = u
    BY <1>1, <2>1, <2>2 DEF OnlyAt
  <2> QED BY <1>1, <2>3, InputsAssumption DEF UserInv, NameInv, SingleSession
<1>4. k = d /\ w = u /\ old = c
  <2>1. k = d
    BY <1>1, <1>3 DEF Resumed, OnlyAt, Holds
  <2>2. w = u
    BY <1>1, <1>3, <2>1 DEF Resumed
  <2> QED BY <1>1, <1>3, <2>1, <2>2, InputsAssumption
          DEF Resumed, UserStepInv, UserInv, NameInv, SingleSession
<1>5. Resumed(d, c, u)
  BY <1>3, <1>4
<1>6. /\ connected[c] = FALSE /\ (state[c] = "DISCONNECTED") = TRUE
      /\ connected'[d] = TRUE /\ (state'[d] = "DISCONNECTED") = FALSE
      /\ room_id'[d] = room_id[c] /\ player_index'[d] = player_index[c]
      /\ UNCHANGED gameVars
  BY <1>1, <1>5 DEF Resumed, Resumable, UserInv, UserStepInv, NameInv, Silenced, LostAt,
                    TypeOK, ClientsOK
<1>7. ViewOf(u)' = [ViewOf(u) EXCEPT !.online = TRUE, !.resumable = FALSE]
  <2>1. CASE room_id[c] = None
    <3>1. LobbyAt(ViewOf(u), c) /\ LobbyAt(ViewOf(u), d)'
      BY <1>1, <1>6, <2>1 DEF Sights, UserStepInv
    <3>2. /\ IsSession(ViewOf(u), "lobby", FALSE, TRUE, FALSE, 0, FALSE, FALSE, FALSE)
          /\ IsSession(ViewOf(u)', "lobby", TRUE, FALSE, FALSE, 0, FALSE, FALSE, FALSE)
      BY <1>6, <3>1 DEF LobbyAt
    <3> QED BY <3>2, ResumeUpdate
  <2>2. CASE room_id[c] # None
    <3>1. SeatAt(ViewOf(u), c) /\ SeatAt(ViewOf(u), d)'
      BY <1>1, <1>6, <2>2 DEF Sights, UserStepInv
    <3>2. PICK r, s, p, n, x, y, z :
            /\ r = room_id[c] /\ s = player_index[c]
            /\ p = game_started[r] /\ n = current_round[r] /\ x = waiting_for_continue[r]
            /\ y = round_continue_ready[r][s] /\ z = answer_submitted[r][s]
      OBVIOUS
    <3>3. IsSession(ViewOf(u), "room", FALSE, TRUE, p, n, x, x /\ y, p /\ z)
      BY <1>6, <3>1, <3>2 DEF SeatAt
    <3>4. /\ room_id'[d] = r /\ player_index'[d] = s
          /\ p = game_started'[r] /\ n = current_round'[r] /\ x = waiting_for_continue'[r]
          /\ y = round_continue_ready'[r][s] /\ z = answer_submitted'[r][s]
      BY <1>6, <3>2 DEF gameVars
    <3>5. IsSession(ViewOf(u)', "room", TRUE, FALSE, p, n, x, x /\ y, p /\ z)
      BY <1>6, <3>1, <3>4 DEF SeatAt
    <3> QED BY <3>3, <3>5, ResumeUpdate
  <2> QED BY <2>1, <2>2
<1>8. ViewOf(u).place # "out" /\ ~ViewOf(u).online /\ ViewOf(u).resumable
  <2>1. LobbyAt(ViewOf(u), c) \/ SeatAt(ViewOf(u), c)
    BY <1>1 DEF Sights, UserStepInv
  <2>2. ASSUME LobbyAt(ViewOf(u), c)
        PROVE  ViewOf(u).place # "out" /\ ~ViewOf(u).online /\ ViewOf(u).resumable
    BY <1>6, <2>2 DEF LobbyAt, IsSession
  <2>3. ASSUME SeatAt(ViewOf(u), c)
        PROVE  ViewOf(u).place # "out" /\ ~ViewOf(u).online /\ ViewOf(u).resumable
    BY <1>6, <2>3 DEF SeatAt, IsSession
  <2> QED BY <2>1, <2>2, <2>3
<1> QED BY <1>7, <1>8 DEF Served, UserOf!SessionNext, UserOf!Resume

\* A session that is gone was given up.
LEMMA GoneServed ==
    ASSUME UserStepInv, Sights', NEW u \in Users, NEW c \in Clients,
           Holds(u, c), \A d \in Clients : ~Holds(u, d)'
    PROVE  Served(u)
<1>1. ViewOf(u).place # "out"
  BY DEF Holds, Sights, UserStepInv, LobbyAt, SeatAt, IsSession
<1>2. ViewOf(u)' = Blank!NoSession
  BY DEF Holds, Sights
<1> QED BY <1>1, <1>2, SameBlank DEF Served, UserOf!SessionNext, UserOf!GiveUp

\* After a step as before it, a room with a client is in use, and the users see
\* what the tables say.
LEMMA RoomInUse ==
    UserInv => \A c \in Clients : active[c] /\ room_id[c] # None => room_active[room_id[c]]
  BY OwnRoomActive DEF UserInv, MatchInv

LEMMA RoomInUseNext ==
    UserInv' =>
      \A c \in Clients : active'[c] /\ room_id'[c] # None => room_active'[room_id'[c]]
<1>1. UserInv' =>
        (\A c \in Clients : active[c] /\ room_id[c] # None => room_active[room_id[c]])'
  BY RoomInUse, PTL
<1> QED BY <1>1

LEMMA SeenNext == UserInv' => Sights'
  BY Seen, PTL

\* A session that stays in its slot and in the lobby.
LEMMA LobbyServed ==
    ASSUME UserStepInv, UserInv', Sights', NEW u \in Users, NEW c \in Clients,
           Holds(u, c), Holds(u, c)', room_id[c] = None, room_id'[c] = None
    PROVE  Served(u)
<1>1. /\ active[c] /\ username[c] = u /\ active'[c] /\ username'[c] = u
      /\ LobbyAt(ViewOf(u), c) /\ LobbyAt(ViewOf(u), c)'
  BY DEF Holds, Sights, UserStepInv
<1>2. Lost(c) \/ SameState(c)
  <2>1. Lost(c) \/ connected'[c] = connected[c]
    BY <1>1, KeptSlot DEF UserStepInv, TookSeat, LeftSeat, Stays
  <2>2. ASSUME connected'[c] = connected[c], connected[c] PROVE SameState(c)
    BY <1>1, <2>2
       DEF SameState, UserStepInv, UserInv, NameInv, Silenced, LostAt
  <2>3. ASSUME connected'[c] = connected[c], ~connected[c] PROVE SameState(c)
    BY <1>1, <2>3, LobbyStays DEF SameState, UserStepInv
  <2> QED BY <2>1, <2>2, <2>3
<1>3. CASE Lost(c)
  <2>1. /\ connected[c] = TRUE /\ connected'[c] = FALSE
        /\ (state'[c] = "DISCONNECTED") = TRUE
    BY <1>3 DEF Lost, UserStepInv, UserInv, NameInv, TypeOK, ClientsOK
  <2>2. PICK l : /\ IsSession(ViewOf(u), "lobby", TRUE, l, FALSE, 0, FALSE, FALSE, FALSE)
                 /\ IsSession(ViewOf(u)', "lobby", FALSE, TRUE, FALSE, 0, FALSE, FALSE, FALSE)
    BY <1>1, <2>1 DEF LobbyAt
  <2>3. ViewOf(u)' = [ViewOf(u) EXCEPT !.online = FALSE, !.resumable = TRUE]
    BY <2>2, CutUpdate
  <2> QED BY <2>2, <2>3 DEF Served, IsSession, UserOf!SessionNext, UserOf!Cut
<1>4. CASE SameState(c)
  <2>1. /\ connected'[c] = connected[c]
        /\ (state'[c] = "DISCONNECTED") = (state[c] = "DISCONNECTED")
    BY <1>4 DEF SameState
  <2>2. PICK o, l : /\ IsSession(ViewOf(u), "lobby", o, l, FALSE, 0, FALSE, FALSE, FALSE)
                    /\ IsSession(ViewOf(u)', "lobby", o, l, FALSE, 0, FALSE, FALSE, FALSE)
    BY <1>1, <2>1 DEF LobbyAt
  <2> QED BY <2>2, SameSession DEF Served
<1> QED BY <1>2, <1>3, <1>4

\* One that takes a seat.
LEMMA SitServed ==
    ASSUME UserStepInv, UserInv', Sights', NEW u \in Users, NEW c \in Clients,
           Holds(u, c), Holds(u, c)', room_id[c] = None, room_id'[c] # None
    PROVE  Served(u)
<1>1. /\ active[c] /\ username[c] = u /\ active'[c] /\ username'[c] = u
      /\ LobbyAt(ViewOf(u), c) /\ SeatAt(ViewOf(u), c)'
  BY DEF Holds, Sights, UserStepInv
<1>2. PICK r \in Rooms, s \in Slots : TookSeat(c, r, s)
  BY <1>1, KeptSlot DEF UserStepInv, Lost, LeftSeat
<1>3. /\ connected[c] /\ connected'[c] = connected[c]
      /\ room_id'[c] = r /\ player_index'[c] = s /\ ~game_started'[r]
  BY <1>2 DEF TookSeat, Serving, Stays
<1>4. /\ connected[c] = TRUE /\ (state[c] = "DISCONNECTED") = FALSE
      /\ connected'[c] = TRUE /\ (state'[c] = "DISCONNECTED") = FALSE
      /\ game_started'[r] = FALSE /\ current_round'[r] = 0
      /\ waiting_for_continue'[r] \in BOOLEAN /\ round_continue_ready'[r][s] \in BOOLEAN
  <2>1. connected[c] = TRUE /\ connected'[c] = TRUE
    BY <1>3 DEF UserStepInv, UserInv, NameInv, TypeOK, ClientsOK
  <2>2. state[c] # "DISCONNECTED" /\ state'[c] # "DISCONNECTED"
    BY <1>1, <2>1 DEF UserStepInv, UserInv, NameInv, Silenced, LostAt
  <2>3. current_round'[r] = 0
    BY <1>3 DEF UserInv, MatchInv, RoundInRange
  <2>4. /\ game_started'[r] \in BOOLEAN /\ waiting_for_continue'[r] \in BOOLEAN
        /\ round_continue_ready'[r][s] \in BOOLEAN
    BY DEF UserInv, NameInv, TypeOK, GamesOK
  <2> QED BY <1>3, <2>1, <2>2, <2>3, <2>4
<1>5. PICK w, v :
        /\ w \in BOOLEAN /\ v \in BOOLEAN
        /\ w = waiting_for_continue'[r] /\ v = round_continue_ready'[r][s]
        /\ IsSession(ViewOf(u), "lobby", TRUE, FALSE, FALSE, 0, FALSE, FALSE, FALSE)
        /\ IsSession(ViewOf(u)', "room", TRUE, FALSE, FALSE, 0, w, w /\ v, FALSE)
  BY <1>1, <1>3, <1>4 DEF LobbyAt, SeatAt
<1>6. ViewOf(u)' = [ViewOf(u) EXCEPT !.place = "room", !.waiting = w, !.voted = w /\ v]
  BY <1>5, SitUpdate
<1>7. UserOf(u)!Sit
  BY <1>5, <1>6 DEF IsSession, UserOf!Sit
<1> QED BY <1>7 DEF Served, UserOf!SessionNext

\* One that leaves it.
LEMMA RiseServed ==
    ASSUME UserStepInv, UserInv', Sights', NEW u \in Users, NEW c \in Clients,
           Holds(u, c), Holds(u, c)', room_id[c] # None, room_id'[c] = None
    PROVE  Served(u)
<1>1. /\ active[c] /\ username[c] = u /\ active'[c] /\ username'[c] = u
      /\ SeatAt(ViewOf(u), c) /\ LobbyAt(ViewOf(u), c)'
  BY DEF Holds, Sights, UserStepInv
<1>2. LeftSeat(c)
  BY <1>1, KeptSlot DEF UserStepInv, Lost, TookSeat
<1>3. /\ connected[c] = TRUE
      /\ connected'[c] = TRUE /\ (state'[c] = "DISCONNECTED") = FALSE
  BY <1>2 DEF LeftSeat, Serving, Stays, UserStepInv, UserInv, NameInv, TypeOK, ClientsOK
<1>4. IsSession(ViewOf(u)', "lobby", TRUE, FALSE, FALSE, 0, FALSE, FALSE, FALSE)
  BY <1>1, <1>3 DEF LobbyAt
<1>5. ViewOf(u)' = Blank!InLobby
  BY <1>4, LobbySession
<1>6. ViewOf(u).place = "room" /\ ViewOf(u).online
  BY <1>1, <1>3 DEF SeatAt, IsSession
<1> QED BY <1>5, <1>6, SameBlank DEF Served, UserOf!SessionNext, UserOf!Rise

\* One that keeps its seat.
LEMMA StayServed ==
    ASSUME UserStepInv, UserInv', Sights', NEW u \in Users, NEW c \in Clients,
           Holds(u, c), Holds(u, c)', room_id[c] # None, room_id'[c] # None
    PROVE  Served(u)
<1>1. /\ active[c] /\ username[c] = u /\ active'[c] /\ username'[c] = u
      /\ SeatAt(ViewOf(u), c) /\ SeatAt(ViewOf(u), c)'
  BY DEF Holds, Sights, UserStepInv
<1>2. PICK r \in Rooms, s \in Slots : r = room_id[c] /\ s = player_index[c]
  BY <1>1 DEF UserStepInv, UserInv, MatchInv, SeatInv, TypeOK, ClientsOK, SeatsRight,
              WholeSeat
<1>3. room_id'[c] = r /\ player_index'[c] = s
  BY <1>1, <1>2, KeptSlot DEF UserStepInv, Lost, LeftSeat, TookSeat
<1>4. SatThere(c, r, s)
  BY <1>1, <1>2 DEF SatThere, UserStepInv
<1>5. room_active'[r]
  BY <1>1, <1>2, <1>3, RoomInUseNext
<1>6. SeatStep(c, r, s)
  BY <1>1, <1>3, <1>4, <1>5, SeatSteps DEF UserStepInv
<1>7. TypeOK /\ TypeOK' /\ RoundInRange
  BY DEF UserStepInv, UserInv, NameInv, MatchInv
<1> QED BY <1>1, <1>2, <1>3, <1>6, <1>7, SeatServed DEF Served

\* Every user, every step.
LEMMA UserStep ==
    ASSUME AtTheDoor, ~FdAlias, UserInv, UserInv', [Next]_vars, NEW u \in Users
    PROVE  Served(u)
<1>1. UserStepInv
  BY Seen DEF UserStepInv
<1>2. Sights'
  BY SeenNext
<1>3. CASE \A c \in Clients : ~Holds(u, c)
  <2>1. CASE \A c \in Clients : ~Holds(u, c)'
    <3>1. ViewOf(u) = Blank!NoSession /\ ViewOf(u)' = Blank!NoSession
      BY <1>1, <1>2, <1>3, <2>1 DEF Sights, UserStepInv, Holds
    <3> QED BY <3>1 DEF Served
  <2>2. CASE \E c \in Clients : Holds(u, c)'
    BY <1>1, <1>2, <1>3, <2>2, EnterServed
  <2> QED BY <2>1, <2>2
<1>4. ASSUME NEW c \in Clients, Holds(u, c) PROVE Served(u)
  <2>1. CASE \A d \in Clients : ~Holds(u, d)'
    BY <1>1, <1>2, <1>4, <2>1, GoneServed
  <2>2. ASSUME NEW d \in Clients, Holds(u, d)' PROVE Served(u)
    BY <1>1, <1>2, <1>4, <2>2, ResumeServed, LobbyServed, SitServed, RiseServed, StayServed
  <2> QED BY <2>1, <2>2
<1> QED BY <1>3, <1>4

-----------------------------------------------------------------------------
\* Every user meets a UserSession, whatever is sent, lost or timed out: what
\* the handlers and the periodic pass do to the tables reaches a user only as
\* steps of that user's session.
THEOREM UsersServed ==
    ASSUME AtTheDoor, SilenceFirst, ~FdAlias PROVE Spec => ServesSessions
<1>1. Init => \A u \in Users : UserOf(u)!SessionInit
  <2> SUFFICES ASSUME Init, NEW u \in Users PROVE UserOf(u)!SessionInit
    OBVIOUS
  <2>1. ViewOf(u) = Blank!NoSession
    BY Unseen DEF Init
  <2> QED BY <2>1, SameBlank DEF UserOf!SessionInit
<1>2. UserInv /\ UserInv' /\ [Next]_vars =>
        [\A u \in Users : UNCHANGED ViewOf(u) \/ UserOf(u)!SessionNext]_vars
  BY UserStep DEF Served
<1>3. SeatInv /\ StateAgreement /\ TimeLeft /\ RoundInRange /\ NameInv => UserInv
  BY DEF MatchInv, UserInv
<1> QED BY <1>1, <1>2, <1>3, SeatInvariant, StatesAgree, TimeInHand, RoundsInRange,
           NameInvariant, PTL
        DEF Spec, ServesSessions
=============================================================================
