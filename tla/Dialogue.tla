------------------------------ MODULE Dialogue ------------------------------
(***************************************************************************)
(* A client (ClientScreens) and the server as its user meets it            *)
(* (UserSession), with lines on their way between them.  The handlers of   *)
(* src/server appear here with what they send to this client; what they do *)
(* to the tables, and what the other players do, is a step of UserSession. *)
(*                                                                         *)
(* Connections end in every way: the client program is ended and started   *)
(* again, the network breaks, the server closes a silent connection,       *)
(* crashes and starts again.                                               *)
(***************************************************************************)
EXTENDS ClientScreens, UserSession

CONSTANTS
    MAX_WIRE,           \* bound: lines on their way to the client
    MAX_GAMES,          \* bound: games that start in the user's rooms
    MAX_SEATS           \* bound: seats the user takes one after the other

\* A game has a round (total_rounds is 5).
ASSUME RoundsAssumption == ROUNDS \in Nat \ {0}

VARIABLES
    attached,           \* the session's connection is the client's
    game,               \* games started so far in the user's rooms
    seat,               \* seats taken so far
    resumed,            \* the client's connection took over a lost session
    outOfTurn,          \* it did so between rounds, or a vote that was given
                        \* in an earlier game was counted in this one
    misled              \* what the client was told does not fix its screen

recordVars   == <<game, seat, resumed, outOfTurn, misled>>
dialogueVars == <<clientVars, me, attached, recordVars>>

Now == <<game, me.round>>

DialogueInit ==
    /\ ClientInit /\ SessionInit
    /\ attached = FALSE /\ resumed = FALSE /\ outOfTurn = FALSE
    /\ game = 0 /\ seat = 0 /\ misled = FALSE

-----------------------------------------------------------------------------
\* Changed copy of Reply: a line is kept for a connection that is gone.
ReplyKept(lines) ==
    /\ Len(toClient) + Len(lines) <= MAX_WIRE
    /\ toClient' = toClient \o lines

\* client_send: a line reaches the client only over a connection that is up.
Reply(lines) ==
    /\ Len(toClient) + Len(lines) <= MAX_WIRE
    /\ toClient' = IF conn = "up" THEN toClient \o lines ELSE toClient

\* room_broadcast, for the occupant that is this user.
Told(lines) ==
    IF attached /\ me.online THEN Reply(lines) ELSE UNCHANGED toClient

\* The next line of the client is handled.
Serve(cmd) ==
    /\ toServer # <<>>
    /\ Head(toServer).cmd = cmd
    /\ toServer' = Tail(toServer)
    /\ UNCHANGED <<conn, windowVars>>

ToldTag == Head(toServer).tag

Refused == UNCHANGED <<toClient, me, attached, recordVars>>

Status    == Line("ROOM_STATUS", NoRound)
RoomList  == Line("ROOM_LIST", NoRound)
GameStart == Line("GAME_START", <<game', me'.round>>)

\* A client without a connection is told nothing.
Misled(really) == misled' = (misled \/ (conn = "up" /\ really))

\* Changed copy of FollowUp: the game is not sent again.
FollowUpRoom == IF me.place = "room" THEN Status ELSE RoomList

\* Where the user is put after a resumed login: the game, the room or the lobby.
FollowUp ==
    IF me.playing /\ ~me.stray THEN Line("GAME_START", Now)
    ELSE IF me.place = "room" THEN Status ELSE RoomList

\* LOGIN: a new session, a lost one resumed, the same once more, or refused
\* while another connection has it.
handle_login ==
    /\ Serve("LOGIN")
    /\ \/ /\ Enter
          /\ Reply(<<Line("LOGIN_OK", NoRound), RoomList>>)
          /\ attached' = TRUE /\ resumed' = FALSE
          /\ UNCHANGED <<game, seat, outOfTurn, misled>>
       \/ /\ Resume
          /\ Reply(<<Line("RECONNECT_OK", NoRound), FollowUp>>)
          /\ attached' = TRUE /\ resumed' = TRUE
          /\ outOfTurn' = (outOfTurn \/ (me.playing /\ me.waiting))
          /\ Misled(me.stray \/ (me.playing /\ me.waiting))
          /\ UNCHANGED <<game, seat>>
       \/ /\ attached /\ Again
          /\ Reply(<<Line("LOGIN_OK", NoRound), RoomList>>)
          /\ Misled(me.place = "room")
          /\ UNCHANGED <<attached, game, seat, resumed, outOfTurn>>
       \/ /\ me.place # "out" /\ ~attached /\ (me.online \/ ~me.resumable)
          /\ Refused

handle_list_rooms ==
    /\ Serve("LIST_ROOMS")
    /\ Reply(<<RoomList>>)
    /\ UNCHANGED <<me, attached, recordVars>>

\* CREATE_ROOM and JOIN_ROOM; a full or playing room, or none, refuses.
handle_sit ==
    /\ Serve("SIT")
    /\ ~me.stray            \* bound: no second seat is taken from the first
    /\ \/ /\ attached /\ Sit
          /\ seat < MAX_SEATS /\ seat' = seat + 1
          /\ Reply(<<Status, Line("ROOM_JOINED", NoRound)>>)
          /\ UNCHANGED <<attached, game, resumed, outOfTurn, misled>>
       \/ Refused

CanLeave == attached /\ me.place = "room"

\* GAME_ABORTED goes to the leaver as well.
handle_leave_room ==
    /\ Serve("LEAVE_ROOM")
    /\ IF CanLeave
       THEN /\ Rise
            /\ Reply((IF me.playing THEN <<Line("GAME_ABORTED", NoRound)>> ELSE <<>>)
                       \o <<Line("LEFT_ROOM", <<seat>>), RoomList>>)
            /\ UNCHANGED <<attached, recordVars>>
       ELSE Refused

GameBegins ==
    /\ game < MAX_GAMES /\ game' = game + 1
    /\ Begin
    /\ outOfTurn' = FALSE

\* READY or START_GAME, which may start the game (the room status that READY is
\* answered with as well is a StatusUpdate).
handle_start_game ==
    /\ Serve("START")
    /\ \/ /\ attached /\ ~me.stray /\ GameBegins
          /\ Reply(<<GameStart>>)
          /\ UNCHANGED <<attached, seat, resumed, misled>>
       \/ Refused

CanSubmit == attached /\ me.playing /\ ~me.stray

GameOverLines == <<Line("GAME_END", NoRound), Status>>
RoundEndLine  == Line("ROUND_END", Now)

\* SUBMIT: kept, or the last answer that wins the round or ends the game.
handle_submit ==
    /\ Serve("SUBMIT")
    /\ IF CanSubmit
       THEN /\ \/ Answer /\ UNCHANGED toClient
               \/ Win /\ Reply(<<RoundEndLine>>)
               \/ ~me.waiting /\ Over /\ Reply(GameOverLines)
            /\ UNCHANGED <<attached, recordVars>>
       ELSE Refused

CanVote == attached /\ me.place = "room" /\ ~me.stray /\ me.waiting /\ ~me.voted

CountsFor(g) ==
    /\ outOfTurn' = (outOfTurn \/ ToldTag[1] # g)
    /\ UNCHANGED game

\* READY_NEXT_ROUND: counted, or the last vote that starts the next round, or a
\* new game where the timer ended the old one.
handle_ready_next_round ==
    /\ Serve("READY_NEXT_ROUND")
    /\ IF CanVote
       THEN /\ \/ /\ Vote /\ CountsFor(game)
                  /\ Reply(<<Line("WAIT_CONTINUE", NoRound)>>)
               \/ /\ (Proceed /\ CountsFor(game)) \/ GameBegins
                  /\ Reply(<<GameStart>>)
            /\ UNCHANGED <<attached, seat, resumed, misled>>
       ELSE Refused

handle_message ==
    \/ handle_login \/ handle_list_rooms \/ handle_sit \/ handle_leave_room
    \/ handle_start_game \/ handle_submit \/ handle_ready_next_round

-----------------------------------------------------------------------------
\* The other occupants and the timer.
Elsewhere == UNCHANGED <<conn, toServer, windowVars, attached, seat, resumed>>

OthersStart == GameBegins /\ Told(<<GameStart>>) /\ Elsewhere /\ UNCHANGED misled

OthersAnswer ==
    /\ me.answered /\ Win
    /\ Told(<<RoundEndLine>>)
    /\ Elsewhere /\ UNCHANGED <<game, outOfTurn, misled>>

\* Changed copy of AllReady: the votes of the other occupants are enough.
OthersReady == TRUE

\* The last vote of another occupant starts the round only with this seat's in.
AllReady == me.voted

OthersVote ==
    /\ AllReady
    /\ Proceed /\ UNCHANGED <<game, outOfTurn, misled>>
    /\ Told(<<GameStart>>)
    /\ Elsewhere

GameOver == Over /\ Told(GameOverLines) /\ Elsewhere /\ UNCHANGED <<game, outOfTurn, misled>>

\* Another occupant leaves: who plays is told that the game is aborted, and it
\* goes on.
OthersLeave ==
    /\ me.place = "room" /\ attached
    /\ Told((IF me.playing THEN <<Line("GAME_ABORTED", NoRound)>> ELSE <<>>) \o <<Status>>)
    /\ Misled(me.playing)
    /\ Elsewhere /\ UNCHANGED <<me, game, outOfTurn>>

\* Another occupant of a running game is removed: told the same, without the
\* room status.  (Nothing that moves a screen is said outside a game.)  Bound:
\* not while other lines are on their way.
OthersRemoved ==
    /\ me.place = "room" /\ attached /\ me.playing
    /\ toClient = <<>>
    /\ Told(<<Line("GAME_ABORTED", NoRound)>>)
    /\ Misled(me.playing)
    /\ Elsewhere /\ UNCHANGED <<me, game, outOfTurn>>

Underneath(kinds) == \E i \in DOMAIN boxes : boxes[i].cmd \in kinds

\* Another occupant loses the connection; bound: one such line on its way,
\* or box open.
OthersLost ==
    /\ me.place = "room" /\ attached
    /\ ~Underneath({"away"}) /\ \A i \in DOMAIN toClient : toClient[i].cmd # "PLAYER_DISCONNECTED"
    /\ Told(<<Line("PLAYER_DISCONNECTED", <<seat>>)>>)
    /\ Elsewhere /\ UNCHANGED <<me, game, outOfTurn, misled>>

\* The room status, sent by the period and when somebody joins or is READY; a
\* READY that starts the game is this and the start, in this order.  Bound: not
\* while other lines are on their way.
StatusUpdate ==
    /\ me.place = "room" /\ ~me.playing /\ attached
    /\ toClient = <<>>
    /\ Told(<<Status>>)
    /\ Elsewhere /\ UNCHANGED <<me, game, outOfTurn, misled>>

Others ==
    \/ OthersStart \/ OthersAnswer \/ OthersVote \/ GameOver \/ OthersLeave
    \/ OthersRemoved \/ OthersLost \/ StatusUpdate

-----------------------------------------------------------------------------
Beginnings(q) == {SubSeq(q, 1, n) : n \in 0 .. Len(q)}

\* The client program ends, or is killed by a write to a closed socket, and is
\* started again; some of what it sent still arrives.
ClientRestarts ==
    /\ Started
    /\ conn' = "none"
    /\ toServer' \in Beginnings(toServer) /\ toClient' = <<>>
    /\ misled' = (misled /\ toServer' # <<>>)
    /\ UNCHANGED <<me, attached, game, seat, resumed, outOfTurn>>

\* The network gives up the connection: the client finds out by an error, the
\* server later or by its time-out.
ConnectionBreaks ==
    /\ conn = "up" /\ conn' = "rst"
    /\ toServer' \in Beginnings(toServer) /\ toClient' \in Beginnings(toClient)
    /\ UNCHANGED <<windowVars, me, attached, recordVars>>

\* The server closes the connection: the client was silent, or the server ends.
ServerCloses ==
    /\ conn = "up" /\ conn' \in {"eof", "rst"}
    /\ toServer' = <<>> /\ toClient' \in Beginnings(toClient)
    /\ IF attached THEN GiveUp ELSE UNCHANGED me
    /\ attached' = FALSE /\ resumed' = FALSE
    /\ UNCHANGED <<windowVars, game, seat, outOfTurn, misled>>

\* The server reads the end of the session's connection.
client_mark_disconnected ==
    /\ attached => conn # "up" /\ toServer = <<>>
    /\ Cut
    /\ attached' = FALSE /\ resumed' = FALSE
    /\ UNCHANGED <<clientVars, game, seat, outOfTurn, misled>>

\* A session without the client's connection is given up.
client_disconnect ==
    /\ attached => conn # "up"
    /\ GiveUp
    /\ attached' = FALSE /\ resumed' = FALSE
    /\ UNCHANGED <<clientVars, game, seat, outOfTurn, misled>>

-----------------------------------------------------------------------------
Handled(cmd) == toClient # <<>> /\ toClient' # toClient /\ Head(toClient).cmd = cmd

\* What a line says of the place is lost on a client that has yet to close the
\* box which goes on to the lobby, or the one after which it is to take such a
\* line for the end of the reconnection.
PlacedUnderBox ==
    \/ /\ Underneath({"welcome", "aborted"})
       /\ toClient' # toClient /\ <<screen', shown'>> # <<screen, shown>>
    \/ /\ Underneath({"back"})
       /\ Handled("ROOM_LIST") \/ Handled("ROOM_STATUS") \/ Handled("GAME_START")

\* A loss is not shown, or the box that shows it is closed before older ones.
LostUnread == conn # "none" /\ conn' = "none" /\ (conn = "rst" \/ boxes # <<>>)

\* The client is put where the server has the user, and nothing that either has
\* still to take in tells otherwise.
SetRight ==
    /\ toServer = <<>> /\ boxes = <<>>
    /\ \A i \in DOMAIN toClient : toClient[i].cmd \notin {"GAME_ABORTED", "LOGIN_OK"}
    /\ \/ Handled("LEFT_ROOM") /\ LineTag = <<seat>>
       \/ Handled("GAME_START") /\ LineTag = Now /\ ~me.waiting

Connects == conn = "none" /\ conn' = "up"

ClientStep ==
    /\ HandleLine \/ CloseBox \/ UserActs(seat)
    /\ attached' = (attached /\ ~Connects)
    /\ resumed' = (resumed /\ ~Connects)
    /\ misled' = (LostUnread \/ PlacedUnderBox \/ (misled /\ ~Connects /\ ~SetRight))
    /\ UNCHANGED <<me, game, seat, outOfTurn>>

DialogueNext ==
    \/ ClientStep \/ handle_message \/ Others
    \/ ClientRestarts \/ ConnectionBreaks \/ ServerCloses
    \/ client_mark_disconnected \/ client_disconnect

DialogueSpec == DialogueInit /\ [][DialogueNext]_dialogueVars

-----------------------------------------------------------------------------
\* The two ends fit: a session that the client's connection belongs to is open,
\* and lines are on their way to the client only while it can read them.
DialogueTypeOK ==
    /\ me \in Session
    /\ conn \in {"none", "up", "eof", "rst"} /\ screen \in Screens
    /\ isConnected \in BOOLEAN /\ isReconnecting \in BOOLEAN
    /\ attached => me.online
    /\ conn = "none" => toClient = <<>>

\* No line is on its way, no box is open: what the user sees is settled.
Settled ==
    /\ conn \in {"up", "none"} /\ boxes = <<>>
    /\ toServer = <<>> /\ toClient = <<>>

\* The screen that belongs to where the server has the user.
ScreenFits ==
    IF conn = "none" \/ ~attached THEN screen = "Login"
    ELSE IF me.place = "lobby" THEN screen = "Lobby"
    ELSE IF ~me.playing THEN screen \in {"Room", "Result"}
    ELSE IF ~me.waiting THEN screen = "InGame" /\ shown = Now
    ELSE IF me.voted THEN screen = "Voted"
    ELSE screen = "RoundEnd" /\ shown = Now

\* Whatever was sent, crossed on the way or was lost with earlier connections,
\* the client ends up on the screen that belongs to the server's state, or at
\* the login screen without a session.  The exceptions are those that misled
\* records: told of an abort while the game goes on, LOGIN from a seat, resumed
\* while the room waits for votes, put in a place by a line under a box that
\* goes elsewhere, a loss that is not shown.
ScreenFollows == Settled /\ ~misled => ScreenFits

\* An answer carries no round, and yet one that the server takes in the game it
\* was given for is an answer to the round being played: the round does not go
\* on without the vote of the seat, and lines keep their order.  Not so after a
\* vote left from an earlier game was counted, or for a player who resumed with
\* the vote already given and was shown the old round.
AnswerInTime ==
    /\ toServer # <<>> /\ Head(toServer).cmd = "SUBMIT"
    /\ CanSubmit /\ ToldTag[1] = game
    => ToldTag = Now \/ outOfTurn

\* Asked to leave one seat (the question may have stood open while the seat was
\* left, resumed or lost), the server takes no later one away, unless the user
\* was shown the lobby while seated.
LeaveAsMeant ==
    /\ toServer # <<>> /\ Head(toServer).cmd = "LEAVE_ROOM"
    /\ CanLeave /\ ~misled
    => ToldTag = <<seat>>

\* LOGIN has no state check, and the client does not keep a user from clicking
\* twice: it is read from a seated session, but only where that was resumed.
DoorUnlessResumed ==
    /\ toServer # <<>> /\ Head(toServer).cmd = "LOGIN"
    /\ attached /\ me.place = "room"
    => resumed
=============================================================================
