--------------------------- MODULE ClientScreens ---------------------------
(***************************************************************************)
(* The Qt client (src/client): its socket, the lines it reads and sends,   *)
(* its screens and its message boxes.  Each slot is one action; a box is   *)
(* where it is cut in two, because QMessageBox::exec runs an event loop of *)
(* its own: while a box is open the user can do nothing else, but lines    *)
(* are read on, and what follows exec in the slot runs when the box is     *)
(* closed, the newest box first.                                           *)
(*                                                                         *)
(* Lines that change neither screen nor box nor socket (PING, TIMER, CHAT, *)
(* ERROR, PLAYER_JOINED and the like) and boxes that nothing follows are   *)
(* left out: they only delay the user.                                     *)
(***************************************************************************)
EXTENDS Naturals, Sequences

CONSTANTS
    MAX_BOXES,          \* bound: message boxes open at a time
    MAX_QUEUE           \* bound: lines on their way to the server

VARIABLES
    \* The connection, shared with the server.
    conn,               \* "none", "up", or "eof" and "rst": the peer closed it,
                        \* or reset it, and the client has not read that yet
    toServer,           \* lines sent and not yet handled by the server
    toClient            \* lines sent to the client and not yet handled
VARIABLES
    isConnected,        \* NetworkManager::m_isConnected
    isReconnecting,     \* MainWindow::isReconnecting
    screen,             \* what the main window shows; the result screen counts
                        \* as three, by the button it offers
    shown,              \* game and round on the screen, else NoRound
    boxes               \* message boxes, the newest last

netVars    == <<conn, toServer, toClient>>
windowVars == <<isConnected, isReconnecting, screen, shown, boxes>>
clientVars == <<netVars, windowVars>>

Screens  == {"Login", "Lobby", "Room", "InGame", "Result", "RoundEnd", "Voted"}
NoRound  == <<0, 0>>

\* A line, or a box, with what it is about: for the record only, the protocol
\* carries no such tag.
Line(cmd, tag) == [cmd |-> cmd, tag |-> tag]

\* A program that has just been started; m_isConnected is not initialised.
Started ==
    /\ isConnected' \in BOOLEAN
    /\ isReconnecting' = FALSE
    /\ screen' = "Login" /\ shown' = NoRound /\ boxes' = <<>>

ClientInit ==
    /\ conn = "none" /\ toServer = <<>> /\ toClient = <<>>
    /\ isConnected \in BOOLEAN
    /\ isReconnecting = FALSE
    /\ screen = "Login" /\ shown = NoRound /\ boxes = <<>>

\* sendCommand and sendData: without a connection the line is dropped, and what
\* is written to a connection that is lost does not arrive.
sendCommand(cmd, tag) ==
    /\ Len(toServer) < MAX_QUEUE
    /\ toServer' = IF isConnected /\ conn = "up"
                   THEN Append(toServer, Line(cmd, tag)) ELSE toServer

Show(s, tag) == screen' = s /\ shown' = tag

transitionToLobby == Show("Lobby", NoRound) /\ sendCommand("LIST_ROOMS", NoRound)

Open(kind, tag) ==
    /\ Len(boxes) < MAX_BOXES
    /\ boxes' = Append(boxes, Line(kind, tag))

\* Changed copy of UserFree: boxes do not block the windows under them.
UserAlways == TRUE

\* The user can reach the screen only while no box is open (they are modal).
UserFree == boxes = <<>>

Clicks(s) == UserFree /\ screen = s

-----------------------------------------------------------------------------
\* Lines of the server, in the order in which they were sent.
Reads(cmd) ==
    /\ toClient # <<>>
    /\ Head(toClient).cmd = cmd
    /\ toClient' = Tail(toClient)

LineTag == Head(toClient).tag

onLoginSuccessful ==
    /\ Reads("LOGIN_OK")
    /\ Open("welcome", NoRound)
    /\ UNCHANGED <<conn, toServer, isConnected, isReconnecting, screen, shown>>

onReconnectSuccessful ==
    /\ Reads("RECONNECT_OK")
    /\ Open("back", NoRound)
    /\ UNCHANGED <<conn, toServer, isConnected, isReconnecting, screen, shown>>

\* Room list and room status move the screen only after a reconnection.
onRoomListReceived ==
    /\ Reads("ROOM_LIST")
    /\ isReconnecting' = FALSE
    /\ IF isReconnecting THEN transitionToLobby ELSE UNCHANGED <<toServer, screen, shown>>
    /\ UNCHANGED <<conn, isConnected, boxes>>

onRoomStatusUpdated ==
    /\ Reads("ROOM_STATUS")
    /\ isReconnecting' = FALSE
    /\ IF isReconnecting THEN Show("Room", NoRound) ELSE UNCHANGED <<screen, shown>>
    /\ UNCHANGED <<conn, toServer, isConnected, boxes>>

onRoomJoined ==
    /\ Reads("ROOM_JOINED")
    /\ Show("Room", NoRound)
    /\ UNCHANGED <<conn, toServer, isConnected, isReconnecting, boxes>>

onLeftRoom ==
    /\ Reads("LEFT_ROOM")
    /\ transitionToLobby
    /\ UNCHANGED <<conn, isConnected, isReconnecting, boxes>>

onGameStarted ==
    /\ Reads("GAME_START")
    /\ isReconnecting' = FALSE
    /\ Show("InGame", LineTag)
    /\ UNCHANGED <<conn, toServer, isConnected, boxes>>

\* displayResult: the button goes back to the room.
onGameEnded ==
    /\ Reads("GAME_END")
    /\ Show("Result", NoRound)
    /\ UNCHANGED <<conn, toServer, isConnected, isReconnecting, boxes>>

\* displayRoundEnd: the button votes to continue.
onRoundEnded ==
    /\ Reads("ROUND_END")
    /\ Show("RoundEnd", LineTag)
    /\ UNCHANGED <<conn, toServer, isConnected, isReconnecting, boxes>>

onWaitingForContinue ==
    /\ Reads("WAIT_CONTINUE")
    /\ IF screen = "RoundEnd" THEN Show("Voted", NoRound) ELSE UNCHANGED <<screen, shown>>
    /\ UNCHANGED <<conn, toServer, isConnected, isReconnecting, boxes>>

onGameAborted ==
    /\ Reads("GAME_ABORTED")
    /\ Open("aborted", NoRound)
    /\ UNCHANGED <<conn, toServer, isConnected, isReconnecting, screen, shown>>

onPlayerDisconnected ==
    /\ Reads("PLAYER_DISCONNECTED")
    /\ Open("away", LineTag)
    /\ UNCHANGED <<conn, toServer, isConnected, isReconnecting, screen, shown>>

\* The peer closed the connection: everything is cleared and the user told.
onDisconnected ==
    /\ conn = "eof" /\ toClient = <<>>
    /\ conn' = "none"
    /\ isConnected' = FALSE
    /\ Open("lost", NoRound)
    /\ UNCHANGED <<toServer, toClient, isReconnecting, screen, shown>>

\* An error on reading closes the socket and tells nobody.
ReadError ==
    /\ conn = "rst" /\ toClient = <<>>
    /\ conn' = "none"
    /\ UNCHANGED <<toServer, toClient, windowVars>>

HandleLine ==
    \/ onLoginSuccessful \/ onReconnectSuccessful
    \/ onRoomListReceived \/ onRoomStatusUpdated \/ onRoomJoined \/ onLeftRoom
    \/ onGameStarted \/ onGameEnded \/ onRoundEnded \/ onWaitingForContinue
    \/ onGameAborted \/ onPlayerDisconnected \/ onDisconnected \/ ReadError

-----------------------------------------------------------------------------
\* The newest box is closed and its slot goes on.
Closes(kinds) ==
    /\ boxes # <<>>
    /\ boxes[Len(boxes)].cmd \in kinds
    /\ boxes' = SubSeq(boxes, 1, Len(boxes) - 1)

LobbyAfterBox ==
    /\ Closes({"welcome", "aborted"})
    /\ transitionToLobby
    /\ UNCHANGED <<conn, toClient, isConnected, isReconnecting>>

ReconnectingAfterBox ==
    /\ Closes({"back"})
    /\ isReconnecting' = TRUE
    /\ UNCHANGED <<netVars, isConnected, screen, shown>>

LoginAfterBox ==
    /\ Closes({"lost"})
    /\ Show("Login", NoRound)
    /\ UNCHANGED <<netVars, isConnected, isReconnecting>>

\* A question is answered: with no, nothing follows.
Answered(kinds, cmd) ==
    /\ Closes(kinds)
    /\ \/ sendCommand(cmd, boxes[Len(boxes)].tag)
       \/ UNCHANGED toServer
    /\ UNCHANGED <<conn, toClient, isConnected, isReconnecting, screen, shown>>

CloseBox ==
    \/ LobbyAfterBox \/ ReconnectingAfterBox \/ LoginAfterBox
    \/ Answered({"away", "leave"}, "LEAVE_ROOM")
    \/ Answered({"submit"}, "SUBMIT")

-----------------------------------------------------------------------------
\* The user.  The connect button is enabled without a connection, the others of
\* the login screen with one.  Bound: a new connection is opened when the server
\* has read what the last one left, so that one queue serves all of them.
onConnectClicked ==
    /\ Clicks("Login")
    /\ ~isConnected
    /\ conn = "none" /\ toServer = <<>>
    /\ conn' = "up" /\ isConnected' = TRUE
    /\ UNCHANGED <<toServer, toClient, isReconnecting, screen, shown, boxes>>

\* A button that sends a line and leaves the screen as it is.
Sends(s, cmd) ==
    /\ Clicks(s)
    /\ sendCommand(cmd, NoRound)
    /\ UNCHANGED <<conn, toClient, windowVars>>

onLoginClicked == isConnected /\ Sends("Login", "LOGIN")
SitClicked     == Sends("Lobby", "SIT")
StartClicked   == Sends("Room", "START")

\* Questions: is the seat to be left, is the chosen cell to be sent?
onLeaveRoomClicked(seat) ==
    /\ Clicks("Room")
    /\ Open("leave", <<seat>>)
    /\ UNCHANGED <<netVars, isConnected, isReconnecting, screen, shown>>

onSubmitClicked ==
    /\ Clicks("InGame")
    /\ Open("submit", shown)
    /\ UNCHANGED <<netVars, isConnected, isReconnecting, screen, shown>>

onBackToRoomClicked ==
    /\ Clicks("Result")
    /\ Show("Room", NoRound)
    /\ UNCHANGED <<netVars, isConnected, isReconnecting, boxes>>

onContinueClicked ==
    /\ Clicks("RoundEnd")
    /\ sendCommand("READY_NEXT_ROUND", shown)
    /\ Show("Voted", NoRound)
    /\ UNCHANGED <<conn, toClient, isConnected, isReconnecting, boxes>>

UserActs(seat) ==
    \/ onConnectClicked \/ onLoginClicked \/ SitClicked \/ StartClicked
    \/ onLeaveRoomClicked(seat) \/ onSubmitClicked \/ onBackToRoomClicked
    \/ onContinueClicked
=============================================================================
