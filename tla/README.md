# LTM_MathPuzzle in TLA+

A verification project for the math puzzle game: a server in C (`src/server`,
one thread around `select()`) and a Qt client (`src/client`). Up to four players
sit in a room; every round the server draws an equation over four numbers and
shows each player the matrices of the others but not the player's own. A round is won
when every player has pointed at the right cell.

The project has TLA+ modules translated from the code, TLC runs on small
instances, and TLAPS proofs for all values of the constants.
`PROJECT.json` lists components, runs, mutants, findings, hazards, theorems and,
for each definition, the lines of source it stands for.

## 1. Inventory

| component | state | operations | what makes it correct |
|---|---|---|---|
| connection table (`server.c`) | `clients[]`: slot in use, descriptor, name, state, saved state, room, seat, times | accept, loss of the connection, removal | one slot per session, a lost session keeps its seat, a freed slot leaves nothing behind |
| select loop (`server.c`) | `last_tick_time` | messages in any order, periodic pass: game timers, pings, expiry | games end, lost sessions do not stay, one message touches one room |
| login and reconnection (`auth.c`) | name, state, seat moved between slots | LOGIN, fresh or resumed | one session per user; a seat is handed over whole |
| account file (`auth.c`) | `users.txt` | register, authenticate | what was registered can log in after a restart |
| rooms (`room.c`) | `rooms[]`: seats, ready flags, count, host | create, join, leave, ready, start, cleanup | seats and clients agree; the count is exact; nobody is thrown out by another's departure |
| game rounds (`game.c`) | round, answers, votes, timer | start, submit, end of round, vote to continue | rounds advance one by one and only when won by the occupants' answers |
| puzzle generator (`game.c`) | equation, values, matrices | `puzzle_generate` | the accepted cells solve the equation; one cell per matrix wins |
| keepalive and chat (`network.c`) | `last_pong_time` | PING, PONG, CHAT | silent clients go; a chat line stays in the room |
| line framing (`server.c`) | receive buffer of a slot | `client_process_data` | each line is handled once and whole |
| client protocol and screens (`networkmanager.cpp`, `gamestatemachine.cpp`, `mainwindow.cpp`, screens) | current screen, open message boxes, `isReconnecting` | handlers of server messages, signals to the main window, buttons | the screen settles on the server's state; what is sent is taken as it was meant |
| client socket (`bsdsocketclient.cpp`) | descriptor, notifier | connect, read, write, error | a loss is reported |
| client widgets (`gamescreen.cpp`, `lobbyscreen.cpp`, `loginscreen.cpp`) | input fields, selected cell, painting | buttons | a button is offered only where its line is wanted |

**How they interact.** Inside the server everything is a function call on the
two tables: `server_run` reads a line, `handle_message` calls a handler, and the
handler writes the client table, the room table and the room's game. Seats are recorded
twice, as `player_ids[seat]` in the room and as `room_id`/`player_index` in the client;
a client's state and its room's game are kept apart too. Client and server
exchange lines over TCP. In the client a line becomes a signal, and its slots switch
screens, open message boxes or send lines.

**What is hard.** There is no parallelism inside the server, but messages of
several clients, losses of connections, reconnections and three kinds of timers
interleave at the granularity of a handler, and every handler must leave two tables in
step. A lost session lives on without a socket while its room goes on playing,
ends the game or loses other players. Two timeouts (30 s without PONG, 60 s to
reconnect) run against each other. Nothing but `users.txt` is persistent.
The client has one thread too, but a message box runs an event loop of its own
inside the slot that opens it: lines are handled while it is open, and the
rest of the slot runs when it is closed, whatever has happened by then. Lines
cross on the way, a question may stand open for long, and answers and
votes do not say which round they are meant for. The
hazards are listed, line by line, in `PROJECT.json`.

## 2. Modules

```
ServerState   tables, types, initial state                 server.h, server_init
  Game        rounds, answers, votes                       game.c
    RoomTable   rooms, readiness, start, chat audience     room.c, network.c
      Sessions    accept, loss, removal, LOGIN, PONG       server.c, auth.c, network.c
        GameServer  loop, timers, Next, Spec, properties   server.c, network.c
          Refinement  GameServer implements SeatBook, Match and UserSession
          GameServerSeats          proofs: types, seats and counts
            GameServerSessions     proofs: rounds, answers, entry; one session, states
              GameServerPlaces     proofs: places, one room at a time
                GameServerMatch    proofs: Match for rooms, UserSession for users
SeatBook      abstract: places and presence of all users
Match         abstract: the life of one room
UserSession   abstract: the server as one user meets it
ClientScreens client: socket, lines, screens, boxes        src/client
  Dialogue    ClientScreens + UserSession and the lines between them
    DialogueProofs          proofs: types, LOGIN, answers
      DialogueCourse        proofs: who is where, LEAVE_ROOM, the screen
Framing       lines cut out of a byte stream               server.c
  FramingProofs                                            proofs
Puzzle        equations, values, matrices                  game.c
  PuzzleProofs                                             proofs
MCGameServer, MCPuzzle   values of the constants for TLC
```

There are two compositions. `GameServer` composes the server: the lower modules define the handlers as
actions over the shared tables and `GameServer` offers them all, to every client,
in any order. `Dialogue` composes the two ends of one connection: the client in
full, and the server as far as this client's user can notice it. That reduced
server is `UserSession`, and `ServesSessions`, checked and proved, says that `GameServer`
implements it for every user, so what `Dialogue` assumes of the server is what
the server's handlers do.

### Correspondence with the code

- **One handler is one action.** The server is one thread and a handler runs to
  its end before another line is read. An action has the name of its function
  and does everything the function does, calls included: `handle_ready` may
  start the game, `client_disconnect` may free the room. A message that the
  code refuses changes nothing and is no step.
- **Variables** are the fields of `Client`, `Room` and `Server` under their names,
  one function per field. `connected[c]` is `socket_fd >= 0`.
- **Ages for times.** The code stores the second at which something happened
  and compares `now` minus it with a limit. The model stores the difference
  (`pong_age`, `disconnect_age`, `game_elapsed`, `lag`) and stops counting
  where nothing tells later values apart.
- **The periodic pass** is `Tick` (timers of all rooms in one step, as in
  the loop) followed by a sweep that removes one client per step, in the code's order.
  No message is read in between (`phase`).
- **Unused slots and rooms are blanked** when they are freed; in the code they keep
  old contents until `memset` clears them on reuse, and nothing reads them in
  between. For the same reason `game_elapsed` and `solution` are reset at the end of a game.
- **The puzzle in `Game`** is the coordinates of its four solution values,
  chosen freely: nothing else decides who wins. `Puzzle` models how the values and the
  matrices come about.
- **Undefined behaviour.** `server_run` calls `FD_ISSET(-1, ...)` for slots without a
  socket. The constant `FdAlias` says whether that read may see a live descriptor;
  if so, `AliasedRead` records the loss a second time.
- **LOGIN** has no check of the sender's state in the code, and `handle_login` has none.
  `LoginStates` is the set of states in which clients send it, before or just after a login: an
  assumption on the clients (`SendsLogin`, used where `handle_message` offers LOGIN), not a
  guard of the server. That the client keeps to this is checked in `Dialogue`: `DoorUnlessResumed` says that LOGIN arrives from
  a seat only where the connection has just resumed that seat (a second click on
  Login, before the answer to the first has arrived). What the server makes of it then is
  `Again` in `UserSession`, and `Dialogue` goes on from there; the run `liveness` checks it
  with LOGIN sent from every state, and `second_seat` shows how far it can go.
- **How a round ended** is told to the players and then forgotten by the server. `announced` records
  what ROUND_END or GAME_END last said to a room (`Announce`); no action reads it. It tells a
  game that was won from one that was lost, which leave the same tables.
- **The client's slots** are one action each. A slot that opens a message box ends
  there, and what it does after the box is an action of its own (`LobbyAfterBox`,
  `ReconnectingAfterBox`, `LoginAfterBox`, `Answered`) on the newest box:
  `QMessageBox::exec` returns in the reverse order of opening. While a box is open the
  user reaches nothing under it (`UserFree`). The two boxes that follow a lost
  connection are one, and boxes that nothing follows are left out.
- **The result screen** counts as three screens, by the button it offers: back
  to the room, continue, or none after a vote.
- **Tags.** A line or box of `Dialogue` carries the game and round, or the seat, it was
  meant for. The protocol has no such field and no action reads it, apart from
  `outOfTurn`; it exists to state the properties. `misled` and `outOfTurn` record the
  named exceptions below.
- **Lines that change nothing** of screen, box or socket (PING, TIMER, CHAT, ERROR and
  the like) are left out of `Dialogue`, as is the choice of a cell. ROOM_STATUS is
  sent by the period and by many handlers and is a step of its own, `StatusUpdate`; where it stands
  before GAME_START (READY, `room.c:236`) that is `StatusUpdate` and then `handle_start_game`. An occupant removed by a time-out is followed by GAME_ABORTED
  without ROOM_STATUS (`OthersRemoved`), one that leaves by both (`OthersLeave`).
- **`Framing`** numbers the bytes of a stream; a buffer is an interval of positions and
  a line a pair of them. What the bytes spell does not matter, only where the newlines are.
- **Arithmetic in `Puzzle`** uses C's truncating division. With the code's ranges
  no value comes near 2^31, so integers are not wrapped. `rand()` may give any number
  of a range.

Left out of `GameServer`: periodic TIMER, ROOM_STATUS and PING lines (they change no state but
`ping_ms`, which is only displayed), logging, and the wording of messages.

## 3. Runs

| run | instance | question |
|---|---|---|
| `sessions` | 3 slots, 2 users, 1 room of 2 seats, 1 round | do the two tables stay consistent, with one session per user, does a host stay host, and is `SeatBook` implemented? |
| `rounds` | 2 slots, 2 users, 2 rounds, 2 cells | are rounds and games won only by the answers of their own round, do rounds advance only when won and is none begun again; who begins a game; is `Match` implemented? |
| `rooms` | 2 slots, 2 rooms, `FdAlias` | does one room leave the other alone; do seats survive a loss recorded twice? |
| `liveness` | 2 slots, 2 rounds, LOGIN from every state, fairness | do games end, are lost sessions resolved, are deserted rooms freed; is `UserSession` implemented if LOGIN comes from a seat? |
| `puzzle` | short ranges of numbers, 4 cells | are the equations true and the winning cells unique? |
| `framing` | 10 bytes, buffer of 5 | is each line handled once, whole and in order, however the stream is cut into reads? |
| `dialogue` | 1 client, 2 games of 2 rounds, 2 seats, 2 boxes, 3 lines to the client, 1 to the server | does the screen settle on the server's state; are answers and departures taken as meant? |
| `reconnect_window` | violation | a lost session is kept for 60 seconds |
| `lost_session` | violation | a lost session can be resumed |
| `abort` | violation | a departure aborts the game |
| `second_seat` | violation | who sits in a room has it as its `room_id` |
| `precedence` | violation | `calculate_result` respects precedence |

Every property of a passing run has a mutant in `PROJECT.json`: a definition
changed as a plausible slip in the code would change it, which makes TLC find the
property violated. The changed copies (`room_end_game_off_by_one`, `NextHostClient`,
`SeatLeftBehind` and the like) stand before the definition they vary, are marked
"Changed copy of" and are used by no specification.

**Bounds.** Two users are enough for every conflict over a name, a seat or a
host, and two seats for a full room, a room with a free seat and a game that goes on
without a player. Three slots are needed in `sessions`: a lost session, a connection that
resumes it and a third party who moves in between; the scan of LOGIN and
the reuse of a slot happen there. `liveness` keeps two things out (`SeatAndName`): a LOGIN
from a seat under another name, and a second seat; of its two users one sends LOGIN from a seat.
Nothing is said there of the seats themselves: the second seat, which ends their agreement, is what
`second_seat` shows, with LOGIN from every state and no such bound. Two rounds show both kinds of won round,
before the last and the last; two cells give right and wrong answers. Two
rooms with two clients show an effect on the other room. Time limits are a
few seconds, with both orders of timeouts and messages; `PING_TIMEOUT = 0` means that a
client must answer each second. The code has the ping limit at half of the
reconnect window, and every instance keeps it below. `MAX_LAG = 1` bounds the seconds one pass may
take. In `puzzle` the formats, operators and rounds are the code's and the ranges
of numbers are short, as is the number of cells; ranges keep what makes the code's cases differ: numbers
with and without a divisor in range, negative ones, zero sums, and as many
numbers as a matrix needs. Symmetry is used on the users, where no liveness is checked.

In `framing` ten bytes are two buffers and more: there is room for a read that
does not fit, for lines that span three reads and for several in one. In `dialogue` one
client suffices since what the other players do appears as steps of the session (`Others`). Two
games and two rounds make a line of one round meet the next round and the
next game, two seats a question about one seat meet another, and two boxes each
kind over each other kind. `MAX_WIRE = 3` is the longest answer to one
line, and a queue of one line to the server is what a user who clicks between two lines
of the server produces. No second seat is taken from a seat (`handle_sit`). Of PLAYER_DISCONNECTED one line
is on its way, or one box open, at a time; the status and the abort after a removal are sent
while nothing else is on its way. A connection is
opened only when nothing waits for the server on an older one (`onConnectClicked`). Smaller instances with a queue of two were checked beside it.

**Fairness.** `FairSpec`, and `StrayingSpec` of the run `liveness`, add weak fairness of `Periodic`: the
`select()` call has a time-out of one second, so time passes and the loop comes
around whatever the clients do. Nothing is asked of the clients: `GameEnds`,
`OrphanResolved` and `DesertedFreed` hold when no one sends another byte.

`Dialogue` and `Framing` state safety only and assume no fairness.

**Deadlock** is checked in every run but `framing`, whose stream ends.

### What the violations show

1. *Reconnection is cut short* (`reconnect_window`). `check_ping_timeouts`
   (`network.c:40`) counts a lost session as silent and removes it 30 seconds
   after its last PONG, though `server.h:28` allows 60 seconds to reconnect.
2. *A lost session turns live* (`lost_session`). A game that starts or ends
   while a seated player is cut off overwrites `STATE_DISCONNECTED`
   (`game.c:413`, `game.c:501`). LOGIN then answers "User already logged in" to
   the user until the ping time-out.
3. *"Aborted" games go on* (`abort`). GAME_ABORTED is sent and nothing else
   happens to the game (`room.c:162`).
4. *Precedence* (`precedence`). `P1 / P2 * P3` is computed as `P1 / (P2 * P3)`.
   Round 5 then asks for a P4 that does not solve the equation on screen.
5. *Two seats* (`second_seat`). LOGIN from inside a room leads to the lobby with the seat kept
   (`auth.c:246`), and JOIN_ROOM or CREATE_ROOM from there takes another
   (`room.c:99`, `room.c:131`). The first room then seats a client whose `room_id` names another room.

`SolvableUnless` bounds the fourth: the accepted values are an exact solution outside
three cases, which it names. A zero was replaced by 1 (`game.c:225`); a division is
followed by `*` or `/`; a product was wanted of a number without a divisor in
range (`game.c:209`).

### Where the documents say otherwise

Four properties that hold state what the code does where a document, or a comment, has it differently:

- *The next round waits* (`RoundAdvance`, `PlaysMatches`). In the design documents `room_end_game`
  itself counts the round up and starts the next one (`SERVER_ARCHITECTURE.md:984-992`, `:589`,
  `BAO_CAO_SERVER_NEW.md:484-488`, `646-652`); they know neither a vote nor a phase of waiting. The code sends
  ROUND_END and waits until every occupant has voted (`game.c:437`, `game.c:623-631`), which
  is the protocol the client is written for.
- *Fewer than four win* (`EarnedWin`). `puzzle_verify_solution` (`game.c:512`) compares the answers of all
  four seats, `handle_submit` waits for those of taken seats. An empty seat keeps the answer it was
  left with, (0,0) from the start: a host who starts alone can win, though `HUONG_DAN_CHAY.md:14` and `:275` and
  `README.md:169` speak of four. What holds is that every occupant has answered in
  this round and that all four answers are right.
- *A vote without a game* (`BegunInOrder`). `room_end_game` leaves `waiting_for_continue` set when the
  timer ends a won round. Players who are back IN_ROOM can then begin a new game by voting
  (`game.c:623`), past the host (`room.c:255`) and past READY (`README.md:160`). The property names this
  third way of beginning a game and shows that there is no fourth.
- *A room without its host* (`HostKept`). `client_disconnect` does not choose a new host, as `handle_leave_room`
  does (`server.c:245`), though `SERVER_ARCHITECTURE.md:262` says that a host who leaves is
  replaced. Until somebody joins at that seat no game can be begun in the room, but by such a vote.

### Where client and server part

`ScreenFollows` says that once nothing is on its way and no box is open, the client
shows the screen that belongs to the server's state, or the login screen if it has no
session. `misled` names every exception, each found by TLC and read back in the code:

- GAME_ABORTED puts the client in the lobby while its seat and the game go on
  (`mainwindow.cpp:150`), until the user asks for the screen again or the game sends it.
- A second LOGIN from a seat that has just been resumed puts the client in the
  lobby while it is seated (`auth.c:246`).
- A player who resumes while the room waits for votes is sent GAME_START
  (`auth.c:148`): the old round, without a button to continue.
- A player who was cut off after such a LOGIN resumes with the lobby's state and
  the room's screen.
- A line that moves the screen is handled under the box of LOGIN_OK or GAME_ABORTED:
  closing the box goes on to the lobby (`mainwindow.cpp:151`, `loginscreen.cpp:192`).
- ROOM_LIST, ROOM_STATUS or GAME_START is handled under the box of
  RECONNECT_OK. `isReconnecting` is set only when the box is closed, so the line the comment
  at `mainwindow.cpp:108` counts on has gone by: the client may stay at its login screen,
  or a later status moves it.
- A read error closes the socket and emits nothing (`bsdsocketclient.cpp:118`): the
  screen stays, `m_isConnected` stays set, and what the user sends is dropped. A loss reported
  under older boxes is shown before they are closed, and these then go on to the lobby
  on a dead connection.

`SetRight` ends an exception: the LEFT_ROOM of the last seat, or the GAME_START of the current round,
handled with nothing else pending, puts the client where the server has it. (A LEFT_ROOM of an
earlier seat does not: the user may have sat down again before it is read. That takes four lines to
the server at once, and came to light in the proofs.)

`AnswerInTime` says that an answer accepted in the game it was given for is an answer to the round being
played, although SUBMIT carries no round: the next round waits for this seat's
vote, and lines keep their order. Its exceptions (`outOfTurn`) are the resumed player
who has voted and is shown the old round, and a vote that outlived its game:
`waiting_for_continue` is not reset by the timer (`game.c:503`), so a late vote
starts or advances the next game. An answer confirmed after its game has ended may
be taken in a later game, hence "in the game it was given for".

`LeaveAsMeant` is about the two questions that may stand open for long (leave the
room, a player is away): a yes never takes away a later seat, unless the user
was misled. It rests on the modality of the boxes.

## 4. Proofs

All proofs are for arbitrary constants, under the named assumptions beside the
constants (`SizesAssumption`, `TimesAssumption`, `InputsAssumption`,
`LevelsAssumption`, `PoolsAssumption`, `RoundsAssumption`). TLC evaluates these on every run.

- **`GameServerSeats`: `TypeCorrect`, `SeatsConsistent`, `CountsExact`, `ChatContained`.**
  `TypeOK` is inductive. There is one lemma per action and one step per group of variables that it disturbs.
  Neither seat consistency nor the count is inductive alone. Taking a player out clears the *first*
  seat that holds the client, and LOGIN moves the seat that the client table names;
  both are right only if the tables agree. A room is freed when its
  count goes from 1 to 0; only if the count is exact is nobody left to be evicted. A
  client that sends CREATE_ROOM, JOIN_ROOM or LOGIN must have no room, which follows
  from its state. The inductive invariant `SeatInv` is therefore `TypeOK`,
  `SeatConsistency`, `OccupancyExact`, `WholeSeat` (a client that has a room has a
  seat) and `Roomless` (whoever is connecting or in
  the lobby, or will resume there, has no room,
  and a client with a connection is not in a reconnect window). `SeatInvariant` proves it from one
  lemma per action; the cardinality steps use the library's facts on finite sets.
  These theorems assume `AtTheDoor`: LOGIN is sent only before login or in
  the lobby. The assumption is necessary. A client that sends LOGIN from inside a room keeps its seat and
  gets into the lobby, from where it can take a second one.
  They hold for both values of `FdAlias`.
- **`GameServerSessions`, rounds: `RoundsInRange`, `RoundsAdvance`, `WinsEarned`,
  `GamesCalled`, `LateEntryBarred`, `TimeInHand`.** All follow from one case distinction, `RoundStep`:
  a step leaves a room's round alone but for time and answers, ends the game without a win, begins one at the
  call of all seats or the host, continues a won one, wins a round before the last, or wins the last one and the
  game. `RoundSteps` proves it for each action. In the two cases of a win every occupant has
  answered and all four answers are right, the last round included (`Solved`); `WinsEarned` adds
  that it was played and had time left. The first two theorems need no assumption on the clients. The
  others rest on `SeatInvariant`: a game runs only in a room in use, whose timer is looked at, and a
  count of four means that all seats are taken; so they assume `AtTheDoor`. `TimeInHand` is the safety half of `GameEnds`.
- **`GameServerSessions`, sessions: `SessionsSingle`, `StatesAgree`, `RoundsKept`.** One session per user is
  a race of timeouts: LOGIN skips a lost session whose window is over and
  would open a second one, and only the ping sweep prevents it. The invariant `NameInv`
  says that a lost session has been silent for as long as it has been lost, so
  the sweep takes it before the window ends if `SilenceFirst` holds: `PING_TIMEOUT + MAX_LAG < RECONNECT_TIMEOUT`,
  30 and 60 seconds in the code, and no pass that takes half a minute. `StatesAgree` needs this and the seats
  (`AgreesAt`, per client). Both assume `~FdAlias`: a loss recorded twice saves DISCONNECTED
  as the state to resume, and such a session is not found by name. `RoundsKept` follows: only READY and
  START_GAME could begin a running round again, and their senders are IN_ROOM or READY, which nobody
  in a playing room is.
- **`GameServerPlaces`: `ExitsOwn`, `SeatsHandedOver`, `PlacesKept`, `RoomsIsolated`, `HostsKept`.**
  `Movement` says that a step moves nobody or one session, in one of
  seven ways: a slot is opened, loses its connection, enters the lobby,
  resumes a lost session, takes a free seat, leaves its own, or is removed by the sweep.
  The first two theorems read who leaves a seat and who takes one over off these cases; they
  assume `AtTheDoor` and hold for both values of `FdAlias`. `PlacesKept` is the
  refinement of `SeatBook` and maps every case to an action of it. It needs one session per user,
  so it also assumes `SilenceFirst` and `~FdAlias`. `RoomsIsolated` assumes nothing of the clients: `OneRoomStep` for every step but the periodic pass,
  `TickElsewhere` for that. `HostsKept` rests on `SeatInvariant`: that somebody is left to take over
  when a host goes is a matter of the count.
- **`GameServerMatch`: `MatchesPlayed`, `UsersServed`.** `GameServer` implements `Match` for every room: one lemma per
  kind of `RoundStep`, with `TimeLeft` and `StateAgreement` for the steps that begin a game and close a room.
  It implements `UserSession` for every user: by where the user's session is before and after the
  step, `Movement` says whether it is entered, resumed, given up, takes a seat or
  leaves one (`EnterServed` to `RiseServed`). If it keeps its seat, `SeatSteps` says what each action, the
  other players' included, may do to that seat: one of seven things, and each
  is a step of the session or none (`SeatServed`). The theorem assumes
  `AtTheDoor`, `SilenceFirst` and `~FdAlias`, like the invariants it uses. Under `AtTheDoor` nobody
  is `stray`; a LOGIN from a seat is left to the run `liveness`.
- **`FramingProofs`.** All five properties of `Framing`, for every buffer
  size, stream and cutting, from one invariant: the buffer starts where a line begins, and the
  handled lines lie before it. `ShortStreamWhole` adds that a stream which fits the buffer
  is never cut.
- **`PuzzleProofs`: `Solvable`, `OneCell`.** `Generated`, every puzzle is
  one that `puzzle_generate` makes, is the invariant. The arithmetic is in
  lemmas: `QuotientOfMultiple` and `QuotientOfDivisor` on C division,
  `ThreeTerms` on three-term sides, `TwoSides` on the balanced format. `PoolSuffices`
  counts the numbers that may surround a value; with it the filled matrix is
  an injection into the pool, which holds neither the value nor 0.

- **`DialogueProofs`: `DialogueTypeCorrect`, `DoorHolds`, `AnswersInTime`**, for any number of boxes,
  lines on their way, games, seats and rounds. The queues appear in the proofs by what is on them and
  by what stands before what (`AppendOn`, `TailOn`, `PrefixOn`, `ConcatOn`).
  `ShapeInv` is the inductive form of the type invariant: who is seated and who plays, and
  that no line is about a round of no game. `DoorInv`: LOGIN is sent from the login screen only, SIT
  never is, so no LOGIN follows a SIT on the wire. A seat without a resumption
  therefore finds no LOGIN under way and the client off the login screen.
  `AnswerInv`: whatever is shown, asked or under way about the current game is about its current round, and once the
  vote of the seat is given or sent nothing about that round is left that the user could answer.
  None of the three theorems makes an assumption beyond `RoundsAssumption`.

- **`DialogueCourse`: `LeavesAsMeant`, `ScreenIsRight`.** The first property speaks of the head of one queue, and is
  inductive only with a description of the whole course of the client. Every step of
  the server, the other occupants and the timer is one of fourteen turns (`Turns`), by
  what is said to the client, in which order, and what becomes of the session. `WireInv`: before the server has
  read the first LOGIN, the client has nothing to read and can only log in; after that no
  line is about a round to come, once the last seat was left only the lobby is spoken
  of, and once the current round is announced neither seat nor round ends.
  `CourseInv`, for a client that is not misled: while the user has a seat the client knows it
  (`Known`), is about to be told (`Joining`) or about to resume it (`Resuming`); while the
  user is in the lobby, the lobby is shown or LEFT_ROOM, LOGIN_OK or the list of rooms is
  under way, in an order that cannot be misread (`LobbyCourse`); over a connection that was lost,
  what is still to be read asks to leave no other seat (`LeavesFit`).
  It has one lemma per course for the client's steps and one per turn for the server's.

  `ScreenFollows` speaks only of the moment when everything has been read. `SightInv` says
  for a seated user what will then be shown: the last line under way that puts the client in a place
  (`Latest`, `Places`) puts it in the right one (`RightLine`), for the current round if there is one; where no such
  line is under way the screen is right, or becomes so by what is still to be told
  of the vote (`SightFits`). `StartWaits` is needed because GAME_START sets a misled client right:
  if the end of the round stands behind it, the round has ended. `LossShown`: a
  client that has noticed a loss is at the login screen, or its only box goes
  there. Neither theorem makes an assumption beyond `RoundsAssumption`.

**Only model-checked**: liveness (`GameEnds`, `OrphanResolved`, `DesertedFreed`). Liveness under
fairness and ENABLED are beyond the prover, as is induction over data and anything that uses RECURSIVE
operators; the modules have none. Every other property of a passing run is proved.

## 5. Not modelled

- **Account file.** `register_user` and `authenticate_user` read and append to `users.txt`
  from start to end within one handler, with no other actor in between, and tell the rest only yes or no;
  the runs take the accounts as the constant `Users`. What can go wrong is in stdio: a write that
  is cut short is neither noticed nor repaired (hazard at `auth.c:24`).
- **Widgets.** Layout, painting, input fields and the choice of a cell.
- **Decoding** of a read that ends inside a name (`networkmanager.cpp:208`).
- `server_shutdown` is called by nothing.

## 6. Plan

What follows a second seat (`second_seat`), or a LOGIN from a seat under another name: both end the
agreement of the two tables, and which handlers a wrong seat then reaches is open.
