--------------------------- MODULE GameServerSeats ---------------------------
(***************************************************************************)
(* Proof of the type invariant of the server, and that the seats of the    *)
(* room table and the rooms of the client table stay the same relation,    *)
(* for tables of any size and for every reading of FD_ISSET(-1).           *)
(*                                                                         *)
(* The theorems about seats assume that clients send LOGIN only while they *)
(* have no room (AtTheDoor): handle_login itself does not look at the      *)
(* state of its sender.  The Qt client keeps to it unless Login is clicked *)
(* twice before a session with a seat is resumed (Dialogue,                *)
(* DoorUnlessResumed).                                                     *)
(***************************************************************************)
EXTENDS GameServer, FiniteSetTheorems, WellFoundedInduction, TLAPS

-----------------------------------------------------------------------------
(***************************************************************************)
(* "First free slot": the least element of a nonempty set of indices.      *)
(***************************************************************************)

\* The search for a first index finds one, and no smaller index qualifies.
LEMMA LeastOfNat ==
    ASSUME NEW S \in SUBSET Nat, S # {}
    PROVE  Least(S) \in S /\ \A j \in S : Least(S) <= j
<1> DEFINE Below == {ss \in Nat \X Nat : ss[1] < ss[2]}
<1>1. IsWellFoundedOn(Below, Nat)
  BY NatLessThanWellFounded DEF OpToRel
<1>2. PICK i \in S : \A j \in S : <<j, i>> \notin Below
  <2> HIDE DEF Below
  <2> QED BY <1>1, WFMin
<1>3. ASSUME NEW j \in S PROVE i <= j
  <2>1. i \in Nat /\ j \in Nat
    OBVIOUS
  <2>2. <<j, i>> \in Below <=> j < i
    BY <2>1
  <2> QED BY <1>2, <2>1, <2>2
<1> QED BY <1>3 DEF Least

\* The first client slot of a nonempty set of slots is one of them.
LEMMA LeastClient ==
    ASSUME NEW S \in SUBSET Clients, S # {} PROVE Least(S) \in S
<1>1. S \in SUBSET Nat
  BY SizesAssumption DEF Clients
<1> QED BY <1>1, LeastOfNat

\* The first room of a nonempty set of rooms is one of them.
LEMMA LeastRoom ==
    ASSUME NEW S \in SUBSET Rooms, S # {} PROVE Least(S) \in S
<1>1. S \in SUBSET Nat
  BY SizesAssumption DEF Rooms
<1> QED BY <1>1, LeastOfNat

\* The first seat of a nonempty set of seats is one of them.
LEMMA LeastSlot ==
    ASSUME NEW S \in SUBSET Slots, S # {} PROVE Least(S) \in S
<1>1. S \in SUBSET Nat
  BY SizesAssumption DEF Slots
<1> QED BY <1>1, LeastOfNat

-----------------------------------------------------------------------------
(***************************************************************************)
(* Constants that the actions assign.                                      *)
(***************************************************************************)

\* The names a client state can take.
LEMMA StateNames ==
    /\ "CONNECTED" \in ClientState
    /\ "IN_LOBBY" \in ClientState
    /\ "IN_ROOM" \in ClientState
    /\ "READY" \in ClientState
    /\ "IN_GAME" \in ClientState
    /\ "DISCONNECTED" \in ClientState
  BY DEF ClientState

\* The ages that an action sets are in the range of their counter.
LEMMA AgeRanges ==
    /\ 0 \in 0 .. PING_TIMEOUT + 1
    /\ 0 \in 0 .. RECONNECT_TIMEOUT
    /\ RECONNECT_TIMEOUT \in 0 .. RECONNECT_TIMEOUT
    /\ 0 \in 0 .. GAME_DURATION
    /\ 0 \in 0 .. MAX_LAG
  BY TimesAssumption

\* A capped counter stays in its range when it is stepped.
LEMMA CappedRange ==
    ASSUME NEW limit \in Nat, NEW n \in 0 .. limit
    PROVE  Capped(n + 1, limit) \in 0 .. limit
  BY DEF Capped

-----------------------------------------------------------------------------
(***************************************************************************)
(* A group of variables left alone keeps its types.                        *)
(***************************************************************************)

\* Handlers that do not touch the client table.
LEMMA ClientsFrame == ASSUME ClientsOK, UNCHANGED clientVars PROVE ClientsOK'
  BY DEF ClientsOK, clientVars

\* Handlers that do not touch the room table.
LEMMA RoomsFrame == ASSUME RoomsOK, UNCHANGED roomVars PROVE RoomsOK'
  BY DEF RoomsOK, roomVars

\* Handlers that do not touch a game.
LEMMA GamesFrame == ASSUME GamesOK, UNCHANGED gameVars PROVE GamesOK'
  BY DEF GamesOK, gameVars

\* Everything that runs inside one pass of the loop.
LEMMA LoopFrame == ASSUME LoopOK, UNCHANGED loopVars PROVE LoopOK'
  BY DEF LoopOK, loopVars

-----------------------------------------------------------------------------
(***************************************************************************)
(* Helpers of several handlers.                                            *)
(***************************************************************************)

\* memset of a room leaves a well-formed game.
LEMMA ZeroGameTypes ==
    ASSUME GamesOK, NEW r \in Rooms, ZeroGame(r) PROVE GamesOK'
  BY InputsAssumption, AgeRanges DEF GamesOK, ZeroGame

\* Starting a round leaves a well-formed game and client states.
LEMMA StartTypes ==
    ASSUME GamesOK, NEW r \in Rooms, NEW k \in Nat,
           NEW st \in [Clients -> ClientState],
           room_start_game(r, k, st)
    PROVE  /\ state' \in [Clients -> ClientState]
           /\ submitted_answers' \in [Rooms -> [Slots -> Cells]] => GamesOK'
  BY StateNames, AgeRanges DEF GamesOK, room_start_game, puzzle_generate

\* Ending games leaves what it assigns well formed.
LEMMA OverTypes ==
    ASSUME ClientsOK, RoomsOK, GamesOK, NEW R, GamesOver(R)
    PROVE  /\ state' \in [Clients -> ClientState]
           /\ player_ready' \in [Rooms -> [Slots -> BOOLEAN]]
           /\ game_started' \in [Rooms -> BOOLEAN]
           /\ game_elapsed' \in [Rooms -> 0 .. GAME_DURATION]
           /\ solution' \in [Rooms -> [Slots -> Cells]]
           /\ current_round' \in [Rooms -> Nat]
           /\ round_continue_ready' \in [Rooms -> [Slots -> BOOLEAN]]
           /\ waiting_for_continue' \in [Rooms -> BOOLEAN]
  BY InputsAssumption, StateNames, AgeRanges
  DEF ClientsOK, RoomsOK, GamesOK, GamesOver

\* Telling a room how its round ended assigns a result.
LEMMA AnnounceType ==
    ASSUME GamesOK, NEW R, NEW word \in {"WIN", "LOSE"}, Announce(R, word)
    PROVE  announced' \in [Rooms -> {"none", "WIN", "LOSE"}]
  BY DEF GamesOK, Announce

\* So does the end of a round, whichever of the two it is.
LEMMA EndTypes ==
    ASSUME ClientsOK, RoomsOK, GamesOK, NEW r \in Rooms, NEW won,
           room_end_game(r, won)
    PROVE  /\ state' \in [Clients -> ClientState]
           /\ player_ready' \in [Rooms -> [Slots -> BOOLEAN]]
           /\ game_started' \in [Rooms -> BOOLEAN]
           /\ game_elapsed' \in [Rooms -> 0 .. GAME_DURATION]
           /\ solution' \in [Rooms -> [Slots -> Cells]]
           /\ current_round' \in [Rooms -> Nat]
           /\ round_continue_ready' \in [Rooms -> [Slots -> BOOLEAN]]
           /\ waiting_for_continue' \in [Rooms -> BOOLEAN]
           /\ announced' \in [Rooms -> {"none", "WIN", "LOSE"}]
<1>1. announced' \in [Rooms -> {"none", "WIN", "LOSE"}]
  BY AnnounceType DEF room_end_game
<1>2. CASE RoundWon(r)
  BY <1>1, <1>2 DEF RoundWon, ClientsOK, RoomsOK, GamesOK
<1>3. CASE GamesOver({r})
  BY <1>1, <1>3, OverTypes
<1> QED BY <1>2, <1>3 DEF room_end_game

\* The seats after a departure are well formed.
LEMMA VacatedType ==
    ASSUME RoomsOK, NEW r \in Rooms, NEW c \in Clients
    PROVE  Vacated(r, c) \in [Slots -> Clients \cup {None}]
  BY DEF Vacated, RoomsOK

\* The next host's seat is a seat of the room, or nobody is host.
LEMMA NextHostType ==
    ASSUME RoomsOK, NEW r \in Rooms, NEW c \in Clients
    PROVE  NextHost(r, c) \in Slots \cup {None}
<1>1. host_index[r] \in Slots \cup {None}
  BY DEF RoomsOK
<1>2. TakenSeats(r) \ {host_index[r]} \in SUBSET Slots
  BY DEF TakenSeats
<1> QED BY <1>1, <1>2, LeastSlot DEF NextHost

\* Taking a client out of its room leaves well-formed tables.
LEMMA RemoveTypes ==
    ASSUME ClientsOK, RoomsOK, GamesOK, NEW r \in Rooms, NEW c \in Clients,
           NEW st \in ClientState, NEW host \in Slots \cup {None},
           RemovePlayer(r, c, st, host)
    PROVE  /\ RoomsOK'
           /\ GamesOK'
           /\ state' \in [Clients -> ClientState]
           /\ room_id' \in [Clients -> Rooms \cup {None}]
           /\ player_index' \in [Clients -> Slots \cup {None}]
<1>1. player_ids' \in [Rooms -> [Slots -> Clients \cup {None}]]
  BY VacatedType DEF RemovePlayer, RoomsOK
<1>2. player_count' \in [Rooms -> Int]
  BY DEF RemovePlayer, RoomsOK
<1>3. /\ state' \in [Clients -> ClientState]
      /\ room_id' \in [Clients -> Rooms \cup {None}]
      /\ player_index' \in [Clients -> Slots \cup {None}]
  BY StateNames DEF RemovePlayer, ClientsOK
<1>4. CASE player_count[r] = 1
  <2>1. room_active' \in [Rooms -> BOOLEAN]
    BY <1>4 DEF RemovePlayer, RoomsOK
  <2>2. player_ready' \in [Rooms -> [Slots -> BOOLEAN]]
    <3>1. player_ready' = [player_ready EXCEPT ![r] = [s \in Slots |-> FALSE]]
      BY <1>4 DEF RemovePlayer
    <3> QED BY <3>1 DEF RoomsOK
  <2>3. host_index' \in [Rooms -> Slots \cup {None}]
    BY <1>4 DEF RemovePlayer, RoomsOK
  <2>4. GamesOK'
    BY <1>4, ZeroGameTypes DEF RemovePlayer
  <2> QED BY <1>1, <1>2, <1>3, <2>1, <2>2, <2>3, <2>4 DEF RoomsOK
<1>5. CASE player_count[r] # 1
  <2>1. room_active' \in [Rooms -> BOOLEAN]
    BY <1>5 DEF RemovePlayer, RoomsOK
  <2>2. player_ready' \in [Rooms -> [Slots -> BOOLEAN]]
    <3> DEFINE row == [s \in Slots |->
                        player_ready[r][s] /\ Vacated(r, c)[s] = player_ids[r][s]]
    <3>1. player_ready' = [player_ready EXCEPT ![r] = row]
      BY <1>5 DEF RemovePlayer
    <3>2. row \in [Slots -> BOOLEAN]
      OBVIOUS
    <3> HIDE DEF row
    <3> QED BY <3>1, <3>2 DEF RoomsOK
  <2>3. host_index' \in [Rooms -> Slots \cup {None}]
    BY <1>5 DEF RemovePlayer, RoomsOK
  <2>4. GamesOK'
    BY <1>5, GamesFrame DEF RemovePlayer
  <2> QED BY <1>1, <1>2, <1>3, <2>1, <2>2, <2>3, <2>4 DEF RoomsOK
<1> QED BY <1>4, <1>5

\* Removing a session leaves well-formed tables.
LEMMA DisconnectTypes ==
    ASSUME ClientsOK, RoomsOK, GamesOK, NEW c \in Clients, client_disconnect(c)
    PROVE  ClientsOK' /\ RoomsOK' /\ GamesOK'
<1>1. /\ active' \in [Clients -> BOOLEAN]
      /\ connected' \in [Clients -> BOOLEAN]
      /\ username' \in [Clients -> Users \cup {NoUser}]
      /\ saved_state' \in [Clients -> ClientState]
      /\ pong_age' \in [Clients -> 0 .. PING_TIMEOUT + 1]
      /\ disconnect_age' \in [Clients -> 0 .. RECONNECT_TIMEOUT]
  BY StateNames, AgeRanges DEF client_disconnect, BlankSlot, ClientsOK
<1>2. CASE room_id[c] # None
  <2> DEFINE r == room_id[c]
  <2>1. r \in Rooms /\ host_index[r] \in Slots \cup {None}
    BY <1>2 DEF ClientsOK, RoomsOK
  <2>2. RemovePlayer(r, c, "CONNECTED", host_index[r])
    BY <1>2 DEF client_disconnect
  <2> HIDE DEF r
  <2> QED BY <1>1, <2>1, <2>2, StateNames, RemoveTypes DEF ClientsOK
<1>3. CASE room_id[c] = None
  <2>1. RoomsOK' /\ GamesOK'
    BY <1>3, RoomsFrame, GamesFrame DEF client_disconnect
  <2> QED BY <1>1, <1>3, <2>1, StateNames DEF client_disconnect, ClientsOK
<1> QED BY <1>2, <1>3

-----------------------------------------------------------------------------
(***************************************************************************)
(* The steps.                                                              *)
(***************************************************************************)

\* Accepting, losing and answering a connection keep the types.
LEMMA ConnectionTypes ==
    ASSUME TypeOK, NEW c \in Clients,
           \/ client_accept
           \/ ConnectionLost(c)
           \/ AliasedRead(c)
           \/ handle_pong(c)
    PROVE  TypeOK'
<1>1. CASE client_accept
  <2> DEFINE k == Least({i \in Clients : ~active[i]})
  <2>1. k \in Clients
    BY <1>1, LeastClient DEF client_accept
  <2>2. ClientsOK'
    BY <1>1, <2>1, StateNames, AgeRanges DEF client_accept, BlankSlot, ClientsOK, TypeOK
  <2> QED BY <1>1, <2>2, RoomsFrame, GamesFrame, LoopFrame DEF client_accept, TypeOK
<1>2. CASE ConnectionLost(c) \/ AliasedRead(c)
  <2>1. client_mark_disconnected(c)
    BY <1>2 DEF ConnectionLost, AliasedRead
  <2>2. ClientsOK'
    BY <2>1, StateNames, AgeRanges DEF client_mark_disconnected, ClientsOK, TypeOK
  <2> QED BY <2>1, <2>2, RoomsFrame, GamesFrame, LoopFrame
          DEF client_mark_disconnected, TypeOK
<1>3. CASE handle_pong(c)
  <2>1. ClientsOK'
    BY <1>3, AgeRanges DEF handle_pong, ClientsOK, TypeOK
  <2> QED BY <1>3, <2>1, RoomsFrame, GamesFrame, LoopFrame DEF handle_pong, TypeOK
<1> QED BY <1>1, <1>2, <1>3

\* Both outcomes of LOGIN keep the types.
LEMMA LoginTypes ==
    ASSUME TypeOK, NEW c \in Clients, NEW u \in Users, handle_login(c, u)
    PROVE  TypeOK'
<1>1. CASE login_fresh(c, u)
  <2>1. ClientsOK'
    BY <1>1, StateNames DEF login_fresh, ClientsOK, TypeOK
  <2> QED BY <1>1, <2>1, RoomsFrame, GamesFrame, LoopFrame DEF login_fresh, TypeOK
<1>2. CASE login_resume(c, u)
  <2> DEFINE old == Least(ScanStops(c, u))
  <2>1. old \in Clients
    BY <1>2, LeastClient DEF login_resume, ScanStops
  <2>2. player_ids' \in [Rooms -> [Slots -> Clients \cup {None}]]
    BY <1>2, <2>1 DEF login_resume, SeatTakenOver, RoomsOK, TypeOK
  <2>3. RoomsOK'
    BY <1>2, <2>2 DEF login_resume, RoomsOK, TypeOK
  <2>4. ClientsOK'
    <3> HIDE DEF old
    <3> QED BY <1>2, <2>1, StateNames, AgeRanges DEF login_resume, old, ClientsOK, TypeOK
  <2> QED BY <1>2, <2>3, <2>4, GamesFrame, LoopFrame DEF login_resume, TypeOK
<1> QED BY <1>1, <1>2 DEF handle_login

\* Entering and leaving a room keep the types.
LEMMA MembershipTypes ==
    ASSUME TypeOK, NEW c \in Clients,
           \/ handle_create_room(c)
           \/ \E r \in Rooms : handle_join_room(c, r)
           \/ handle_leave_room(c)
    PROVE  TypeOK'
<1>1. CASE handle_create_room(c)
  <2> DEFINE r == Least({q \in Rooms : ~room_active[q]})
  <2>1. r \in Rooms
    BY <1>1, LeastRoom DEF handle_create_room
  <2>2. 0 \in Slots
    BY SizesAssumption DEF Slots
  <2>3. RoomsOK'
    BY <1>1, <2>1, <2>2 DEF handle_create_room, RoomsOK, TypeOK
  <2>4. GamesOK'
    BY <1>1, <2>1, ZeroGameTypes DEF handle_create_room, TypeOK
  <2>5. ClientsOK'
    BY <1>1, <2>1, <2>2, StateNames
    DEF handle_create_room, unchangedByRooms, ClientsOK, TypeOK
  <2> QED BY <1>1, <2>3, <2>4, <2>5, LoopFrame
          DEF handle_create_room, unchangedByRooms, TypeOK
<1>2. ASSUME NEW r \in Rooms, handle_join_room(c, r) PROVE TypeOK'
  <2> DEFINE s == Least(FreeSeats(r))
  <2>1. s \in Slots
    BY <1>2, LeastSlot DEF handle_join_room, room_join, CanJoin, FreeSeats
  <2> HIDE DEF s
  <2>2. RoomsOK'
    BY <1>2, <2>1 DEF handle_join_room, room_join, s, RoomsOK, TypeOK
  <2>3. ClientsOK'
    BY <1>2, <2>1, StateNames
    DEF handle_join_room, room_join, unchangedByRooms, s, ClientsOK, TypeOK
  <2> QED BY <1>2, <2>2, <2>3, GamesFrame, LoopFrame
          DEF handle_join_room, unchangedByRooms, TypeOK
<1>3. CASE handle_leave_room(c)
  <2> DEFINE r == room_id[c]
  <2>1. r \in Rooms
    BY <1>3 DEF handle_leave_room, ClientsOK, TypeOK
  <2>2. RemovePlayer(r, c, "IN_LOBBY", NextHost(r, c)) /\ UNCHANGED unchangedByRooms
    BY <1>3 DEF handle_leave_room
  <2> HIDE DEF r
  <2>3. /\ RoomsOK'
        /\ GamesOK'
        /\ state' \in [Clients -> ClientState]
        /\ room_id' \in [Clients -> Rooms \cup {None}]
        /\ player_index' \in [Clients -> Slots \cup {None}]
    BY <2>1, <2>2, RemoveTypes, NextHostType, StateNames DEF TypeOK
  <2>4. ClientsOK'
    BY <2>2, <2>3 DEF unchangedByRooms, ClientsOK, TypeOK
  <2> QED BY <2>2, <2>3, <2>4, LoopFrame DEF unchangedByRooms, TypeOK
<1> QED BY <1>1, <1>2, <1>3

\* Getting ready and starting a game keep the types.
LEMMA StartingTypes ==
    ASSUME TypeOK, NEW c \in Clients, handle_ready(c) \/ handle_start_game(c)
    PROVE  TypeOK'
<1> DEFINE r == room_id[c]
<1>1. r \in Rooms
  BY DEF handle_ready, handle_start_game, ClientsOK, TypeOK
<1>2. CASE handle_ready(c)
  <2> DEFINE flags == [player_ready[r] EXCEPT ![player_index[c]] = ~@]
             st    == [state EXCEPT ![c] =
                         IF flags[player_index[c]] THEN "READY" ELSE "IN_ROOM"]
  <2>1. st \in [Clients -> ClientState]
    BY StateNames DEF ClientsOK, TypeOK
  <2>2. flags \in [Slots -> BOOLEAN]
    BY <1>1 DEF RoomsOK, TypeOK
  <2>3. /\ player_ready' = [player_ready EXCEPT ![r] = flags]
        /\ \/ /\ room_start_game(r, current_round[r], st)
              /\ UNCHANGED submitted_answers
           \/ state' = st /\ UNCHANGED gameVars
        /\ UNCHANGED <<room_id, player_index, room_active, player_ids,
                       player_count, host_index, unchangedByRooms>>
    BY <1>2 DEF handle_ready
  <2> HIDE DEF r, flags, st
  <2>4. RoomsOK'
    BY <1>1, <2>2, <2>3 DEF RoomsOK, TypeOK
  <2>5. GamesOK' /\ state' \in [Clients -> ClientState]
    <3>1. current_round[r] \in Nat /\ submitted_answers \in [Rooms -> [Slots -> Cells]]
      BY <1>1 DEF GamesOK, TypeOK
    <3> QED BY <1>1, <2>1, <2>3, <3>1, StartTypes, GamesFrame DEF TypeOK
  <2>6. ClientsOK'
    BY <2>3, <2>5 DEF unchangedByRooms, ClientsOK, TypeOK
  <2> QED BY <2>3, <2>4, <2>5, <2>6, LoopFrame DEF unchangedByRooms, TypeOK
<1>3. CASE handle_start_game(c)
  <2>1. /\ room_start_game(r, current_round[r], state)
        /\ UNCHANGED <<submitted_answers, room_id, player_index, roomVars,
                       unchangedByRooms>>
    BY <1>3 DEF handle_start_game
  <2> HIDE DEF r
  <2>2. GamesOK' /\ state' \in [Clients -> ClientState]
    <3>1. /\ current_round[r] \in Nat
          /\ submitted_answers \in [Rooms -> [Slots -> Cells]]
          /\ state \in [Clients -> ClientState]
      BY <1>1 DEF GamesOK, ClientsOK, TypeOK
    <3> QED BY <1>1, <2>1, <3>1, StartTypes DEF TypeOK
  <2>3. ClientsOK'
    BY <2>1, <2>2 DEF unchangedByRooms, ClientsOK, TypeOK
  <2> QED BY <2>1, <2>2, <2>3, RoomsFrame, LoopFrame DEF unchangedByRooms, TypeOK
<1> QED BY <1>2, <1>3

\* Answering and voting keep the types.
LEMMA PlayingTypes ==
    ASSUME TypeOK, NEW c \in Clients,
           \/ \E cell \in Cells : handle_submit(c, cell)
           \/ handle_ready_next_round(c)
    PROVE  TypeOK'
<1> DEFINE r == room_id[c]
<1>1. r \in Rooms
  BY DEF handle_submit, handle_ready_next_round, ClientsOK, TypeOK
<1>2. ASSUME NEW cell \in Cells, handle_submit(c, cell) PROVE TypeOK'
  <2> DEFINE answers == [submitted_answers[r] EXCEPT ![player_index[c]] = cell]
             given   == [answer_submitted[r] EXCEPT ![player_index[c]] = TRUE]
  <2>1. answers \in [Slots -> Cells] /\ given \in [Slots -> BOOLEAN]
    BY <1>1 DEF GamesOK, TypeOK
  <2>2. /\ submitted_answers' = [submitted_answers EXCEPT ![r] = answers]
        /\ answer_submitted' = [answer_submitted EXCEPT ![r] = given]
        /\ \/ room_end_game(r, puzzle_verify_solution(r, answers))
           \/ UNCHANGED progressVars
        /\ UNCHANGED <<active, connected, username, saved_state, room_id,
                       player_index, pong_age, disconnect_age, room_active,
                       player_ids, player_count, host_index, loopVars>>
    BY <1>2 DEF handle_submit
  <2> HIDE DEF r, answers, given
  <2>3. /\ submitted_answers' \in [Rooms -> [Slots -> Cells]]
        /\ answer_submitted' \in [Rooms -> [Slots -> BOOLEAN]]
    BY <1>1, <2>1, <2>2 DEF GamesOK, TypeOK
  <2>4. /\ state' \in [Clients -> ClientState]
        /\ player_ready' \in [Rooms -> [Slots -> BOOLEAN]]
        /\ game_started' \in [Rooms -> BOOLEAN]
        /\ game_elapsed' \in [Rooms -> 0 .. GAME_DURATION]
        /\ solution' \in [Rooms -> [Slots -> Cells]]
        /\ current_round' \in [Rooms -> Nat]
        /\ round_continue_ready' \in [Rooms -> [Slots -> BOOLEAN]]
        /\ waiting_for_continue' \in [Rooms -> BOOLEAN]
        /\ announced' \in [Rooms -> {"none", "WIN", "LOSE"}]
    <3>1. CASE room_end_game(r, puzzle_verify_solution(r, answers))
      BY <1>1, <3>1, EndTypes DEF TypeOK
    <3>2. CASE UNCHANGED progressVars
      BY <3>2 DEF progressVars, ClientsOK, RoomsOK, GamesOK, TypeOK
    <3> QED BY <2>2, <3>1, <3>2
  <2>5. GamesOK'
    BY <2>3, <2>4 DEF GamesOK
  <2>6. RoomsOK'
    BY <2>2, <2>4 DEF RoomsOK, TypeOK
  <2>7. ClientsOK'
    BY <2>2, <2>4 DEF ClientsOK, TypeOK
  <2> QED BY <2>2, <2>5, <2>6, <2>7, LoopFrame DEF TypeOK
<1>3. CASE handle_ready_next_round(c)
  <2> DEFINE votes == [round_continue_ready[r] EXCEPT ![player_index[c]] = TRUE]
  <2>1. votes \in [Slots -> BOOLEAN]
    BY <1>1 DEF GamesOK, TypeOK
  <2>2. /\ \/ /\ room_start_game(r, current_round[r] + 1, state)
              /\ UNCHANGED player_ready
           \/ /\ round_continue_ready' = [round_continue_ready EXCEPT ![r] = votes]
              /\ UNCHANGED <<game_started, current_round, waiting_for_continue,
                             state, player_ready, game_elapsed, solution,
                             answer_submitted, announced>>
        /\ UNCHANGED <<active, connected, username, saved_state, room_id,
                       player_index, pong_age, disconnect_age, room_active,
                       player_ids, player_count, host_index,
                       submitted_answers, loopVars>>
    BY <1>3 DEF handle_ready_next_round
  <2> HIDE DEF r, votes
  <2>3. GamesOK' /\ state' \in [Clients -> ClientState]
    <3>1. /\ current_round[r] + 1 \in Nat
          /\ submitted_answers \in [Rooms -> [Slots -> Cells]]
          /\ state \in [Clients -> ClientState]
      BY <1>1 DEF GamesOK, ClientsOK, TypeOK
    <3>2. CASE room_start_game(r, current_round[r] + 1, state)
      BY <1>1, <2>2, <3>1, <3>2, StartTypes DEF TypeOK
    <3>3. ASSUME round_continue_ready' = [round_continue_ready EXCEPT ![r] = votes],
                 UNCHANGED <<game_started, current_round, waiting_for_continue, state,
                             game_elapsed, solution, answer_submitted, announced>>
          PROVE  GamesOK' /\ state' \in [Clients -> ClientState]
      <4>1. round_continue_ready' \in [Rooms -> [Slots -> BOOLEAN]]
        BY <2>1, <3>3 DEF GamesOK, TypeOK
      <4> QED BY <2>2, <3>1, <3>3, <4>1 DEF GamesOK, TypeOK
    <3> QED BY <2>2, <3>2, <3>3
  <2>4. RoomsOK'
    BY <2>2 DEF RoomsOK, TypeOK
  <2>5. ClientsOK'
    BY <2>2, <2>3 DEF ClientsOK, TypeOK
  <2> QED BY <2>2, <2>3, <2>4, <2>5, LoopFrame DEF TypeOK
<1> QED BY <1>2, <1>3

\* The clock and the periodic pass keep the types.
LEMMA PeriodicTypes == ASSUME TypeOK, Periodic PROVE TypeOK'
<1>1. CASE Clock
  <2>1. /\ pong_age' \in [Clients -> 0 .. PING_TIMEOUT + 1]
        /\ disconnect_age' \in [Clients -> 0 .. RECONNECT_TIMEOUT]
        /\ game_elapsed' \in [Rooms -> 0 .. GAME_DURATION]
    BY <1>1, CappedRange, TimesAssumption DEF Clock, ClientsOK, GamesOK, TypeOK
  <2>2. ClientsOK'
    BY <1>1, <2>1 DEF Clock, ClientsOK, TypeOK
  <2>3. GamesOK'
    BY <1>1, <2>1 DEF Clock, GamesOK, TypeOK
  <2>4. LoopOK'
    BY <1>1, TimesAssumption DEF Clock, LoopOK, TypeOK
  <2> QED BY <1>1, <2>2, <2>3, <2>4, RoomsFrame DEF Clock, TypeOK
<1>2. CASE Tick
  <2>1. GamesOver(TimeIsUp)
    BY <1>2 DEF Tick
  <2>2. ClientsOK'
    BY <1>2, <2>1, OverTypes DEF Tick, ClientsOK, TypeOK
  <2>3. RoomsOK'
    BY <1>2, <2>1, OverTypes DEF Tick, RoomsOK, TypeOK
  <2>4. GamesOK'
    <3>1. announced' \in [Rooms -> {"none", "WIN", "LOSE"}]
      BY <1>2, AnnounceType DEF Tick, TypeOK
    <3> QED BY <1>2, <2>1, <3>1, OverTypes DEF Tick, GamesOK, TypeOK
  <2>5. LoopOK'
    BY <1>2, AgeRanges DEF Tick, LoopOK
  <2> QED BY <2>2, <2>3, <2>4, <2>5 DEF TypeOK
<1>3. CASE Sweep
  <2>1. CASE check_ping_timeouts
    <3>1. Least(Silent) \in Clients
      BY <2>1, LeastClient DEF check_ping_timeouts, Silent
    <3> QED BY <2>1, <3>1, DisconnectTypes, LoopFrame DEF check_ping_timeouts, TypeOK
  <2>2. CASE check_reconnect_timeouts
    <3>1. Least(Expired) \in Clients
      BY <2>2, LeastClient DEF check_reconnect_timeouts, Expired
    <3> QED BY <2>2, <3>1, DisconnectTypes, LoopFrame
            DEF check_reconnect_timeouts, TypeOK
  <2>3. CASE SweepDone
    <3>1. LoopOK'
      BY <2>3 DEF SweepDone, LoopOK, TypeOK
    <3> QED BY <2>3, <3>1, ClientsFrame, RoomsFrame, GamesFrame DEF SweepDone, TypeOK
  <2> QED BY <1>3, <2>1, <2>2, <2>3 DEF Sweep
<1> QED BY <1>1, <1>2, <1>3 DEF Periodic

\* The server starts with well-formed tables.
LEMMA InitTypes == ASSUME Init PROVE TypeOK
<1>1. ClientsOK
  BY StateNames, AgeRanges DEF Init, ClientsOK
<1>2. RoomsOK
  BY DEF Init, RoomsOK
<1>3. GamesOK
  BY InputsAssumption, AgeRanges DEF Init, GamesOK
<1>4. LoopOK
  BY AgeRanges DEF Init, LoopOK
<1> QED BY <1>1, <1>2, <1>3, <1>4 DEF TypeOK

\* Every step of the server, stuttering included, keeps the types.
LEMMA NextTypes == ASSUME TypeOK, [Next]_vars PROVE TypeOK'
<1>1. CASE UNCHANGED vars
  BY <1>1, ClientsFrame, RoomsFrame, GamesFrame, LoopFrame DEF vars, TypeOK
<1>2. CASE client_accept
  <2>1. 0 \in Clients
    BY SizesAssumption DEF Clients
  <2> QED BY <1>2, <2>1, ConnectionTypes
<1>3. ASSUME NEW c \in Clients, ConnectionLost(c) \/ AliasedRead(c) PROVE TypeOK'
  BY <1>3, ConnectionTypes
<1>4. ASSUME NEW c \in Clients, handle_message(c) PROVE TypeOK'
  BY <1>4, ConnectionTypes, LoginTypes, MembershipTypes, StartingTypes, PlayingTypes
  DEF handle_message
<1>5. CASE Periodic
  BY <1>5, PeriodicTypes
<1> QED BY <1>1, <1>2, <1>3, <1>4, <1>5 DEF Next

\* Type correctness, whatever the size of the tables, the limits, the puzzle
\* and the screens from which clients send LOGIN.
THEOREM TypeCorrect == Spec => []TypeOK
<1>1. Init => TypeOK
  BY InitTypes
<1>2. TypeOK /\ [Next]_vars => TypeOK'
  BY NextTypes
<1> QED BY <1>1, <1>2, PTL DEF Spec

-----------------------------------------------------------------------------
(***************************************************************************)
(* The seats.                                                              *)
(***************************************************************************)

\* A client logs in from the login screen or again from the lobby.
Outside   == {"CONNECTED", "IN_LOBBY"}
AtTheDoor == LoginStates \subseteq Outside

\* What the seats of a state depend on.
seatVars == <<active, room_id, player_index, player_ids, player_count, room_active>>

\* A client that has a room has a seat.
WholeSeat == \A c \in Clients : active[c] /\ room_id[c] # None => player_index[c] # None

SeatsRight == SeatConsistency /\ OccupancyExact /\ WholeSeat

\* A client whose state says that it is outside any room has no room, now or
\* after it resumes; a client with a connection has no window of its own.
RoomlessAt(c) ==
    active[c] =>
        /\ state[c] \in Outside => room_id[c] = None
        /\ Resumable(c) /\ saved_state[c] \in Outside => room_id[c] = None
        /\ connected[c] => disconnect_age[c] = RECONNECT_TIMEOUT

Roomless == \A c \in Clients : RoomlessAt(c)

\* The inductive invariant.
SeatInv == TypeOK /\ SeatsRight /\ Roomless

-----------------------------------------------------------------------------
(***************************************************************************)
(* Counting seats.                                                         *)
(***************************************************************************)

\* A room has finitely many seats, and as many taken ones as the set says.
LEMMA TakenFinite ==
    ASSUME NEW r \in Rooms
    PROVE  IsFiniteSet(TakenSeats(r)) /\ Cardinality(TakenSeats(r)) \in Nat
<1>1. IsFiniteSet(Slots)
  BY SizesAssumption, FS_Interval DEF Slots
<1>2. TakenSeats(r) \subseteq Slots
  BY DEF TakenSeats
<1> QED BY <1>1, <1>2, FS_Subset, FS_CardinalityType

\* A room not in use has nobody in it.
LEMMA UnusedIsEmpty ==
    ASSUME TypeOK, OccupancyExact, NEW r \in Rooms, ~room_active[r]
    PROVE  player_count[r] = 0 /\ TakenSeats(r) = {}
<1>1. player_count[r] = Cardinality(TakenSeats(r)) /\ ~(player_count[r] > 0)
  BY DEF OccupancyExact
<1>2. player_count[r] = 0
  BY <1>1, TakenFinite
<1> QED BY <1>1, <1>2, TakenFinite, FS_EmptySet

\* The seat of a client that has a room: the only one that names it.
LEMMA OwnSeat ==
    ASSUME TypeOK, SeatsRight, NEW c \in Clients, active[c], room_id[c] # None
    PROVE  /\ player_index[c] \in Slots
           /\ player_ids[room_id[c]][player_index[c]] = c
           /\ SeatsOf(room_id[c], c) = {player_index[c]}
<1>1. room_id[c] \in Rooms /\ player_index[c] \in Slots
  BY DEF TypeOK, ClientsOK, SeatsRight, WholeSeat
<1> QED BY <1>1 DEF SeatsRight, SeatConsistency, SeatsOf

\* The first of a single seat is that seat.
LEMMA LeastOfOne == ASSUME NEW s \in Slots PROVE Least({s}) = s
  BY LeastSlot

-----------------------------------------------------------------------------
(***************************************************************************)
(* The four ways in which a step may change the seats.                     *)
(***************************************************************************)

\* It does not.
LEMMA SeatsKept == ASSUME SeatsRight, UNCHANGED seatVars PROVE SeatsRight'
  BY DEF SeatsRight, SeatConsistency, OccupancyExact, TakenSeats, WholeSeat, seatVars

\* A client without a room takes a free seat.
LEMMA SeatTaken ==
    ASSUME TypeOK, SeatsRight,
           NEW c \in Clients, NEW r \in Rooms, NEW s \in FreeSeats(r),
           active[c], room_id[c] = None,
           UNCHANGED active,
           room_id' = [room_id EXCEPT ![c] = r],
           player_index' = [player_index EXCEPT ![c] = s],
           player_ids' = [player_ids EXCEPT ![r] = [@ EXCEPT ![s] = c]],
           player_count' = [player_count EXCEPT ![r] = @ + 1],
           room_active' = [room_active EXCEPT ![r] = TRUE]
    PROVE  SeatsRight'
<1>1. s \in Slots /\ player_ids[r][s] = None /\ c # None /\ s # None /\ r # None
  BY SizesAssumption DEF FreeSeats, Clients, Slots, Rooms, None
<1>2. \A q \in Rooms, k \in Slots :
        player_ids'[q][k] = IF q = r /\ k = s THEN c ELSE player_ids[q][k]
  BY <1>1 DEF TypeOK, RoomsOK
<1>3. SeatConsistency'
  <2> SUFFICES ASSUME NEW q \in Rooms, NEW k \in Slots, NEW d \in Clients
               PROVE  player_ids'[q][k] = d
                        <=> active'[d] /\ room_id'[d] = q /\ player_index'[d] = k
    BY DEF SeatConsistency
  <2>1. player_ids[q][k] = d <=> active[d] /\ room_id[d] = q /\ player_index[d] = k
    BY DEF SeatsRight, SeatConsistency
  <2>2. /\ active'[d] = active[d]
        /\ room_id'[d] = IF d = c THEN r ELSE room_id[d]
        /\ player_index'[d] = IF d = c THEN s ELSE player_index[d]
    BY DEF TypeOK, ClientsOK
  <2>3. q # None /\ d # None
    BY SizesAssumption DEF Rooms, Clients, None
  <2> QED BY <1>1, <1>2, <2>1, <2>2, <2>3
<1>4. OccupancyExact'
  <2>1. TakenSeats(r)' = TakenSeats(r) \cup {s} /\ s \notin TakenSeats(r)
    BY <1>1, <1>2 DEF TakenSeats
  <2>2. \A q \in Rooms : q # r => TakenSeats(q)' = TakenSeats(q)
    BY <1>2 DEF TakenSeats
  <2>3. Cardinality(TakenSeats(r)') = Cardinality(TakenSeats(r)) + 1
    BY <2>1, TakenFinite, FS_AddElement
  <2>4. \A q \in Rooms :
          /\ player_count[q] = Cardinality(TakenSeats(q))
          /\ room_active[q] <=> player_count[q] > 0
    BY DEF SeatsRight, OccupancyExact
  <2>5. /\ player_count'[r] = player_count[r] + 1
        /\ room_active'[r]
        /\ \A q \in Rooms \ {r} : /\ player_count'[q] = player_count[q]
                                  /\ room_active'[q] = room_active[q]
    BY DEF TypeOK, RoomsOK
  <2> SUFFICES ASSUME NEW q \in Rooms
               PROVE  /\ player_count'[q] = Cardinality(TakenSeats(q)')
                      /\ room_active'[q] <=> player_count'[q] > 0
    BY DEF OccupancyExact
  <2>6. CASE q = r
    BY <2>3, <2>4, <2>5, <2>6, TakenFinite
  <2>7. CASE q # r
    BY <2>2, <2>4, <2>5, <2>7
  <2> QED BY <2>6, <2>7
<1>5. WholeSeat'
  BY <1>1 DEF SeatsRight, WholeSeat, TypeOK, ClientsOK
<1> QED BY <1>3, <1>4, <1>5 DEF SeatsRight

\* What the departure of c does to a room: its seat is the one cleared, and
\* nobody is left to be sent back to the lobby when the room is freed.
LEMMA Departure ==
    ASSUME TypeOK, SeatsRight, NEW c \in Clients, NEW r, NEW s,
           active[c], room_id[c] = r, player_index[c] = s, r # None
    PROVE  /\ Vacated(r, c) = [player_ids[r] EXCEPT ![s] = None]
           /\ Evicted(r, c) = {}
<1>1. /\ r \in Rooms /\ s \in Slots
      /\ player_ids[r][s] = c /\ SeatsOf(r, c) = {s}
  BY OwnSeat DEF TypeOK, ClientsOK
<1>2. Vacated(r, c) = [player_ids[r] EXCEPT ![s] = None]
  BY <1>1, LeastOfOne DEF Vacated
<1>3. None \notin Clients
  BY SizesAssumption DEF Clients, None
<1>4. CASE player_count[r] = 1
  <2>1. Cardinality(TakenSeats(r)) = 1
    BY <1>1, <1>4 DEF SeatsRight, OccupancyExact
  <2>2. s \in TakenSeats(r)
    BY <1>1, <1>3 DEF TakenSeats
  <2>3. IsFiniteSet(TakenSeats(r) \ {s}) /\ Cardinality(TakenSeats(r) \ {s}) = 0
    BY <1>1, <2>1, <2>2, TakenFinite, FS_RemoveElement
  <2>4. TakenSeats(r) \ {s} = {}
    BY <2>3, FS_EmptySet
  <2>5. \A k \in Slots : Vacated(r, c)[k] = None
    BY <1>1, <1>2, <2>4 DEF TakenSeats, TypeOK, RoomsOK
  <2> QED BY <1>2, <1>3, <2>5 DEF Evicted
<1>5. CASE player_count[r] # 1
  BY <1>2, <1>5 DEF Evicted
<1> QED BY <1>4, <1>5

\* A client leaves its seat, and perhaps its slot as well.
LEMMA SeatLeft ==
    ASSUME TypeOK, SeatsRight,
           NEW c \in Clients, NEW r, NEW s,
           active[c], room_id[c] = r, player_index[c] = s, r # None,
           NEW st, NEW host, RemovePlayer(r, c, st, host),
           UNCHANGED active \/ active' = [active EXCEPT ![c] = FALSE]
    PROVE  /\ SeatsRight'
           /\ room_id' = [room_id EXCEPT ![c] = None]
           /\ state' = [state EXCEPT ![c] = st]
<1>1. /\ r \in Rooms /\ s \in Slots /\ player_ids[r][s] = c
      /\ c # None
  BY OwnSeat, SizesAssumption DEF TypeOK, ClientsOK, Clients, None
<1>2. /\ room_id' = [room_id EXCEPT ![c] = None]
      /\ player_index' = [player_index EXCEPT ![c] = None]
      /\ state' = [state EXCEPT ![c] = st]
  BY Departure DEF RemovePlayer, TypeOK, ClientsOK
<1>3. \A q \in Rooms, k \in Slots :
        player_ids'[q][k] = IF q = r /\ k = s THEN None ELSE player_ids[q][k]
  <2>1. Vacated(r, c) = [player_ids[r] EXCEPT ![s] = None]
    BY Departure
  <2>2. player_ids' = [player_ids EXCEPT ![r] = Vacated(r, c)]
    BY DEF RemovePlayer
  <2>3. player_ids' = [player_ids EXCEPT ![r] = [player_ids[r] EXCEPT ![s] = None]]
    BY <2>1, <2>2
  <2> QED BY <1>1, <2>3 DEF TypeOK, RoomsOK
<1>4. /\ player_count' = [player_count EXCEPT ![r] = @ - 1]
      /\ room_active' = IF player_count[r] = 1 THEN [room_active EXCEPT ![r] = FALSE]
                        ELSE room_active
  BY DEF RemovePlayer, gameVars
<1>5. \A d \in Clients : d # c => active'[d] = active[d]
  BY DEF TypeOK, ClientsOK
<1>6. SeatConsistency'
  <2> SUFFICES ASSUME NEW q \in Rooms, NEW k \in Slots, NEW d \in Clients
               PROVE  player_ids'[q][k] = d
                        <=> active'[d] /\ room_id'[d] = q /\ player_index'[d] = k
    BY DEF SeatConsistency
  <2>1. player_ids[q][k] = d <=> active[d] /\ room_id[d] = q /\ player_index[d] = k
    BY DEF SeatsRight, SeatConsistency
  <2>2. d # None /\ q # None
    BY SizesAssumption DEF Clients, Rooms, None
  <2>3. CASE d = c
    BY <1>1, <1>2, <1>3, <2>1, <2>2, <2>3 DEF TypeOK, ClientsOK
  <2>4. CASE d # c
    BY <1>1, <1>2, <1>3, <1>5, <2>1, <2>2, <2>4 DEF TypeOK, ClientsOK
  <2> QED BY <2>3, <2>4
<1>7. OccupancyExact'
  <2>1. TakenSeats(r)' = TakenSeats(r) \ {s} /\ s \in TakenSeats(r)
    BY <1>1, <1>3 DEF TakenSeats
  <2>2. \A q \in Rooms : q # r => TakenSeats(q)' = TakenSeats(q)
    BY <1>3 DEF TakenSeats
  <2>3. Cardinality(TakenSeats(r)') = Cardinality(TakenSeats(r)) - 1
    <3>1. IsFiniteSet(TakenSeats(r))
      BY <1>1, TakenFinite
    <3>2. Cardinality(TakenSeats(r) \ {s}) = Cardinality(TakenSeats(r)) - 1
      BY <2>1, <3>1, FS_RemoveElement
    <3> QED BY <2>1, <3>2
  <2>4. \A q \in Rooms :
          /\ player_count[q] = Cardinality(TakenSeats(q))
          /\ room_active[q] <=> player_count[q] > 0
          /\ player_count[q] \in Nat
    BY TakenFinite DEF SeatsRight, OccupancyExact
  <2>5. TakenSeats(r) # {}
    BY <2>1
  <2>6. player_count[r] # 0
    BY <1>1, <2>4, <2>5, TakenFinite, FS_EmptySet
  <2>7. /\ player_count'[r] = player_count[r] - 1
        /\ room_active'[r] = IF player_count[r] = 1 THEN FALSE ELSE room_active[r]
        /\ \A q \in Rooms \ {r} : /\ player_count'[q] = player_count[q]
                                  /\ room_active'[q] = room_active[q]
    BY <1>1, <1>4 DEF TypeOK, RoomsOK
  <2> SUFFICES ASSUME NEW q \in Rooms
               PROVE  /\ player_count'[q] = Cardinality(TakenSeats(q)')
                      /\ room_active'[q] <=> player_count'[q] > 0
    BY DEF OccupancyExact
  <2>8. CASE q = r
    <3>1. player_count[r] \in Nat /\ player_count[r] = Cardinality(TakenSeats(r))
      BY <1>1, <2>4
    <3>2. room_active[r] /\ (player_count'[r] > 0 <=> player_count[r] # 1)
      BY <1>1, <2>4, <2>6, <2>7, <3>1
    <3> QED BY <2>3, <2>7, <2>8, <3>1, <3>2
  <2>9. CASE q # r
    BY <2>2, <2>4, <2>7, <2>9
  <2> QED BY <2>8, <2>9
<1>8. WholeSeat'
  BY <1>2, <1>5 DEF SeatsRight, WholeSeat, TypeOK, ClientsOK
<1> QED BY <1>2, <1>6, <1>7, <1>8 DEF SeatsRight

\* A slot is taken into use or freed while it has no room.
LEMMA SlotChanged ==
    ASSUME TypeOK, SeatsRight,
           NEW c \in Clients, active[c] => room_id[c] = None,
           NEW b \in BOOLEAN, active' = [active EXCEPT ![c] = b],
           room_id' = [room_id EXCEPT ![c] = None],
           player_index' = [player_index EXCEPT ![c] = None],
           UNCHANGED <<player_ids, player_count, room_active>>
    PROVE  SeatsRight'
<1>1. SeatConsistency'
  <2> SUFFICES ASSUME NEW q \in Rooms, NEW k \in Slots, NEW d \in Clients
               PROVE  player_ids'[q][k] = d
                        <=> active'[d] /\ room_id'[d] = q /\ player_index'[d] = k
    BY DEF SeatConsistency
  <2>1. player_ids[q][k] = d <=> active[d] /\ room_id[d] = q /\ player_index[d] = k
    BY DEF SeatsRight, SeatConsistency
  <2>2. /\ active'[d] = IF d = c THEN b ELSE active[d]
        /\ room_id'[d] = IF d = c THEN None ELSE room_id[d]
        /\ player_index'[d] = IF d = c THEN None ELSE player_index[d]
    BY DEF TypeOK, ClientsOK
  <2>3. q # None
    BY SizesAssumption DEF Rooms, None
  <2> QED BY <2>1, <2>2, <2>3
<1>2. OccupancyExact'
  BY DEF SeatsRight, OccupancyExact, TakenSeats
<1>3. WholeSeat'
  BY DEF SeatsRight, WholeSeat, TypeOK, ClientsOK
<1> QED BY <1>1, <1>2, <1>3 DEF SeatsRight

\* A client without a room takes over the session of another slot, with its
\* seat if it has one.
LEMMA SeatHandedOver ==
    ASSUME TypeOK, SeatsRight,
           NEW c \in Clients, active[c], room_id[c] = None,
           NEW old \in Clients, active[old], old # c,
           active' = [active EXCEPT ![old] = FALSE],
           room_id' = [room_id EXCEPT ![c] = room_id[old], ![old] = None],
           player_index' = [player_index EXCEPT ![c] = player_index[old], ![old] = None],
           player_ids' = SeatTakenOver(c, old),
           UNCHANGED <<player_count, room_active>>
    PROVE  SeatsRight'
<1>1. \A d \in Clients :
        /\ active'[d] = IF d = old THEN FALSE ELSE active[d]
        /\ room_id'[d] = IF d = old THEN None
                        ELSE IF d = c THEN room_id[old] ELSE room_id[d]
        /\ player_index'[d] = IF d = old THEN None
                             ELSE IF d = c THEN player_index[old] ELSE player_index[d]
        /\ d # None
  <2> SUFFICES ASSUME NEW d \in Clients
               PROVE  /\ active'[d] = IF d = old THEN FALSE ELSE active[d]
                      /\ room_id'[d] = IF d = old THEN None
                                      ELSE IF d = c THEN room_id[old] ELSE room_id[d]
                      /\ player_index'[d] = IF d = old THEN None
                                           ELSE IF d = c THEN player_index[old]
                                           ELSE player_index[d]
                      /\ d # None
    OBVIOUS
  <2>1. active'[d] = IF d = old THEN FALSE ELSE active[d]
    BY DEF TypeOK, ClientsOK
  <2>2. room_id'[d] = IF d = old THEN None ELSE IF d = c THEN room_id[old] ELSE room_id[d]
    BY DEF TypeOK, ClientsOK
  <2>3. player_index'[d] = IF d = old THEN None
                           ELSE IF d = c THEN player_index[old] ELSE player_index[d]
    BY DEF TypeOK, ClientsOK
  <2>4. d # None
    BY SizesAssumption DEF Clients, None
  <2> QED BY <2>1, <2>2, <2>3, <2>4
<1>2. \A q \in Rooms, k \in Slots :
        player_ids'[q][k] = IF player_ids[q][k] = old THEN c ELSE player_ids[q][k]
  <2>1. CASE room_id[old] = None
    <3>1. \A q \in Rooms, k \in Slots : player_ids[q][k] # old
      BY <2>1, SizesAssumption DEF SeatsRight, SeatConsistency, Rooms, None
    <3> QED BY <2>1, <3>1 DEF SeatTakenOver
  <2>2. CASE room_id[old] # None
    <3>1. room_id[old] \in Rooms /\ player_index[old] \in Slots
      BY <2>2, OwnSeat DEF TypeOK, ClientsOK
    <3>2. \A q \in Rooms, k \in Slots :
            player_ids'[q][k] = IF q = room_id[old] /\ k = player_index[old]
                                THEN c ELSE player_ids[q][k]
      BY <2>2, <3>1 DEF SeatTakenOver, TypeOK, RoomsOK
    <3>3. \A q \in Rooms, k \in Slots :
            player_ids[q][k] = old <=> q = room_id[old] /\ k = player_index[old]
      BY DEF SeatsRight, SeatConsistency
    <3> QED BY <3>2, <3>3
  <2> QED BY <2>1, <2>2
<1>3. SeatConsistency'
  <2> SUFFICES ASSUME NEW q \in Rooms, NEW k \in Slots, NEW d \in Clients
               PROVE  player_ids'[q][k] = d
                        <=> active'[d] /\ room_id'[d] = q /\ player_index'[d] = k
    BY DEF SeatConsistency
  <2>1. \A e \in Clients :
          player_ids[q][k] = e <=> active[e] /\ room_id[e] = q /\ player_index[e] = k
    BY DEF SeatsRight, SeatConsistency
  <2>2. /\ q # None
        /\ player_ids[q][k] # c
        /\ player_ids'[q][k] = IF player_ids[q][k] = old THEN c ELSE player_ids[q][k]
    BY <1>2, <2>1, SizesAssumption DEF Rooms, None
  <2>3. CASE d = old
    <3>1. ~active'[d]
      BY <1>1, <2>3
    <3> QED BY <2>2, <2>3, <3>1
  <2>4. CASE d = c
    <3>1. /\ active'[d]
          /\ room_id'[d] = room_id[old]
          /\ player_index'[d] = player_index[old]
      BY <1>1, <2>4
    <3>2. player_ids[q][k] = old <=> room_id[old] = q /\ player_index[old] = k
      BY <2>1
    <3> QED BY <2>2, <2>4, <3>1, <3>2
  <2>5. CASE d # old /\ d # c
    <3>1. /\ active'[d] = active[d]
          /\ room_id'[d] = room_id[d]
          /\ player_index'[d] = player_index[d]
      BY <1>1, <2>5
    <3>2. player_ids'[q][k] = d <=> player_ids[q][k] = d
      BY <2>2, <2>5
    <3> QED BY <2>1, <3>1, <3>2
  <2> QED BY <2>3, <2>4, <2>5
<1>4. OccupancyExact'
  <2>1. c # None /\ old # None
    BY <1>1
  <2>2. \A q \in Rooms : TakenSeats(q)' = TakenSeats(q)
    BY <1>2, <2>1 DEF TakenSeats
  <2> QED BY <2>2 DEF SeatsRight, OccupancyExact
<1>5. WholeSeat'
  <2> SUFFICES ASSUME NEW d \in Clients, active'[d], room_id'[d] # None
               PROVE  player_index'[d] # None
    BY DEF WholeSeat
  <2>1. d # old
    BY <1>1
  <2>2. \A e \in Clients : active[e] /\ room_id[e] # None => player_index[e] # None
    BY DEF SeatsRight, WholeSeat
  <2>3. CASE d = c
    <3>1. room_id'[d] = room_id[old] /\ player_index'[d] = player_index[old]
      BY <1>1, <2>1, <2>3
    <3> QED BY <2>2, <3>1
  <2>4. CASE d # c
    <3>1. /\ active[d]
          /\ room_id'[d] = room_id[d]
          /\ player_index'[d] = player_index[d]
      BY <1>1, <2>1, <2>4
    <3> QED BY <2>2, <3>1
  <2> QED BY <2>3, <2>4
<1> QED BY <1>3, <1>4, <1>5 DEF SeatsRight

-----------------------------------------------------------------------------
(***************************************************************************)
(* The steps.                                                              *)
(***************************************************************************)

\* A client whose own fields are left alone is as right as before.
LEMMA RoomlessKept ==
    ASSUME Roomless, NEW d \in Clients,
           active'[d] => active[d],
           connected'[d] => connected[d],
           room_id'[d] = room_id[d] \/ room_id'[d] = None,
           state'[d] = state[d] \/ state'[d] \in ClientState \ (Outside \cup {"DISCONNECTED"}),
           saved_state'[d] = saved_state[d],
           disconnect_age'[d] = disconnect_age[d]
    PROVE  RoomlessAt(d)'
  BY DEF Roomless, RoomlessAt, Resumable

\* Connections come, are lost and are answered.
LEMMA ConnectionSeats ==
    ASSUME SeatInv, NEW c \in Clients,
           \/ client_accept
           \/ ConnectionLost(c)
           \/ AliasedRead(c)
           \/ handle_pong(c)
    PROVE  SeatsRight' /\ Roomless'
<1>1. CASE client_accept
  <2> DEFINE k == Least({i \in Clients : ~active[i]})
  <2>1. k \in Clients /\ ~active[k]
    BY <1>1, LeastClient DEF client_accept
  <2>2. /\ active' = [active EXCEPT ![k] = TRUE]
        /\ connected' = [connected EXCEPT ![k] = TRUE]
        /\ state' = [state EXCEPT ![k] = "CONNECTED"]
        /\ saved_state' = [saved_state EXCEPT ![k] = "CONNECTED"]
        /\ room_id' = [room_id EXCEPT ![k] = None]
        /\ player_index' = [player_index EXCEPT ![k] = None]
        /\ disconnect_age' = [disconnect_age EXCEPT ![k] = RECONNECT_TIMEOUT]
        /\ UNCHANGED <<player_ids, player_count, room_active>>
    BY <1>1 DEF client_accept, BlankSlot, roomVars
  <2>3. k \in Clients /\ ~active[k]
    BY <2>1
  <2> HIDE DEF k
  <2>4. SeatsRight'
    BY <2>2, <2>3, SlotChanged DEF SeatInv
  <2>5. Roomless'
    <3> SUFFICES ASSUME NEW d \in Clients
                 PROVE  RoomlessAt(d)'
      BY DEF Roomless
    <3>1. CASE d = k
      BY <2>2, <2>3, <3>1 DEF RoomlessAt, Resumable, SeatInv, TypeOK, ClientsOK
    <3>2. CASE d # k
      BY <2>2, <2>3, <3>2, RoomlessKept DEF SeatInv, TypeOK, ClientsOK
    <3> QED BY <3>1, <3>2
  <2> QED BY <2>4, <2>5
<1>2. CASE ConnectionLost(c) \/ AliasedRead(c)
  <2>1. client_mark_disconnected(c) /\ active[c]
    BY <1>2 DEF ConnectionLost, AliasedRead, Serving
  <2>2. SeatsRight'
    BY <2>1, SeatsKept DEF client_mark_disconnected, roomVars, seatVars, SeatInv
  <2>3. Roomless'
    <3> SUFFICES ASSUME NEW d \in Clients
                 PROVE  RoomlessAt(d)'
      BY DEF Roomless
    <3>1. CASE d = c
      <4>1. state'[c] = "DISCONNECTED" /\ saved_state'[c] = state[c] /\ ~connected'[c]
        BY <2>1 DEF client_mark_disconnected, SeatInv, TypeOK, ClientsOK
      <4>2. room_id'[c] = room_id[c] /\ (state[c] \in Outside => room_id[c] = None)
        BY <2>1 DEF client_mark_disconnected, SeatInv, Roomless, RoomlessAt
      <4> QED BY <3>1, <4>1, <4>2 DEF RoomlessAt, Outside
    <3>2. CASE d # c
      BY <2>1, <3>2, RoomlessKept DEF client_mark_disconnected, SeatInv, TypeOK, ClientsOK
    <3> QED BY <3>1, <3>2
  <2> QED BY <2>2, <2>3
<1>3. CASE handle_pong(c)
  <2>1. SeatsRight'
    BY <1>3, SeatsKept DEF handle_pong, roomVars, seatVars, SeatInv
  <2>2. Roomless'
    BY <1>3 DEF handle_pong, SeatInv, Roomless, RoomlessAt, Resumable
  <2> QED BY <2>1, <2>2
<1> QED BY <1>1, <1>2, <1>3

\* Both outcomes of LOGIN.  This is where AtTheDoor is needed: a client that
\* already has a room would leave its seat behind.
LEMMA LoginSeats ==
    ASSUME SeatInv, AtTheDoor, NEW c \in Clients, SendsLogin(c), NEW u \in Users,
           handle_login(c, u)
    PROVE  SeatsRight' /\ Roomless'
<1>1. active[c] /\ connected[c] /\ state[c] \in Outside /\ room_id[c] = None
  BY DEF handle_login, login_fresh, login_resume, SendsLogin, Serving, AtTheDoor,
         SeatInv, Roomless, RoomlessAt
<1>2. disconnect_age[c] = RECONNECT_TIMEOUT
  BY <1>1 DEF SeatInv, Roomless, RoomlessAt
<1>3. CASE login_fresh(c, u)
  <2>1. SeatsRight'
    BY <1>3, SeatsKept DEF login_fresh, roomVars, seatVars, SeatInv
  <2>2. Roomless'
    <3> SUFFICES ASSUME NEW d \in Clients PROVE RoomlessAt(d)'
      BY DEF Roomless
    <3>1. CASE d = c
      BY <1>1, <1>2, <1>3, <3>1
      DEF login_fresh, RoomlessAt, Resumable, SeatInv, TypeOK, ClientsOK
    <3>2. CASE d # c
      BY <1>3, <3>2, RoomlessKept DEF login_fresh, SeatInv, TypeOK, ClientsOK
    <3> QED BY <3>1, <3>2
  <2> QED BY <2>1, <2>2
<1>4. CASE login_resume(c, u)
  <2> DEFINE old == Least(ScanStops(c, u))
  <2>1. old \in ScanStops(c, u) /\ Resumable(old)
    BY <1>4, LeastClient DEF login_resume, ScanStops
  <2>2. old \in Clients /\ active[old] /\ old # c
    BY <2>1 DEF ScanStops
  <2>3. /\ state' = [state EXCEPT ![c] = saved_state[old], ![old] = "CONNECTED"]
        /\ room_id' = [room_id EXCEPT ![c] = room_id[old], ![old] = None]
        /\ player_index' =
             [player_index EXCEPT ![c] = player_index[old], ![old] = None]
        /\ player_ids' = SeatTakenOver(c, old)
        /\ active' = [active EXCEPT ![old] = FALSE]
        /\ connected' = [connected EXCEPT ![old] = FALSE]
        /\ saved_state' = [saved_state EXCEPT ![old] = "CONNECTED"]
        /\ disconnect_age' = [disconnect_age EXCEPT ![old] = RECONNECT_TIMEOUT]
        /\ UNCHANGED <<player_count, room_active>>
    BY <1>4 DEF login_resume
  <2> HIDE DEF old
  <2>4. SeatsRight'
    BY <1>1, <2>2, <2>3, SeatHandedOver DEF SeatInv
  <2>5. saved_state[old] \in Outside => room_id[old] = None
    BY <2>1, <2>2 DEF SeatInv, Roomless, RoomlessAt
  <2>6. Roomless'
    <3> SUFFICES ASSUME NEW d \in Clients PROVE RoomlessAt(d)'
      BY DEF Roomless
    <3>1. CASE d = old
      BY <2>2, <2>3, <3>1 DEF RoomlessAt, SeatInv, TypeOK, ClientsOK
    <3>2. CASE d = c
      <4>1. /\ state'[c] = saved_state[old]
            /\ room_id'[c] = room_id[old]
            /\ disconnect_age'[c] = RECONNECT_TIMEOUT
        BY <1>2, <2>2, <2>3 DEF SeatInv, TypeOK, ClientsOK
      <4>2. ~ Resumable(c)'
        BY <4>1, TimesAssumption DEF Resumable
      <4> QED BY <2>5, <3>2, <4>1, <4>2 DEF RoomlessAt
    <3>3. CASE d # old /\ d # c
      BY <2>2, <2>3, <3>3, RoomlessKept DEF SeatInv, TypeOK, ClientsOK
    <3> QED BY <3>1, <3>2, <3>3
  <2> QED BY <2>4, <2>6
<1> QED BY <1>3, <1>4 DEF handle_login

\* Entering and leaving a room.
LEMMA MembershipSeats ==
    ASSUME SeatInv, NEW c \in Clients,
           \/ handle_create_room(c)
           \/ \E r \in Rooms : handle_join_room(c, r)
           \/ handle_leave_room(c)
    PROVE  SeatsRight' /\ Roomless'
<1>1. CASE handle_create_room(c)
  <2> DEFINE r == Least({q \in Rooms : ~room_active[q]})
  <2>1. r \in Rooms /\ ~room_active[r]
    <3> DEFINE Unused == {q \in Rooms : ~room_active[q]}
    <3>1. Unused \in SUBSET Rooms /\ Unused # {}
      BY <1>1 DEF handle_create_room
    <3>2. Least(Unused) \in Unused
      BY <3>1, LeastRoom
    <3> QED BY <3>2
  <2>2. active[c] /\ room_id[c] = None
    BY <1>1 DEF handle_create_room, Serving, SeatInv, Roomless, RoomlessAt, Outside
  <2>3. /\ room_active' = [room_active EXCEPT ![r] = TRUE]
        /\ player_ids' = [player_ids EXCEPT ![r] =
                            [s \in Slots |-> IF s = 0 THEN c ELSE None]]
        /\ player_count' = [player_count EXCEPT ![r] = 1]
        /\ room_id' = [room_id EXCEPT ![c] = r]
        /\ player_index' = [player_index EXCEPT ![c] = 0]
        /\ state' = [state EXCEPT ![c] = "IN_ROOM"]
        /\ UNCHANGED <<active, connected, saved_state, disconnect_age>>
    BY <1>1 DEF handle_create_room, unchangedByRooms
  <2> HIDE DEF r
  <2>4. player_count[r] = 0 /\ TakenSeats(r) = {}
    BY <2>1, UnusedIsEmpty DEF SeatInv, SeatsRight
  <2>5. 0 \in FreeSeats(r)
    BY <2>4, SizesAssumption DEF TakenSeats, FreeSeats, Slots
  <2>6. player_count' = [player_count EXCEPT ![r] = @ + 1]
    BY <2>3, <2>4
  <2>7. player_ids' = [player_ids EXCEPT ![r] = [@ EXCEPT ![0] = c]]
    <3>1. player_ids[r] \in [Slots -> Clients \cup {None}]
      BY <2>1 DEF SeatInv, TypeOK, RoomsOK
    <3>2. [s \in Slots |-> IF s = 0 THEN c ELSE None] = [player_ids[r] EXCEPT ![0] = c]
      BY <2>4, <3>1 DEF TakenSeats
    <3> QED BY <2>3, <3>2
  <2>8. SeatsRight'
    BY <2>1, <2>2, <2>3, <2>5, <2>6, <2>7, SeatTaken DEF SeatInv
  <2>9. Roomless'
    <3> SUFFICES ASSUME NEW d \in Clients PROVE RoomlessAt(d)'
      BY DEF Roomless
    <3>1. CASE d = c
      BY <2>3, <3>1 DEF RoomlessAt, Resumable, Outside, SeatInv, TypeOK, ClientsOK,
                        Roomless
    <3>2. CASE d # c
      BY <2>3, <3>2, RoomlessKept DEF SeatInv, TypeOK, ClientsOK
    <3> QED BY <3>1, <3>2
  <2> QED BY <2>8, <2>9
<1>2. ASSUME NEW r \in Rooms, handle_join_room(c, r) PROVE SeatsRight' /\ Roomless'
  <2> DEFINE s == Least(FreeSeats(r))
  <2>1. s \in FreeSeats(r)
    BY <1>2, LeastSlot DEF handle_join_room, room_join, CanJoin, FreeSeats
  <2>2. active[c] /\ room_id[c] = None
    BY <1>2 DEF handle_join_room, Serving, SeatInv, Roomless, RoomlessAt, Outside
  <2>3. /\ room_active[r]
        /\ player_ids' = [player_ids EXCEPT ![r][s] = c]
        /\ player_count' = [player_count EXCEPT ![r] = @ + 1]
        /\ room_id' = [room_id EXCEPT ![c] = r]
        /\ player_index' = [player_index EXCEPT ![c] = s]
        /\ state' = [state EXCEPT ![c] = "IN_ROOM"]
        /\ UNCHANGED <<active, connected, saved_state, disconnect_age, room_active>>
    BY <1>2 DEF handle_join_room, room_join, CanJoin, unchangedByRooms
  <2> HIDE DEF s
  <2>4. room_active' = [room_active EXCEPT ![r] = TRUE]
    BY <2>3 DEF SeatInv, TypeOK, RoomsOK
  <2>5. SeatsRight'
    BY <2>1, <2>2, <2>3, <2>4, SeatTaken DEF SeatInv
  <2>6. Roomless'
    <3> SUFFICES ASSUME NEW d \in Clients PROVE RoomlessAt(d)'
      BY DEF Roomless
    <3>1. CASE d = c
      BY <2>3, <3>1 DEF RoomlessAt, Resumable, Outside, SeatInv, TypeOK, ClientsOK,
                        Roomless
    <3>2. CASE d # c
      BY <2>3, <3>2, RoomlessKept DEF SeatInv, TypeOK, ClientsOK
    <3> QED BY <3>1, <3>2
  <2> QED BY <2>5, <2>6
<1>3. CASE handle_leave_room(c)
  <2>1. PICK r, s : r = room_id[c] /\ s = player_index[c]
    OBVIOUS
  <2>2. /\ active[c] /\ connected[c] /\ r # None
        /\ RemovePlayer(r, c, "IN_LOBBY", NextHost(r, c))
        /\ UNCHANGED unchangedByRooms
    BY <1>3, <2>1 DEF handle_leave_room, Serving
  <2>3. /\ SeatsRight'
        /\ room_id' = [room_id EXCEPT ![c] = None]
        /\ state' = [state EXCEPT ![c] = "IN_LOBBY"]
    BY <2>1, <2>2, SeatLeft DEF SeatInv, unchangedByRooms
  <2>4. Roomless'
    <3> SUFFICES ASSUME NEW d \in Clients PROVE RoomlessAt(d)'
      BY DEF Roomless
    <3>1. CASE d = c
      BY <2>2, <2>3, <3>1 DEF unchangedByRooms, RoomlessAt, SeatInv, TypeOK, ClientsOK,
                              Roomless
    <3>2. CASE d # c
      BY <2>2, <2>3, <3>2, RoomlessKept DEF unchangedByRooms, SeatInv, TypeOK, ClientsOK
    <3> QED BY <3>1, <3>2
  <2> QED BY <2>3, <2>4
<1> QED BY <1>1, <1>2, <1>3

\* Steps that change no seat and only send clients into a state of a room or
\* a game: readiness, starts, answers, votes and the end of a game.
LEMMA PlaySeats ==
    ASSUME SeatInv, UNCHANGED seatVars,
           UNCHANGED <<connected, saved_state>>,
           \A d \in Clients :
              state'[d] = state[d] \/ state'[d] \in {"IN_ROOM", "READY", "IN_GAME"},
           UNCHANGED disconnect_age
    PROVE  SeatsRight' /\ Roomless'
<1>1. SeatsRight'
  BY SeatsKept DEF SeatInv
<1>2. {"IN_ROOM", "READY", "IN_GAME"} \subseteq ClientState \ (Outside \cup {"DISCONNECTED"})
  BY DEF ClientState, Outside
<1>3. Roomless'
  <2> SUFFICES ASSUME NEW d \in Clients PROVE RoomlessAt(d)'
    BY DEF Roomless
  <2> QED BY <1>2, RoomlessKept DEF SeatInv, seatVars
<1> QED BY <1>1, <1>3

\* Which states the steps of a game assign.
LEMMA GameStates ==
    ASSUME TypeOK, NEW d \in Clients
    PROVE  /\ \A r, k, st : room_start_game(r, k, st)
                => state'[d] = st[d] \/ state'[d] = "IN_GAME"
           /\ \A R : GamesOver(R) => state'[d] = state[d] \/ state'[d] = "IN_ROOM"
           /\ \A r, won : room_end_game(r, won)
                => state'[d] = state[d] \/ state'[d] = "IN_ROOM"
<1>1. \A R : GamesOver(R) => state'[d] = state[d] \/ state'[d] = "IN_ROOM"
  BY DEF GamesOver
<1>2. \A r : RoundWon(r) => state'[d] = state[d]
  BY DEF RoundWon
<1>3. \A r, k, st : room_start_game(r, k, st)
                => state'[d] = st[d] \/ state'[d] = "IN_GAME"
  BY DEF room_start_game
<1> QED BY <1>1, <1>2, <1>3 DEF room_end_game

\* Readiness, starts, answers and votes.
LEMMA PlayingSeats ==
    ASSUME SeatInv, NEW c \in Clients,
           \/ handle_ready(c)
           \/ handle_start_game(c)
           \/ \E cell \in Cells : handle_submit(c, cell)
           \/ handle_ready_next_round(c)
    PROVE  SeatsRight' /\ Roomless'
<1>1. UNCHANGED <<seatVars, connected, saved_state, disconnect_age>>
  BY DEF handle_ready, handle_start_game, handle_submit, handle_ready_next_round,
         unchangedByRooms, roomVars, seatVars
<1>2. ASSUME NEW d \in Clients
      PROVE  state'[d] = state[d] \/ state'[d] \in {"IN_ROOM", "READY", "IN_GAME"}
  <2>1. CASE handle_ready(c)
    <3> DEFINE r     == room_id[c]
               flags == [player_ready[r] EXCEPT ![player_index[c]] = ~@]
               st    == [state EXCEPT ![c] =
                           IF flags[player_index[c]] THEN "READY" ELSE "IN_ROOM"]
    <3>1. room_start_game(r, current_round[r], st) \/ state' = st
      BY <2>1 DEF handle_ready
    <3>2. st[d] = state[d] \/ st[d] \in {"IN_ROOM", "READY"}
      BY DEF SeatInv, TypeOK, ClientsOK
    <3> HIDE DEF r, st
    <3> QED BY <3>1, <3>2, GameStates DEF SeatInv
  <2>2. CASE handle_start_game(c)
    BY <2>2, GameStates DEF handle_start_game, SeatInv
  <2>3. ASSUME NEW cell \in Cells, handle_submit(c, cell)
        PROVE  state'[d] = state[d] \/ state'[d] = "IN_ROOM"
    BY <2>3, GameStates DEF handle_submit, progressVars, SeatInv
  <2>4. CASE handle_ready_next_round(c)
    BY <2>4, GameStates DEF handle_ready_next_round, SeatInv
  <2> QED BY <2>1, <2>2, <2>3, <2>4
<1> QED BY <1>1, <1>2, PlaySeats

\* The removal of a session, by silence or by expiry.
LEMMA DisconnectSeats ==
    ASSUME SeatInv, NEW c \in Clients, active[c], client_disconnect(c)
    PROVE  SeatsRight' /\ Roomless'
<1>1. /\ active' = [active EXCEPT ![c] = FALSE]
      /\ connected' = [connected EXCEPT ![c] = FALSE]
      /\ saved_state' = [saved_state EXCEPT ![c] = "CONNECTED"]
      /\ disconnect_age' = [disconnect_age EXCEPT ![c] = RECONNECT_TIMEOUT]
  BY DEF client_disconnect, BlankSlot
<1>2. /\ SeatsRight'
      /\ room_id' = [room_id EXCEPT ![c] = None]
      /\ state' = [state EXCEPT ![c] = "CONNECTED"]
  <2>1. PICK r, s : r = room_id[c] /\ s = player_index[c]
    OBVIOUS
  <2>2. CASE r # None
    <3>1. RemovePlayer(r, c, "CONNECTED", host_index[r])
      BY <2>1, <2>2 DEF client_disconnect
    <3> QED BY <1>1, <2>1, <2>2, <3>1, SeatLeft DEF SeatInv
  <2>3. CASE r = None
    <3>1. /\ state' = [state EXCEPT ![c] = "CONNECTED"]
          /\ player_index' = [player_index EXCEPT ![c] = None]
          /\ UNCHANGED <<room_id, player_ids, player_count, room_active>>
      BY <2>1, <2>3 DEF client_disconnect, roomVars
    <3>2. room_id' = [room_id EXCEPT ![c] = None]
      BY <2>1, <2>3, <3>1 DEF SeatInv, TypeOK, ClientsOK
    <3> QED BY <1>1, <2>1, <2>3, <3>1, <3>2, SlotChanged DEF SeatInv
  <2> QED BY <2>2, <2>3
<1>3. Roomless'
  <2> SUFFICES ASSUME NEW d \in Clients PROVE RoomlessAt(d)'
    BY DEF Roomless
  <2>1. CASE d = c
    BY <1>1, <2>1 DEF RoomlessAt, SeatInv, TypeOK, ClientsOK
  <2>2. CASE d # c
    BY <1>1, <1>2, <2>2, RoomlessKept DEF SeatInv, TypeOK, ClientsOK
  <2> QED BY <2>1, <2>2
<1> QED BY <1>2, <1>3

\* The clock and the periodic pass.
LEMMA PeriodicSeats == ASSUME SeatInv, Periodic PROVE SeatsRight' /\ Roomless'
<1>1. CASE Clock
  <2>1. SeatsRight'
    BY <1>1, SeatsKept DEF Clock, roomVars, seatVars, SeatInv
  <2>2. Roomless'
    <3> SUFFICES ASSUME NEW d \in Clients PROVE RoomlessAt(d)'
      BY DEF Roomless
    <3>1. /\ UNCHANGED <<active, connected, state, saved_state, room_id>>
          /\ disconnect_age[d] \in 0 .. RECONNECT_TIMEOUT
          /\ disconnect_age'[d] = IF state[d] = "DISCONNECTED"
                THEN Capped(disconnect_age[d] + 1, RECONNECT_TIMEOUT)
                ELSE disconnect_age[d]
      BY <1>1 DEF Clock, SeatInv, TypeOK, ClientsOK
    <3>2. /\ disconnect_age'[d] >= disconnect_age[d]
          /\ disconnect_age[d] = RECONNECT_TIMEOUT
               => disconnect_age'[d] = RECONNECT_TIMEOUT
          /\ disconnect_age'[d] \in Int
      BY <3>1, TimesAssumption DEF Capped
    <3>3. Resumable(d)' => Resumable(d)
      BY <3>1, <3>2, TimesAssumption DEF Resumable
    <3> QED BY <3>1, <3>2, <3>3 DEF SeatInv, Roomless, RoomlessAt
  <2> QED BY <2>1, <2>2
<1>2. CASE Tick
  <2>1. UNCHANGED <<seatVars, connected, saved_state, disconnect_age>>
    BY <1>2 DEF Tick, seatVars
  <2>2. \A d \in Clients : state'[d] = state[d] \/ state'[d] = "IN_ROOM"
    BY <1>2, GameStates DEF Tick, SeatInv
  <2> QED BY <2>1, <2>2, PlaySeats
<1>3. CASE check_ping_timeouts
  <2>1. Silent \in SUBSET Clients /\ Silent # {}
    BY <1>3 DEF check_ping_timeouts, Silent
  <2>2. Least(Silent) \in Silent
    BY <2>1, LeastClient
  <2>3. Least(Silent) \in Clients /\ active[Least(Silent)]
    BY <2>2 DEF Silent
  <2> QED BY <1>3, <2>3, DisconnectSeats DEF check_ping_timeouts
<1>4. CASE check_reconnect_timeouts
  <2>1. Expired \in SUBSET Clients /\ Expired # {}
    BY <1>4 DEF check_reconnect_timeouts, Expired
  <2>2. Least(Expired) \in Expired
    BY <2>1, LeastClient
  <2>3. Least(Expired) \in Clients /\ active[Least(Expired)]
    BY <2>2 DEF Expired
  <2> QED BY <1>4, <2>3, DisconnectSeats DEF check_reconnect_timeouts
<1>5. CASE SweepDone
  <2>1. SeatsRight'
    BY <1>5, SeatsKept DEF SweepDone, clientVars, roomVars, seatVars, SeatInv
  <2>2. Roomless'
    BY <1>5 DEF SweepDone, clientVars, SeatInv, Roomless, RoomlessAt, Resumable
  <2> QED BY <2>1, <2>2
<1> QED BY <1>1, <1>2, <1>3, <1>4, <1>5 DEF Periodic, Sweep

\* No client, no room, no seat taken.
LEMMA InitSeats == ASSUME Init PROVE SeatInv
<1>1. SeatConsistency /\ WholeSeat /\ Roomless
  BY SizesAssumption
  DEF Init, SeatConsistency, WholeSeat, Roomless, RoomlessAt, Clients, None
<1>2. OccupancyExact
  <2>1. \A r \in Rooms : TakenSeats(r) = {} /\ player_count[r] = 0 /\ ~room_active[r]
    BY DEF Init, TakenSeats
  <2> QED BY <2>1, FS_EmptySet DEF OccupancyExact
<1> QED BY <1>1, <1>2, InitTypes DEF SeatInv, SeatsRight

\* The invariant is inductive.
LEMMA NextSeats == ASSUME AtTheDoor, SeatInv, [Next]_vars PROVE SeatInv'
<1>1. TypeOK'
  BY NextTypes DEF SeatInv
<1>2. CASE UNCHANGED vars
  <2>1. SeatsRight'
    BY <1>2, SeatsKept DEF vars, clientVars, roomVars, seatVars, SeatInv
  <2>2. Roomless'
    BY <1>2 DEF vars, clientVars, SeatInv, Roomless, RoomlessAt, Resumable
  <2> QED BY <1>1, <2>1, <2>2 DEF SeatInv
<1>3. CASE client_accept
  <2>1. 0 \in Clients
    BY SizesAssumption DEF Clients
  <2> QED BY <1>1, <1>3, <2>1, ConnectionSeats DEF SeatInv
<1>4. ASSUME NEW c \in Clients, ConnectionLost(c) \/ AliasedRead(c) PROVE SeatInv'
  BY <1>1, <1>4, ConnectionSeats DEF SeatInv
<1>5. ASSUME NEW c \in Clients, handle_message(c) PROVE SeatInv'
  <2>1. SeatsRight' /\ Roomless'
    BY <1>5, ConnectionSeats, LoginSeats, MembershipSeats, PlayingSeats
    DEF handle_message
  <2> QED BY <1>1, <2>1 DEF SeatInv
<1>6. CASE Periodic
  BY <1>1, <1>6, PeriodicSeats DEF SeatInv
<1> QED BY <1>2, <1>3, <1>4, <1>5, <1>6 DEF Next

-----------------------------------------------------------------------------
(***************************************************************************)
(* Theorems.                                                               *)
(***************************************************************************)

\* The inductive invariant holds in every reachable state.
THEOREM SeatInvariant == ASSUME AtTheDoor PROVE Spec => []SeatInv
<1>1. Init => SeatInv
  BY InitSeats
<1>2. SeatInv /\ [Next]_vars => SeatInv'
  BY NextSeats
<1> QED BY <1>1, <1>2, PTL DEF Spec

\* player_ids and the clients' room_id and player_index never disagree, through
\* joins, departures, room cleanup, removals and reconnections.
THEOREM SeatsConsistent == ASSUME AtTheDoor PROVE Spec => []SeatConsistency
<1>1. SeatInv => SeatConsistency
  BY DEF SeatInv, SeatsRight
<1> QED BY <1>1, SeatInvariant, PTL

\* player_count never drifts from the seats that are taken, and a room is in
\* use exactly while it has an occupant.
THEOREM CountsExact == ASSUME AtTheDoor PROVE Spec => []OccupancyExact
<1>1. SeatInv => OccupancyExact
  BY DEF SeatInv, SeatsRight
<1> QED BY <1>1, SeatInvariant, PTL

\* A chat line never reaches a client of another room, nor misses one of its own.
THEOREM ChatContained == ASSUME AtTheDoor PROVE Spec => []ChatStaysInRoom
<1>1. SeatInv => ChatStaysInRoom
  <2> SUFFICES ASSUME SeatInv, NEW c \in Clients, NEW k \in Clients,
                      Reaches(c), room_id[c] # None
               PROVE  k \in ChatAudience(c) <=> Reaches(k) /\ room_id[k] = room_id[c]
    BY DEF ChatStaysInRoom
  <2>1. room_id[c] \in Rooms
    BY DEF SeatInv, TypeOK, ClientsOK
  <2>2. active[k] => (k \in Seated(room_id[c]) <=> room_id[k] = room_id[c])
    <3>1. ASSUME active[k], room_id[k] = room_id[c] PROVE k \in Seated(room_id[c])
      BY <3>1, OwnSeat DEF SeatInv, Seated
    <3>2. ASSUME active[k], k \in Seated(room_id[c]) PROVE room_id[k] = room_id[c]
      BY <2>1, <3>2 DEF SeatInv, SeatsRight, SeatConsistency, Seated, SeatsOf
    <3> QED BY <3>1, <3>2
  <2> QED BY <2>2 DEF ChatAudience, Reaches
<1> QED BY <1>1, SeatInvariant, PTL
=============================================================================
