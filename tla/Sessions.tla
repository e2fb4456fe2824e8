------------------------------ MODULE Sessions ------------------------------
(***************************************************************************)
(* Connections and logged-in sessions: accept, loss and removal of a       *)
(* client slot (src/server/server.c), LOGIN with its reconnection          *)
(* (src/server/auth.c) and PONG (src/server/network.c).                    *)
(*                                                                         *)
(* A slot that is not active is read by nothing until client_accept zeroes *)
(* it, so the fields it leaves behind are blanked when it is freed.        *)
(***************************************************************************)
EXTENDS RoomTable

\* Fields of slot c after memset; disconnect_time 0 is long before any window.
BlankSlot(c) ==
    /\ username' = [username EXCEPT ![c] = NoUser]
    /\ saved_state' = [saved_state EXCEPT ![c] = "CONNECTED"]
    /\ pong_age' = [pong_age EXCEPT ![c] = 0]
    /\ disconnect_age' = [disconnect_age EXCEPT ![c] = RECONNECT_TIMEOUT]

\* A new connection takes the first free slot; without one it is closed.
client_accept ==
    /\ phase = "serve"
    /\ \E c \in Clients : ~active[c]
    /\ LET c == Least({k \in Clients : ~active[k]})
       IN  /\ active' = [active EXCEPT ![c] = TRUE]
           /\ connected' = [connected EXCEPT ![c] = TRUE]
           /\ state' = [state EXCEPT ![c] = "CONNECTED"]
           /\ room_id' = [room_id EXCEPT ![c] = None]
           /\ player_index' = [player_index EXCEPT ![c] = None]
           /\ BlankSlot(c)
    /\ UNCHANGED <<roomVars, gameVars, loopVars>>

\* The connection is lost: the session, its room and its seat are kept.
client_mark_disconnected(c) ==
    /\ saved_state' = [saved_state EXCEPT ![c] = state[c]]
    /\ state' = [state EXCEPT ![c] = "DISCONNECTED"]
    /\ disconnect_age' = [disconnect_age EXCEPT ![c] = 0]
    /\ connected' = [connected EXCEPT ![c] = FALSE]
    /\ UNCHANGED <<active, username, room_id, player_index, pong_age,
                   roomVars, gameVars, loopVars>>

\* recv returns 0 or an error: the peer closed or reset the connection.
ConnectionLost(c) ==
    /\ Serving(c)
    /\ client_mark_disconnected(c)

\* server_run tests FD_ISSET(socket_fd) for every active slot, -1 included:
\* undefined, and in a build where bit -1 aliases a live descriptor the slot
\* is "read" once more, recv(-1) fails and the loss is recorded again.
AliasedRead(c) ==
    /\ FdAlias
    /\ phase = "serve"
    /\ active[c]
    /\ ~connected[c]
    /\ client_mark_disconnected(c)

\* A session ends for good: seat and slot are freed, the host is not replaced.
client_disconnect(c) ==
    /\ active' = [active EXCEPT ![c] = FALSE]
    /\ connected' = [connected EXCEPT ![c] = FALSE]
    /\ BlankSlot(c)
    /\ IF room_id[c] # None
       THEN RemovePlayer(room_id[c], c, "CONNECTED", host_index[room_id[c]])
       ELSE /\ state' = [state EXCEPT ![c] = "CONNECTED"]
            /\ player_index' = [player_index EXCEPT ![c] = None]
            /\ UNCHANGED <<room_id, roomVars, gameVars>>

-----------------------------------------------------------------------------
\* Changed copy of Resumable: a live session is taken over as well.
ResumableLive(k) == active[k]

\* LOGIN scans the other slots in order and stops at the first one that holds
\* the user's session: a lost session inside its window is resumed, a live one
\* refuses the login; a lost session past its window is passed over.
Resumable(k) == state[k] = "DISCONNECTED" /\ disconnect_age[k] < RECONNECT_TIMEOUT

\* Changed copy of ScanStops: lost sessions are passed over.
ScanStopsLive(c, u) ==
    {k \in Clients \ {c} : /\ active[k]
                           /\ username[k] = u
                           /\ state[k] # "DISCONNECTED"}

ScanStops(c, u) ==
    {k \in Clients \ {c} : /\ active[k]
                           /\ username[k] = u
                           /\ state[k] # "DISCONNECTED" \/ Resumable(k)}

\* LOGIN without a session to resume.  A client with a seat keeps it.
login_fresh(c, u) ==
    /\ Serving(c)
    /\ ScanStops(c, u) = {}
    /\ username' = [username EXCEPT ![c] = u]
    /\ state' = [state EXCEPT ![c] = "IN_LOBBY"]
    /\ UNCHANGED <<active, connected, saved_state, room_id, player_index,
                   pong_age, disconnect_age, roomVars, gameVars, loopVars>>

\* Changed copy of SeatTakenOver: the seat still points to the old slot.
SeatLeftBehind(c, old) == player_ids

\* The seats after client c has taken over the seat of slot old, if it has one.
SeatTakenOver(c, old) ==
    IF room_id[old] = None THEN player_ids
    ELSE [player_ids EXCEPT ![room_id[old]][player_index[old]] = c]

\* LOGIN that resumes a lost session: its state, room and seat move to the new
\* slot and the old slot is freed.
login_resume(c, u) ==
    /\ Serving(c)
    /\ ScanStops(c, u) # {}
    /\ LET old == Least(ScanStops(c, u))
       IN  /\ Resumable(old)
           /\ username' = [username EXCEPT ![c] = u, ![old] = NoUser]
           /\ state' = [state EXCEPT ![c] = saved_state[old], ![old] = "CONNECTED"]
           /\ room_id' = [room_id EXCEPT ![c] = room_id[old], ![old] = None]
           /\ player_index' =
                [player_index EXCEPT ![c] = player_index[old], ![old] = None]
           /\ player_ids' = SeatTakenOver(c, old)
           /\ active' = [active EXCEPT ![old] = FALSE]
           /\ connected' = [connected EXCEPT ![old] = FALSE]
           /\ saved_state' = [saved_state EXCEPT ![old] = "CONNECTED"]
           /\ pong_age' = [pong_age EXCEPT ![old] = 0]
           /\ disconnect_age' = [disconnect_age EXCEPT ![old] = RECONNECT_TIMEOUT]
    /\ UNCHANGED <<room_active, player_ready, player_count, host_index,
                   gameVars, loopVars>>

handle_login(c, u) == login_fresh(c, u) \/ login_resume(c, u)

\* PONG, sent in answer to PING or at any other time.
handle_pong(c) ==
    /\ Serving(c)
    /\ pong_age' = [pong_age EXCEPT ![c] = 0]
    /\ UNCHANGED <<active, connected, username, state, saved_state, room_id,
                   player_index, disconnect_age, roomVars, gameVars, loopVars>>
=============================================================================
