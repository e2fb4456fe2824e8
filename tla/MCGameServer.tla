---------------------------- MODULE MCGameServer ----------------------------
(* A small server for TLC: the constants of each run are in its .cfg. *)
EXTENDS Refinement, TLC

CONSTANTS u1, u2, here, there

MCUsers == {u1, u2}
OneUser == {u1}
MCCells == {here}
MCTwoCells == {here, there}
Anywhere == {"CONNECTED", "IN_LOBBY", "IN_ROOM", "READY", "IN_GAME"}
FirstScreen == {"CONNECTED"}
LoginScreen == {"CONNECTED", "IN_LOBBY"}
UserSymmetry == Permutations(MCUsers)

\* Bound of MCLiveness, where LOGIN comes from every state: at a seat only u1
\* sends it, with its own name, and takes no second seat from the lobby.
SeatAndName ==
    \A c \in Clients : active[c] /\ room_id[c] # None =>
        /\ active'[c] => username'[c] = username[c]
        /\ room_id'[c] # None /\ state'[c] = "IN_LOBBY" => username[c] = u1
        /\ \A r \in Rooms, s \in Slots :
             player_ids[r][s] # c => player_ids'[r][s] # c

StrayingSpec == Init /\ [][Next /\ SeatAndName]_vars /\ Fairness
=============================================================================
