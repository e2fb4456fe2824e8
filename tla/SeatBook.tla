------------------------------ MODULE SeatBook ------------------------------
(***************************************************************************)
(* What the server promises its users about places, told without slots,    *)
(* sockets or tables: a user is out, in the lobby or at one place; a place *)
(* has one user; a user who loses the connection keeps the place until the *)
(* server gives the user up; and nobody loses a place to anybody else.     *)
(***************************************************************************)
CONSTANTS
    Users,      \* whoever has an account
    Places      \* the seats of all rooms

Out   == <<"out">>
Lobby == <<"lobby">>

VARIABLES
    place,      \* where each user is
    online      \* whether the user has a connection

bookVars == <<place, online>>

Free(p) == \A u \in Users : place[u] # p

BookTypeOK ==
    /\ place \in [Users -> Places \cup {Out, Lobby}]
    /\ online \in [Users -> BOOLEAN]

BookInit ==
    /\ place = [u \in Users |-> Out]
    /\ online = [u \in Users |-> FALSE]

\* User u comes in; the same connection may have held user w in the lobby.
Enter(u) ==
    /\ place[u] = Out
    /\ \/ place' = [place EXCEPT ![u] = Lobby] /\ online' = [online EXCEPT ![u] = TRUE]
       \/ \E w \in Users \ {u} :
            /\ place[w] = Lobby /\ online[w]
            /\ place' = [place EXCEPT ![u] = Lobby, ![w] = Out]
            /\ online' = [online EXCEPT ![u] = TRUE, ![w] = FALSE]

\* A user who was cut off comes back to the very same place.
Return(u) ==
    /\ place[u] # Out
    /\ ~online[u]
    /\ \/ UNCHANGED place /\ online' = [online EXCEPT ![u] = TRUE]
       \/ \E w \in Users \ {u} :
            /\ place[w] = Lobby /\ online[w]
            /\ place' = [place EXCEPT ![w] = Out]
            /\ online' = [online EXCEPT ![u] = TRUE, ![w] = FALSE]

Sit(u, p) ==
    /\ place[u] = Lobby
    /\ online[u]
    /\ Free(p)
    /\ place' = [place EXCEPT ![u] = p]
    /\ UNCHANGED online

Rise(u) ==
    /\ place[u] \in Places
    /\ online[u]
    /\ place' = [place EXCEPT ![u] = Lobby]
    /\ UNCHANGED online

CutOff(u) ==
    /\ online[u]
    /\ online' = [online EXCEPT ![u] = FALSE]
    /\ UNCHANGED place

\* The server gives a user up, connected or not.
GiveUp(u) ==
    /\ place[u] # Out
    /\ place' = [place EXCEPT ![u] = Out]
    /\ online' = [online EXCEPT ![u] = FALSE]

BookNext ==
    \E u \in Users :
        Enter(u) \/ Return(u) \/ (\E p \in Places : Sit(u, p)) \/ Rise(u)
            \/ CutOff(u) \/ GiveUp(u)

BookSpec == BookInit /\ [][BookNext]_bookVars
=============================================================================
