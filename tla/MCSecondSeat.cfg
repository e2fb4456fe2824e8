SPECIFICATION Spec
CONSTANTS
 MAX_CLIENTS = 2
 MAX_ROOMS = 2
 PLAYERS_PER_ROOM = 2
 GAME_DURATION = 1
 PING_TIMEOUT = 1
 RECONNECT_TIMEOUT = 3
 TOTAL_ROUNDS = 1
 MAX_LAG = 1
 u1 = u1
 u2 = u2
 here = here
 there = there
 Users <- MCUsers
 NoUser = nobody
 Cells <- MCCells
 Origin = here
 LoginStates <- Anywhere
 FdAlias = FALSE
SYMMETRY UserSymmetry
INVARIANT RoomNamed
