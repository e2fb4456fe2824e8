SPECIFICATION Spec
CONSTANTS
 MAX_CLIENTS = 3
 MAX_ROOMS = 1
 PLAYERS_PER_ROOM = 2
 GAME_DURATION = 1
 PING_TIMEOUT = 1
 RECONNECT_TIMEOUT = 3
 TOTAL_ROUNDS = 1
 MAX_LAG = 1
 u1 = u1
 u2 = u2
 here = here
 there = there
 Users <- MCUsers
 NoUser = nobody
 Cells <- MCCells
 Origin = here
 LoginStates <- LoginScreen
 FdAlias = FALSE
SYMMETRY UserSymmetry
PROPERTY DepartureAborts
