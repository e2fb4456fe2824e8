SPECIFICATION DialogueSpec
CONSTANTS
 ROUNDS = 2
 MAX_BOXES = 2
 MAX_QUEUE = 1
 MAX_WIRE = 3
 MAX_GAMES = 2
 MAX_SEATS = 2
INVARIANTS DialogueTypeOK ScreenFollows AnswerInTime LeaveAsMeant DoorUnlessResumed
