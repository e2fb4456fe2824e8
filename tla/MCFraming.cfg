SPECIFICATION FramingSpec
CONSTANTS
 BUFFER_SIZE = 5
 Length = 10
INVARIANTS FramingTypeOK HandledWhole NoneMissed OnceInOrder LossBounded
CHECK_DEADLOCK FALSE
