SPECIFICATION Spec
CONSTANTS
 CELLS = 4
 Levels <- MCLevels
INVARIANT PrecedenceRight
