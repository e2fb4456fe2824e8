SPECIFICATION Spec
CONSTANTS
 CELLS = 4
 Levels <- MCLevels
INVARIANTS SolvableUnless OneCellWins
