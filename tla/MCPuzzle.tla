------------------------------ MODULE MCPuzzle ------------------------------
\* Small levels for Puzzle: the operators, the formats and the order of the
\* rounds are those of the code, the ranges of the numbers are shorter.
EXTENDS Puzzle

Level(a, b, n) == [low |-> a, high |-> b, negative |-> n]
MCLevels == <<Level(1, 5, FALSE), Level(2, 5, FALSE), Level(2, 5, FALSE),
              Level(2, 6, FALSE), Level(-2, 3, TRUE)>>
=============================================================================
