------------------------------- MODULE Puzzle -------------------------------
(***************************************************************************)
(* src/server/game.c: how the server draws the puzzle of a round.          *)
(*                                                                         *)
(* A puzzle is an equation over four values, one per seat, and for each    *)
(* seat a matrix that hides its value among other numbers.  Any value that *)
(* rand() can give is a choice.  The numbers stay far below 2^31 at the    *)
(* levels of the code, so integers are not wrapped.                        *)
(***************************************************************************)
EXTENDS Integers, FiniteSets

CONSTANTS
    CELLS,      \* cells of a matrix (MATRIX_SIZE * MATRIX_SIZE, 16 in the code)
    Levels      \* per round 1 .. 5: [low, high, negative], min_val, max_val
                \* and allow_negative

Operator == {"ADD", "SUB", "MUL", "DIV"}
EquationFormat == {"P1_P2_P3_EQ_P4", "P1_EQ_P2_P3_P4", "P1_P2_EQ_P3_P4"}

ASSUME LevelsAssumption ==
    /\ CELLS \in Nat \ {0}
    /\ Levels \in [1 .. 5 -> [low : Int, high : Int, negative : BOOLEAN]]
    /\ \A k \in 1 .. 5 :
         /\ Levels[k].low <= Levels[k].high
         /\ Levels[k].high >= 1
         /\ Levels[k].low >= 1 \/ (k = 5 /\ Levels[k].negative)

\* "Pool exhausted (shouldn't happen with large enough pool)" (game.c:273): a
\* level has more numbers than a matrix has cells.
ASSUME PoolsAssumption ==
    \A k \in 1 .. 5 :
        CELLS < Levels[k].high - (IF Levels[k].negative THEN Levels[k].low ELSE 0)

VARIABLE puzzle     \* the Puzzle of a room; drawn is the equation's values
                    \* before zeros are replaced, which the code does not keep

Blank == [round |-> 0, format |-> "P1_P2_P3_EQ_P4", op1 |-> "ADD", op2 |-> "ADD",
          drawn |-> <<0, 0, 0, 0>>, solution_values |-> <<0, 0, 0, 0>>]

-----------------------------------------------------------------------------
(***************************************************************************)
(* Arithmetic of the code.                                                 *)
(***************************************************************************)
Abs(n) == IF n < 0 THEN -n ELSE n

\* C division: the quotient is truncated towards zero.
Quotient(a, b) ==
    IF (a < 0) = (b < 0) THEN Abs(a) \div Abs(b) ELSE -(Abs(a) \div Abs(b))

\* A division by zero leaves the left operand.
apply_operator(a, op, b) ==
    CASE op = "ADD" -> a + b
      [] op = "SUB" -> a - b
      [] op = "MUL" -> a * b
      [] op = "DIV" -> IF b # 0 THEN Quotient(a, b) ELSE a

\* p1 op1 p2 op2 p3: a MUL or DIV in second place is always computed first.
calculate_result(p1, op1, p2, op2, p3) ==
    IF op2 \in {"MUL", "DIV"}
    THEN apply_operator(p1, op1, apply_operator(p2, op2, p3))
    ELSE apply_operator(apply_operator(p1, op1, p2), op2, p3)

-----------------------------------------------------------------------------
(***************************************************************************)
(* The values of a puzzle.                                                 *)
(***************************************************************************)

\* Format and operators that round k may get.
Difficulty(k) ==
    LET Equation(f, ops1, ops2) == [format : {f}, op1 : ops1, op2 : ops2]
    IN  CASE k = 1 -> Equation("P1_P2_P3_EQ_P4", {"ADD", "SUB"}, {"ADD", "SUB"})
          [] k = 2 -> Equation("P1_P2_EQ_P3_P4", {"ADD", "SUB"}, {"ADD", "SUB"})
          [] k = 3 -> Equation("P1_EQ_P2_P3_P4", {"MUL"}, {"ADD", "SUB"})
          [] k = 4 -> Equation("P1_P2_EQ_P3_P4", {"MUL"}, {"ADD", "SUB", "MUL"})
          [] k = 5 -> Equation("P1_P2_P3_EQ_P4", {"MUL", "DIV"}, Operator)

rand_non_zero(level) == (level.low .. level.high) \ {0}

\* Changed copy of Operands: the operands of a division are drawn freely.
OperandsFree(eq, level) ==
    rand_non_zero(level) \X rand_non_zero(level) \X rand_non_zero(level)

\* Operands of a three-term side: the dividend of a division, of the first one
\* if there are two, is drawn as a multiple of its divisor.
Operands(eq, level) ==
    LET N == rand_non_zero(level)
    IN  IF eq.op1 = "DIV" THEN {<<q * b, b, c>> : q, b, c \in N}
        ELSE IF eq.op2 = "DIV" THEN {<<a, q * c, c>> : a, q, c \in N}
        ELSE N \X N \X N

\* Divisors of the right side that are in range (the code keeps the first 100;
\* its ranges hold fewer).
Divisors(right, level) ==
    {d \in 1 .. Abs(right) : Abs(right) % d = 0 /\ level.low <= d /\ d <= level.high}

\* Left sides P1 op1 P2 for a given right side.  For a product with no divisor
\* in range P1 is drawn freely and P2 is the truncated quotient.
LeftSides(op, right, level) ==
    LET N == rand_non_zero(level)
        D == Divisors(right, level)
    IN  CASE op = "ADD" -> {<<a, right - a>> : a \in N}
          [] op = "SUB" -> {<<a, a - right>> : a \in N}
          [] op = "MUL" -> IF right = 0 THEN {<<1, 0>>}
                           ELSE {<<a, Quotient(right, a)>> :
                                   a \in IF D = {} THEN N ELSE D}
          [] op = "DIV" -> {<<right * b, b>> : b \in N}

\* Values <<P1, P2, P3, P4>> that an equation may be given.
Drawn(eq, level) ==
    CASE eq.format = "P1_P2_P3_EQ_P4" ->
           {<<t[1], t[2], t[3], calculate_result(t[1], eq.op1, t[2], eq.op2, t[3])>> :
              t \in Operands(eq, level)}
      [] eq.format = "P1_EQ_P2_P3_P4" ->
           {<<calculate_result(t[1], eq.op1, t[2], eq.op2, t[3]), t[1], t[2], t[3]>> :
              t \in Operands(eq, level)}
      [] eq.format = "P1_P2_EQ_P3_P4" ->
           UNION {{<<left[1], left[2], c, d>> :
                     left \in LeftSides(eq.op1, apply_operator(c, eq.op2, d), level)} :
                  c, d \in rand_non_zero(level)}

\* No solution value may be 0.
NoZeros(values) == [i \in 1 .. 4 |-> IF values[i] = 0 THEN 1 ELSE values[i]]

\* A new puzzle for round k replaces the old one entirely.
puzzle_generate(k) ==
    \E eq \in Difficulty(k) : \E v \in Drawn(eq, Levels[k]) :
        puzzle' = [round |-> k, format |-> eq.format, op1 |-> eq.op1, op2 |-> eq.op2,
                   drawn |-> v, solution_values |-> NoZeros(v)]

-----------------------------------------------------------------------------
(***************************************************************************)
(* The matrices.                                                           *)
(***************************************************************************)

\* Changed copy of Pool: the solution value is not excluded.
PoolWithSolution(level, value) ==
    (IF level.negative THEN level.low .. level.high ELSE 1 .. level.high) \ {0}

\* Numbers that may surround the solution value of a seat.
Pool(level, value) ==
    (IF level.negative THEN level.low .. level.high ELSE 1 .. level.high) \ {0, value}

\* Contents of the cells before the solution value overwrites one of them: the
\* pool in any order without repetition; a pool that is too small is used up
\* and the other cells get any number of the level.
Filled(level, value) ==
    LET pool  == Pool(level, value)
        first == 1 .. (IF Cardinality(pool) < CELLS THEN Cardinality(pool) ELSE CELLS)
    IN  {m \in [1 .. CELLS -> pool \cup (level.low .. level.high)] :
           /\ \A i \in first : m[i] \in pool
           /\ \A i, j \in first : m[i] = m[j] => i = j}

\* Matrices of a seat, with the cell of its solution value.
Matrices(level, value) ==
    {[at |-> p, data |-> [m EXCEPT ![p] = value]] :
       m \in Filled(level, value), p \in 1 .. CELLS}

-----------------------------------------------------------------------------
Init == puzzle = Blank

\* Rounds follow each other; a game that was lost starts again at round 1.
Next == \E k \in 1 .. 5 : k \in {1, puzzle.round + 1} /\ puzzle_generate(k)

Spec == Init /\ [][Next]_puzzle

-----------------------------------------------------------------------------
(***************************************************************************)
(* Reference arithmetic: fractions <<n, d>>, * and / before + and -, equal *)
(* ranks from left to right.                                               *)
(***************************************************************************)
Whole(n) == <<n, 1>>

Exact(x, op, y) ==
    CASE op = "ADD" -> <<x[1] * y[2] + y[1] * x[2], x[2] * y[2]>>
      [] op = "SUB" -> <<x[1] * y[2] - y[1] * x[2], x[2] * y[2]>>
      [] op = "MUL" -> <<x[1] * y[1], x[2] * y[2]>>
      [] op = "DIV" -> <<x[1] * y[2], x[2] * y[1]>>

ExactThree(a, op1, b, op2, c) ==
    IF op1 \in {"ADD", "SUB"} /\ op2 \in {"MUL", "DIV"}
    THEN Exact(Whole(a), op1, Exact(Whole(b), op2, Whole(c)))
    ELSE Exact(Exact(Whole(a), op1, Whole(b)), op2, Whole(c))

Equal(x, y) == x[1] * y[2] = y[1] * x[2]

\* The equation that the players are shown is true of the values v.
Solves(v, eq) ==
    CASE eq.format = "P1_P2_P3_EQ_P4" ->
           Equal(ExactThree(v[1], eq.op1, v[2], eq.op2, v[3]), Whole(v[4]))
      [] eq.format = "P1_EQ_P2_P3_P4" ->
           Equal(ExactThree(v[2], eq.op1, v[3], eq.op2, v[4]), Whole(v[1]))
      [] eq.format = "P1_P2_EQ_P3_P4" ->
           Equal(Exact(Whole(v[1]), eq.op1, Whole(v[2])),
                 Exact(Whole(v[3]), eq.op2, Whole(v[4])))

\* The three ways in which a puzzle can miss its equation.
ZeroReplaced == puzzle.solution_values # puzzle.drawn
DividesFirst == puzzle.op1 = "DIV" /\ puzzle.op2 \in {"MUL", "DIV"}
NoDivisor ==
    /\ puzzle.format = "P1_P2_EQ_P3_P4" /\ puzzle.op1 = "MUL"
    /\ LET right == apply_operator(puzzle.drawn[3], puzzle.op2, puzzle.drawn[4])
       IN  right # 0 /\ Divisors(right, Levels[puzzle.round]) = {}

-----------------------------------------------------------------------------
\* The coordinates the server accepts are those of a true equation, outside
\* three cases: a zero was replaced, a division is followed by * or /, or a
\* product was wanted of a number without a divisor in range.
SolvableUnless ==
    puzzle.round > 0 =>
        \/ Solves(puzzle.solution_values, puzzle)
        \/ ZeroReplaced \/ DividesFirst \/ NoDivisor

\* Whatever shuffle comes out, a seat's matrix shows its value in one cell only,
\* the one whose coordinates win, no number twice and no 0 ("UNIQUE random
\* numbers (no duplicates, no zero)"), although drawn values may vanish.
OneCellWins ==
    puzzle.round > 0 =>
        \A i \in 1 .. 4 :
            LET value == puzzle.solution_values[i]
            IN  \A m \in Matrices(Levels[puzzle.round], value) :
                  /\ \A p \in 1 .. CELLS : m.data[p] = value <=> p = m.at
                  /\ \A p, q \in 1 .. CELLS : m.data[p] = m.data[q] => p = q
                  /\ \A p \in 1 .. CELLS : m.data[p] # 0

\* "Use calculate_result to handle operator precedence correctly" (game.c:142):
\* the computed term has the value that the other three give it.
PrecedenceRight ==
    puzzle.format # "P1_P2_EQ_P3_P4" => Solves(puzzle.drawn, puzzle)
=============================================================================
