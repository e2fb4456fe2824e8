---------------------------- MODULE PuzzleProofs ----------------------------
(***************************************************************************)
(* Proofs about puzzle_generate, for every range of numbers a level may    *)
(* have: which puzzles have a solution, and that one cell of a matrix wins.*)
(***************************************************************************)
EXTENDS Puzzle, FiniteSetTheorems, TLAPS

-----------------------------------------------------------------------------
(***************************************************************************)
(* C division.                                                             *)
(***************************************************************************)

\* Dividing a multiple gives the factor back, whatever the signs.
LEMMA QuotientOfMultiple ==
    ASSUME NEW q \in Int, NEW b \in Int, b # 0
    PROVE  Quotient(q * b, b) = q
<1>1. \A n \in Nat, m \in Nat \ {0} : (n * m) \div m = n
  OBVIOUS
<1>2. CASE q >= 0 /\ b > 0
  <2>1. q * b >= 0
    BY <1>2
  <2> QED BY <1>1, <1>2, <2>1 DEF Quotient, Abs
<1>3. CASE q < 0 /\ b > 0
  <2>1. q * b < 0 /\ -(q * b) = (-q) * b
    BY <1>3
  <2> QED BY <1>1, <1>3, <2>1 DEF Quotient, Abs
<1>4. CASE q > 0 /\ b < 0
  <2>1. q * b < 0 /\ -(q * b) = q * (-b)
    BY <1>4
  <2> QED BY <1>1, <1>4, <2>1 DEF Quotient, Abs
<1>5. CASE q < 0 /\ b < 0
  <2>1. q * b > 0 /\ q * b = (-q) * (-b)
    BY <1>5
  <2> QED BY <1>1, <1>5, <2>1 DEF Quotient, Abs
<1>6. CASE q = 0 /\ b < 0
  <2>1. q * b = 0 /\ 0 \div (-b) = 0
    BY <1>1, <1>6
  <2> QED BY <1>6, <2>1 DEF Quotient, Abs
<1> QED BY <1>2, <1>3, <1>4, <1>5, <1>6

\* A divisor times the quotient is the number.
LEMMA QuotientOfDivisor ==
    ASSUME NEW a \in Int, NEW d \in Nat \ {0}, Abs(a) % d = 0
    PROVE  Quotient(a, d) \in Int /\ d * Quotient(a, d) = a
<1>1. \A n \in Nat : n % d = 0 => n \div d \in Int /\ d * (n \div d) = n
  OBVIOUS
<1>2. CASE a >= 0
  BY <1>1, <1>2 DEF Quotient, Abs
<1>3. CASE a < 0
  <2>1. -a \in Nat /\ Abs(a) = -a /\ d * ((-a) \div d) = -a /\ (-a) \div d \in Int
    BY <1>1, <1>3 DEF Abs
  <2> QED BY <1>3, <2>1 DEF Quotient, Abs
<1> QED BY <1>2, <1>3

\* Quotients are integers.
LEMMA QuotientType ==
    ASSUME NEW a \in Int, NEW b \in Int, b # 0 PROVE Quotient(a, b) \in Int
  BY DEF Quotient, Abs

\* So is what apply_operator and calculate_result return.
LEMMA CalculateType ==
    ASSUME NEW a \in Int, NEW b \in Int, NEW c \in Int,
           NEW op1 \in Operator, NEW op2 \in Operator
    PROVE  /\ apply_operator(a, op1, b) \in Int
           /\ calculate_result(a, op1, b, op2, c) \in Int
<1>1. \A x, y \in Int : \A op \in Operator : apply_operator(x, op, y) \in Int
  BY QuotientType DEF apply_operator, Operator
<1> QED BY <1>1 DEF calculate_result

-----------------------------------------------------------------------------
(***************************************************************************)
(* Three-term sides.                                                       *)
(***************************************************************************)

\* The computed term of rounds 1, 3 and 5 is the exact value of the others,
\* unless a division comes first and * or / follows.
LEMMA ThreeTerms ==
    ASSUME NEW eq, NEW level \in [low : Int, high : Int, negative : BOOLEAN],
           eq.op1 \in {"ADD", "SUB"} => eq.op2 \in {"ADD", "SUB"},
           eq.op1 \in Operator, eq.op2 \in Operator,
           ~(eq.op1 = "DIV" /\ eq.op2 \in {"MUL", "DIV"}),
           NEW t \in Operands(eq, level)
    PROVE  /\ t[1] \in Int /\ t[2] \in Int /\ t[3] \in Int
           /\ Equal(ExactThree(t[1], eq.op1, t[2], eq.op2, t[3]),
                    Whole(calculate_result(t[1], eq.op1, t[2], eq.op2, t[3])))
<1> DEFINE N == rand_non_zero(level)
<1>1. \A n \in N : n \in Int /\ n # 0
  BY DEF rand_non_zero
<1>2. CASE eq.op1 = "DIV"
  <2>1. PICK q \in N, b \in N, c \in N : t = <<q * b, b, c>>
    BY <1>2 DEF Operands
  <2>2. q \in Int /\ b \in Int /\ c \in Int /\ b # 0 /\ q * b \in Int
    BY <1>1, <2>1
  <2>3. apply_operator(q * b, "DIV", b) = q
    BY <2>2, QuotientOfMultiple DEF apply_operator
  <2>4. CASE eq.op2 = "ADD"
    <3>1. calculate_result(q * b, "DIV", b, "ADD", c) = q + c
      BY <2>2, <2>3 DEF calculate_result, apply_operator
    <3>2. ExactThree(q * b, "DIV", b, "ADD", c)
            = <<((q * b) * 1) * 1 + c * (1 * b), (1 * b) * 1>>
      BY DEF ExactThree, Exact, Whole
    <3>3. (((q * b) * 1) * 1 + c * (1 * b)) * 1 = (q + c) * ((1 * b) * 1)
      BY <2>2
    <3> QED BY <1>2, <2>1, <2>2, <2>4, <3>1, <3>2, <3>3 DEF Equal, Whole
  <2>5. CASE eq.op2 = "SUB"
    <3>1. calculate_result(q * b, "DIV", b, "SUB", c) = q - c
      BY <2>2, <2>3 DEF calculate_result, apply_operator
    <3>2. ExactThree(q * b, "DIV", b, "SUB", c)
            = <<((q * b) * 1) * 1 - c * (1 * b), (1 * b) * 1>>
      BY DEF ExactThree, Exact, Whole
    <3>3. (((q * b) * 1) * 1 - c * (1 * b)) * 1 = (q - c) * ((1 * b) * 1)
      BY <2>2
    <3> QED BY <1>2, <2>1, <2>2, <2>5, <3>1, <3>2, <3>3 DEF Equal, Whole
  <2> QED BY <1>2, <2>4, <2>5 DEF Operator
<1>3. CASE eq.op1 # "DIV" /\ eq.op2 = "DIV"
  <2>1. PICK a \in N, q \in N, c \in N : t = <<a, q * c, c>>
    BY <1>3 DEF Operands
  <2>2. a \in Int /\ q \in Int /\ c \in Int /\ c # 0 /\ q * c \in Int /\ eq.op1 = "MUL"
    BY <1>1, <1>3, <2>1 DEF Operator
  <2>3. calculate_result(a, "MUL", q * c, "DIV", c) = a * q
    BY <2>2, QuotientOfMultiple DEF calculate_result, apply_operator
  <2>4. ExactThree(a, "MUL", q * c, "DIV", c) = <<(a * (q * c)) * 1, (1 * 1) * c>>
    BY DEF ExactThree, Exact, Whole
  <2>5. ((a * (q * c)) * 1) * 1 = (a * q) * ((1 * 1) * c)
    BY <2>2
  <2> QED BY <1>3, <2>1, <2>2, <2>3, <2>4, <2>5 DEF Equal, Whole
<1>4. CASE eq.op1 # "DIV" /\ eq.op2 # "DIV"
  <2>1. t \in N \X N \X N
    BY <1>4 DEF Operands
  <2>2. PICK a \in Int, b \in Int, c \in Int : t = <<a, b, c>>
    BY <1>1, <2>1
  <2>3. CASE eq.op2 = "MUL"
    <3>1. eq.op1 = "MUL"
      BY <1>4, <2>3 DEF Operator
    <3>2. calculate_result(a, "MUL", b, "MUL", c) = a * (b * c)
      BY DEF calculate_result, apply_operator
    <3>3. ExactThree(a, "MUL", b, "MUL", c) = <<(a * b) * c, (1 * 1) * 1>>
      BY DEF ExactThree, Exact, Whole
    <3> QED BY <2>2, <2>3, <3>1, <3>2, <3>3 DEF Equal, Whole
  <2>4. CASE eq.op2 \in {"ADD", "SUB"}
    BY <1>4, <2>2, <2>4
    DEF Operator, calculate_result, apply_operator, ExactThree, Exact, Equal, Whole
  <2> QED BY <1>4, <2>3, <2>4 DEF Operator
<1> QED BY <1>2, <1>3, <1>4

-----------------------------------------------------------------------------
(***************************************************************************)
(* Two-sided equations.                                                    *)
(***************************************************************************)

\* A left side drawn for rounds 2 and 4 equals the right side it was drawn
\* for, unless a product was wanted of a number that has no divisor in range.
LEMMA TwoSides ==
    ASSUME NEW level \in [low : Int, high : Int, negative : BOOLEAN],
           NEW op1 \in {"ADD", "SUB", "MUL"}, NEW op2 \in {"ADD", "SUB", "MUL"},
           NEW c \in Int, NEW d \in Int,
           NEW right, right = apply_operator(c, op2, d),
           op1 = "MUL" /\ right # 0 => Divisors(right, level) # {},
           NEW left \in LeftSides(op1, right, level)
    PROVE  Equal(Exact(Whole(left[1]), op1, Whole(left[2])),
                 Exact(Whole(c), op2, Whole(d)))
<1>1. right \in Int /\ Exact(Whole(c), op2, Whole(d)) = Whole(right)
  BY DEF apply_operator, Exact, Whole
<1>2. \A n \in rand_non_zero(level) : n \in Int
  BY DEF rand_non_zero
<1>3. ASSUME NEW a \in Int, NEW b \in Int, left = <<a, b>>,
             apply_operator(a, op1, b) = right
      PROVE  Equal(Exact(Whole(left[1]), op1, Whole(left[2])), Whole(right))
  BY <1>1, <1>3 DEF apply_operator, Exact, Equal, Whole
<1>4. CASE op1 = "ADD"
  <2>1. PICK a \in rand_non_zero(level) : left = <<a, right - a>>
    BY <1>4 DEF LeftSides
  <2>2. a \in Int /\ right - a \in Int /\ apply_operator(a, op1, right - a) = right
    BY <1>1, <1>2, <1>4 DEF apply_operator
  <2> QED BY <1>1, <1>3, <2>1, <2>2
<1>5. CASE op1 = "SUB"
  <2>1. PICK a \in rand_non_zero(level) : left = <<a, a - right>>
    BY <1>5 DEF LeftSides
  <2>2. a \in Int /\ a - right \in Int /\ apply_operator(a, op1, a - right) = right
    BY <1>1, <1>2, <1>5 DEF apply_operator
  <2> QED BY <1>1, <1>3, <2>1, <2>2
<1>6. CASE op1 = "MUL" /\ right = 0
  <2>1. left = <<1, 0>>
    BY <1>6 DEF LeftSides
  <2>2. apply_operator(1, op1, 0) = right
    BY <1>6 DEF apply_operator
  <2> QED BY <1>1, <1>3, <2>1, <2>2
<1>7. CASE op1 = "MUL" /\ right # 0
  <2>1. PICK a \in Divisors(right, level) : left = <<a, Quotient(right, a)>>
    BY <1>7 DEF LeftSides
  <2>2. a \in Nat \ {0} /\ Abs(right) % a = 0
    BY <1>1, <2>1 DEF Divisors
  <2>3. Quotient(right, a) \in Int /\ apply_operator(a, op1, Quotient(right, a)) = right
    BY <1>1, <1>7, <2>2, QuotientOfDivisor DEF apply_operator
  <2> QED BY <1>1, <1>3, <2>1, <2>2, <2>3
<1> QED BY <1>4, <1>5, <1>6, <1>7

-----------------------------------------------------------------------------
(***************************************************************************)
(* Every puzzle of the server.                                             *)
(***************************************************************************)

\* What puzzle_generate leaves for round k, equation eq and values v.
Made(k, eq, v) ==
    [round |-> k, format |-> eq.format, op1 |-> eq.op1, op2 |-> eq.op2,
     drawn |-> v, solution_values |-> NoZeros(v)]

\* A puzzle is blank or comes from puzzle_generate.
Generated ==
    \/ puzzle = Blank
    \/ \E k \in 1 .. 5 : \E eq \in Difficulty(k) : \E v \in Drawn(eq, Levels[k]) :
         puzzle = Made(k, eq, v)

\* Formats and operators of the five rounds.
LEMMA Difficulties ==
    ASSUME NEW k \in 1 .. 5, NEW eq \in Difficulty(k)
    PROVE  /\ eq.op1 \in Operator /\ eq.op2 \in Operator
           /\ \/ /\ eq.format \in {"P1_P2_P3_EQ_P4", "P1_EQ_P2_P3_P4"}
                 /\ eq.op1 \in {"ADD", "SUB"} => eq.op2 \in {"ADD", "SUB"}
              \/ /\ eq.format = "P1_P2_EQ_P3_P4"
                 /\ eq.op1 \in {"ADD", "SUB", "MUL"}
                 /\ eq.op2 \in {"ADD", "SUB", "MUL"}
<1>1. k \in {1, 2, 3, 4, 5}
  OBVIOUS
<1> QED BY <1>1 DEF Difficulty, Operator

\* The values drawn for an equation solve it, in all cases but two.
LEMMA DrawnSolves ==
    ASSUME NEW k \in 1 .. 5, NEW eq \in Difficulty(k), NEW v \in Drawn(eq, Levels[k]),
           ~(eq.op1 = "DIV" /\ eq.op2 \in {"MUL", "DIV"}),
           eq.format = "P1_P2_EQ_P3_P4" /\ eq.op1 = "MUL" =>
             LET right == apply_operator(v[3], eq.op2, v[4])
             IN  right = 0 \/ Divisors(right, Levels[k]) # {}
    PROVE  Solves(v, eq)
<1>1. Levels[k] \in [low : Int, high : Int, negative : BOOLEAN]
  BY LevelsAssumption
<1>2. CASE eq.format = "P1_P2_P3_EQ_P4"
  <2>1. PICK t \in Operands(eq, Levels[k]) :
          v = <<t[1], t[2], t[3], calculate_result(t[1], eq.op1, t[2], eq.op2, t[3])>>
    BY <1>2 DEF Drawn
  <2>2. Equal(ExactThree(t[1], eq.op1, t[2], eq.op2, t[3]),
              Whole(calculate_result(t[1], eq.op1, t[2], eq.op2, t[3])))
    BY <1>1, <1>2, Difficulties, ThreeTerms
  <2> QED BY <1>2, <2>1, <2>2 DEF Solves
<1>3. CASE eq.format = "P1_EQ_P2_P3_P4"
  <2>1. PICK t \in Operands(eq, Levels[k]) :
          v = <<calculate_result(t[1], eq.op1, t[2], eq.op2, t[3]), t[1], t[2], t[3]>>
    BY <1>3 DEF Drawn
  <2>2. Equal(ExactThree(t[1], eq.op1, t[2], eq.op2, t[3]),
              Whole(calculate_result(t[1], eq.op1, t[2], eq.op2, t[3])))
    BY <1>1, <1>3, Difficulties, ThreeTerms
  <2> QED BY <1>3, <2>1, <2>2 DEF Solves
<1>4. CASE eq.format = "P1_P2_EQ_P3_P4"
  <2>1. PICK c \in rand_non_zero(Levels[k]), d \in rand_non_zero(Levels[k]) :
          \E left \in LeftSides(eq.op1, apply_operator(c, eq.op2, d), Levels[k]) :
             v = <<left[1], left[2], c, d>>
    BY <1>4 DEF Drawn
  <2>2. PICK left \in LeftSides(eq.op1, apply_operator(c, eq.op2, d), Levels[k]) :
          v = <<left[1], left[2], c, d>>
    BY <2>1
  <2>3. /\ eq.op1 \in {"ADD", "SUB", "MUL"} /\ eq.op2 \in {"ADD", "SUB", "MUL"}
        /\ c \in Int /\ d \in Int
    BY <1>4, Difficulties DEF rand_non_zero
  <2>4. Equal(Exact(Whole(left[1]), eq.op1, Whole(left[2])),
              Exact(Whole(c), eq.op2, Whole(d)))
    <3>1. eq.op1 = "MUL" /\ apply_operator(c, eq.op2, d) # 0
            => Divisors(apply_operator(c, eq.op2, d), Levels[k]) # {}
      BY <1>4, <2>2
    <3> QED BY <1>1, <2>3, <3>1, TwoSides
  <2> QED BY <1>4, <2>2, <2>4 DEF Solves
<1> QED BY <1>2, <1>3, <1>4, Difficulties

\* Every puzzle comes from puzzle_generate.
LEMMA AlwaysGenerated == Spec => []Generated
<1>1. Init => Generated
  BY DEF Init, Generated
<1>2. Generated /\ [Next]_puzzle => Generated'
  BY DEF Generated, Next, puzzle_generate, Made
<1> QED BY <1>1, <1>2, PTL DEF Spec

\* Whatever the ranges of the levels, the coordinates that win are those of a
\* true equation, outside the three cases that SolvableUnless names.
THEOREM Solvable == Spec => []SolvableUnless
<1>1. Generated => SolvableUnless
  <2> SUFFICES ASSUME Generated, puzzle.round > 0,
                      ~ZeroReplaced, ~DividesFirst, ~NoDivisor
               PROVE  Solves(puzzle.solution_values, puzzle)
    BY DEF SolvableUnless
  <2>1. puzzle # Blank
    BY DEF Blank
  <2>2. PICK k \in 1 .. 5 : \E eq \in Difficulty(k) :
          \E v \in Drawn(eq, Levels[k]) : puzzle = Made(k, eq, v)
    BY <2>1 DEF Generated
  <2>3. PICK eq \in Difficulty(k) :
          \E v \in Drawn(eq, Levels[k]) : puzzle = Made(k, eq, v)
    BY <2>2
  <2>4. PICK v \in Drawn(eq, Levels[k]) : puzzle = Made(k, eq, v)
    BY <2>3
  <2>5. /\ puzzle.round = k /\ puzzle.format = eq.format
        /\ puzzle.op1 = eq.op1 /\ puzzle.op2 = eq.op2
        /\ puzzle.drawn = v /\ puzzle.solution_values = v
    BY <2>4 DEF Made, ZeroReplaced
  <2>6. Solves(v, eq)
    BY <2>5, DrawnSolves DEF DividesFirst, NoDivisor
  <2> QED BY <2>5, <2>6 DEF Solves
<1> QED BY <1>1, AlwaysGenerated, PTL

\* An interval without 0, which it may not contain at all.
LEMMA IntervalWithoutZero ==
    ASSUME NEW low \in Int, NEW high \in Int, low <= high
    PROVE  /\ IsFiniteSet((low .. high) \ {0})
           /\ Cardinality((low .. high) \ {0}) =
                IF 0 \in low .. high THEN high - low ELSE high - low + 1
<1>1. IsFiniteSet(low .. high)
  BY FS_Interval
<1>2. Cardinality(low .. high) = high - low + 1
  <2>1. Cardinality(low .. high) = IF low > high THEN 0 ELSE high - low + 1
    BY FS_Interval
  <2> QED BY <2>1
<1>3. /\ IsFiniteSet((low .. high) \ {0})
      /\ Cardinality((low .. high) \ {0}) =
           IF 0 \in low .. high THEN Cardinality(low .. high) - 1
           ELSE Cardinality(low .. high)
  BY <1>1, FS_RemoveElement
<1> QED BY <1>2, <1>3

\* A pool has a number for every cell of a matrix, whatever value it avoids.
LEMMA PoolSuffices ==
    ASSUME NEW k \in 1 .. 5, NEW value
    PROVE  /\ IsFiniteSet(Pool(Levels[k], value))
           /\ Cardinality(Pool(Levels[k], value)) \in Nat
           /\ Cardinality(Pool(Levels[k], value)) >= CELLS
<1> DEFINE low   == IF Levels[k].negative THEN Levels[k].low ELSE 1
           high  == Levels[k].high
           range == low .. high
<1>1. /\ CELLS \in Nat /\ low \in Int /\ high \in Int /\ low <= high
      /\ CELLS < high - (IF Levels[k].negative THEN Levels[k].low ELSE 0)
  BY LevelsAssumption, PoolsAssumption
<1>2. /\ IsFiniteSet(range \ {0})
      /\ Cardinality(range \ {0}) =
           IF 0 \in range THEN high - low ELSE high - low + 1
  BY <1>1, IntervalWithoutZero
<1>3. Cardinality(range \ {0}) \in Nat /\ Cardinality(range \ {0}) > CELLS
  <2>1. CASE Levels[k].negative
    BY <1>1, <1>2, <2>1
  <2>2. CASE ~Levels[k].negative
    BY <1>1, <1>2, <2>2
  <2> QED BY <2>1, <2>2
<1>4. Pool(Levels[k], value) = (range \ {0}) \ {value}
  BY DEF Pool
<1>5. /\ IsFiniteSet(Pool(Levels[k], value))
      /\ Cardinality(Pool(Levels[k], value)) \in
           {Cardinality(range \ {0}) - 1, Cardinality(range \ {0})}
  BY <1>2, <1>4, FS_RemoveElement
<1> QED BY <1>1, <1>3, <1>5

\* A matrix is filled with different numbers of the pool.
LEMMA FilledFromPool ==
    ASSUME NEW k \in 1 .. 5, NEW value, NEW m \in Filled(Levels[k], value)
    PROVE  /\ m \in [1 .. CELLS -> Pool(Levels[k], value)]
           /\ \A i, j \in 1 .. CELLS : m[i] = m[j] => i = j
<1>1. (IF Cardinality(Pool(Levels[k], value)) < CELLS
       THEN Cardinality(Pool(Levels[k], value)) ELSE CELLS) = CELLS
  BY PoolSuffices, LevelsAssumption
<1> QED BY <1>1 DEF Filled

\* Whatever the ranges of the levels, a matrix shows its solution value in the
\* cell that wins and in no other, no number twice and no 0.
THEOREM OneCell == Spec => []OneCellWins
<1>1. Generated => OneCellWins
  <2> SUFFICES ASSUME Generated, puzzle.round > 0, NEW i \in 1 .. 4,
                      NEW k, k = puzzle.round,
                      NEW value, value = puzzle.solution_values[i],
                      NEW m \in Matrices(Levels[k], value)
               PROVE  /\ \A p \in 1 .. CELLS : m.data[p] = value <=> p = m.at
                      /\ \A p, q \in 1 .. CELLS : m.data[p] = m.data[q] => p = q
                      /\ \A p \in 1 .. CELLS : m.data[p] # 0
    BY DEF OneCellWins
  <2>1. k \in 1 .. 5 /\ \E v : puzzle.solution_values = NoZeros(v)
    BY DEF Generated, Made, Blank
  <2>2. value # 0
    BY <2>1 DEF NoZeros
  <2>3. PICK f \in Filled(Levels[k], value), at \in 1 .. CELLS :
          m = [at |-> at, data |-> [f EXCEPT ![at] = value]]
    BY DEF Matrices
  <2>4. /\ f \in [1 .. CELLS -> Pool(Levels[k], value)]
        /\ \A p, q \in 1 .. CELLS : f[p] = f[q] => p = q
    BY <2>1, FilledFromPool
  <2>5. 0 \notin Pool(Levels[k], value) /\ value \notin Pool(Levels[k], value)
    BY DEF Pool
  <2>6. /\ m.at = at
        /\ \A p \in 1 .. CELLS : m.data[p] = IF p = at THEN value ELSE f[p]
    BY <2>3, <2>4
  <2>7. \A p \in 1 .. CELLS : f[p] # value /\ f[p] # 0
    BY <2>4, <2>5
  <2> QED BY <2>2, <2>4, <2>6, <2>7
<1> QED BY <1>1, AlwaysGenerated, PTL
=============================================================================
