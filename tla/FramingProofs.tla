--------------------------- MODULE FramingProofs ---------------------------
(***************************************************************************)
(* Framing for every buffer size and every stream: lines are handled       *)
(* whole, once and in order, and a cleared buffer costs the head of one    *)
(* line.                                                                   *)
(***************************************************************************)
EXTENDS Framing, WellFoundedInduction, TLAPS

\* What the properties need beside the types: the buffer begins where a line
\* begins, and everything handled lies before it.
FramingInv ==
    /\ FramingTypeOK
    /\ Begins(first)
    /\ HandledWhole
    /\ \A l \in Handled : l[2] + 1 < first
    /\ OnceInOrder
    /\ \A p \in breaks : p < first => (\E l \in Handled : l[2] = p - 1) \/ Begins(p)
    /\ LossBounded

\* The line that ends before position p in a buffer that starts at s begins at
\* the last position that is s or comes after a newline.
LEMMA LineStart ==
  ASSUME breaks \in SUBSET Int, NEW s \in Int, NEW p \in Int, s <= p
  PROVE  \E a \in s .. p : (a = s \/ a - 1 \in breaks) /\ Unbroken(a, p - 1)
  <1> DEFINE Below == {ss \in Nat \X Nat : ss[1] < ss[2]}
             T     == {d \in Nat : p - d \in s .. p /\ (p - d = s \/ p - d - 1 \in breaks)}
  <1>1. IsWellFoundedOn(Below, Nat)
    BY NatLessThanWellFounded DEF OpToRel
  <1>2. T \subseteq Nat /\ T # {}
    <2>1. p - s \in T
      OBVIOUS
    <2> QED
      BY <2>1
  <1>3. PICK d \in T : \A j \in T : <<j, d>> \notin Below
    <2> HIDE DEF Below, T
    <2> QED
      BY <1>1, <1>2, WFMin
  <1>4. \A j \in T : ~(j < d)
    BY <1>3
  <1>5. Unbroken(p - d, p - 1)
    <2> SUFFICES ASSUME NEW q \in (p - d) .. (p - 1), q \in breaks PROVE FALSE
      BY DEF Unbroken
    <2>1. p - q - 1 \in T /\ p - q - 1 < d
      OBVIOUS
    <2> QED
      BY <2>1, <1>4
  <1> QED
    BY <1>5

\* The line that position q is in ends before the first newline from q on.
LEMMA LineEnd ==
  ASSUME breaks \in SUBSET Int, NEW q \in Int, NEW t \in breaks, q <= t
  PROVE  \E p \in breaks : q <= p /\ p <= t /\ Unbroken(q, p - 1)
  <1> DEFINE Below == {ss \in Nat \X Nat : ss[1] < ss[2]}
             T     == {d \in Nat : q + d \in breaks}
  <1>1. IsWellFoundedOn(Below, Nat)
    BY NatLessThanWellFounded DEF OpToRel
  <1>2. T \subseteq Nat /\ t - q \in T
    OBVIOUS
  <1>3. PICK d \in T : \A j \in T : <<j, d>> \notin Below
    <2> HIDE DEF Below, T
    <2> QED
      BY <1>1, <1>2, WFMin
  <1>4. \A j \in T : ~(j < d)
    BY <1>3
  <1>5. Unbroken(q, q + d - 1)
    <2> SUFFICES ASSUME NEW i \in q .. (q + d - 1), i \in breaks PROVE FALSE
      BY DEF Unbroken
    <2>1. i - q \in T /\ i - q < d
      OBVIOUS
    <2> QED
      BY <2>1, <1>4
  <1>6. q + d <= t
    BY <1>2, <1>4
  <1> QED
    BY <1>5, <1>6

LEMMA InitFraming == FramingInit => FramingInv
  BY BufferAssumption, LengthAssumption
     DEF FramingInit, FramingInv, FramingTypeOK, Begins, HandledWhole, Handled,
         OnceInOrder, LossBounded, Unbroken

\* What one call of client_process_data does, with the positions it starts from
\* and reads up to as constants s and e.
LEMMA ReadFacts ==
  ASSUME FramingInv, NEW n \in Reads, client_process_data(n)
  PROVE  \E s, e \in Int :
           /\ s \in {first, next} /\ next <= e /\ e <= Length
           /\ e + 1 - s <= BUFFER_SIZE - 1
           /\ s # first => s \in cuts'
           /\ s = 1 \/ s - 1 \in breaks \/ s \in cuts'
           /\ first' \in s .. e + 1
           /\ first' = s \/ first' - 1 \in breaks
           /\ Unbroken(first', e)
           /\ next' = e + 1
           /\ breaks' = breaks
           /\ cuts \subseteq cuts' /\ cuts' \subseteq cuts \cup {next}
           /\ batch' = Lines(s, e)
           /\ earlier' = Handled
           /\ Handled' = Handled \cup Lines(s, e)
  <1>1. n \in 1 .. BUFFER_SIZE - 1 /\ next + n - 1 <= Length
    BY DEF Reads
  <1>2. /\ first \in 1 .. Length + 1 /\ next \in first .. Length + 1
        /\ next - first <= BUFFER_SIZE - 1
    BY DEF FramingInv, FramingTypeOK
  <1>3. PICK s \in Int : s = Start(n)
    BY <1>2, LengthAssumption DEF Start
  <1>4. PICK e \in Int : e = next + n - 1
    BY <1>1, <1>2, BufferAssumption, LengthAssumption
  <1>5. PICK f \in s .. e + 1 : Remaining(s, e, f) /\ first' = f
    BY <1>3, <1>4 DEF client_process_data
  <1>6. /\ next' = e + 1 /\ breaks' = breaks
        /\ cuts' = IF s = first THEN cuts ELSE cuts \cup {next}
        /\ earlier' = Handled /\ batch' = Lines(s, e)
    BY <1>3, <1>4 DEF client_process_data
  <1>7. s \in {first, next} /\ e + 1 - s <= BUFFER_SIZE - 1
    BY <1>1, <1>2, <1>3, <1>4, BufferAssumption, LengthAssumption DEF Start
  <1>8. s = 1 \/ s - 1 \in breaks \/ s \in cuts'
    BY <1>6, <1>7 DEF FramingInv, Begins
  <1>9. first' \in s .. e + 1 /\ (first' = s \/ first' - 1 \in breaks) /\ Unbroken(first', e)
    BY <1>5 DEF Remaining
  <1>10. next <= e /\ e <= Length
    BY <1>1, <1>2, <1>4, BufferAssumption, LengthAssumption
  <1>11. Handled' = Handled \cup Lines(s, e)
    BY <1>6 DEF Handled
  <1>12. /\ s # first => s \in cuts'
         /\ cuts \subseteq cuts' /\ cuts' \subseteq cuts \cup {next}
    BY <1>6, <1>7
  <1> QED
    BY <1>6, <1>7, <1>8, <1>9, <1>10, <1>11, <1>12

\* Every read keeps the invariant.  A new line lies between s and the new first,
\* everything handled earlier before the old one.
LEMMA NextFraming == FramingInv /\ [FramingNext]_framingVars => FramingInv'
  <1> SUFFICES ASSUME FramingInv, FramingNext PROVE FramingInv'
    BY DEF framingVars, FramingInv, FramingTypeOK, Begins, HandledWhole, Handled,
           OnceInOrder, LossBounded, Unbroken
  <1>1. PICK n \in Reads : client_process_data(n)
    BY DEF FramingNext
  <1>2. PICK s, e \in Int :
           /\ s \in {first, next} /\ next <= e /\ e <= Length
           /\ e + 1 - s <= BUFFER_SIZE - 1
           /\ s # first => s \in cuts'
           /\ s = 1 \/ s - 1 \in breaks \/ s \in cuts'
           /\ first' \in s .. e + 1
           /\ first' = s \/ first' - 1 \in breaks
           /\ Unbroken(first', e)
           /\ next' = e + 1
           /\ breaks' = breaks
           /\ cuts \subseteq cuts' /\ cuts' \subseteq cuts \cup {next}
           /\ batch' = Lines(s, e)
           /\ earlier' = Handled
           /\ Handled' = Handled \cup Lines(s, e)
    BY <1>1, ReadFacts
  <1>3. /\ first \in 1 .. Length + 1 /\ next \in first .. Length + 1
        /\ breaks \in SUBSET (1 .. Length) /\ cuts \in SUBSET (1 .. Length)
        /\ Handled \in SUBSET ((1 .. Length) \X (1 .. Length))
        /\ Unbroken(first, next - 1)
    BY DEF FramingInv, FramingTypeOK
  <1>4. /\ first <= s /\ first \in Int /\ next \in Int /\ first' \in Int
        /\ s \in Int /\ e \in Int
    BY <1>2, <1>3, LengthAssumption
  <1>f. PICK f \in Int : f = first'
    BY <1>4
  <1>g. f \in s .. e + 1 /\ (f = s \/ f - 1 \in breaks)
    BY <1>2, <1>f
  \* Lines of this read.
  <1>5. ASSUME NEW l \in Lines(s, e)
        PROVE  /\ l \in (1 .. Length) \X (1 .. Length)
               /\ s <= l[1] /\ l[1] <= l[2] /\ l[2] + 1 <= e
               /\ Unbroken(l[1], l[2]) /\ l[2] + 1 \in breaks
               /\ l[1] = s \/ l[1] - 1 \in breaks
               /\ l[2] + 1 < first'
    <2>1. /\ l \in (s .. e) \X (s .. e)
          /\ l[1] <= l[2] /\ l[2] + 1 <= e
          /\ Unbroken(l[1], l[2]) /\ l[2] + 1 \in breaks
          /\ l[1] = s \/ l[1] - 1 \in breaks
      BY <1>5 DEF Lines
    <2>2. l[1] \in s .. e /\ l[2] \in s .. e /\ l = <<l[1], l[2]>>
      BY <2>1
    <2>3. l \in (1 .. Length) \X (1 .. Length)
      BY <2>2, <1>2, <1>3, <1>4, LengthAssumption
    <2>4. l[2] + 1 < first'
      BY <2>1, <2>2, <1>2, <1>4 DEF Unbroken
    <2> QED
      BY <2>1, <2>2, <2>3, <2>4
  <1>6. FramingTypeOK'
    <2>1. Handled' \in SUBSET ((1 .. Length) \X (1 .. Length))
      BY <1>2, <1>3, <1>5
    <2>2. /\ first' \in 1 .. Length + 1
          /\ next' \in first' .. Length + 1
          /\ next' - first' <= BUFFER_SIZE - 1
      <3>1. s <= first' /\ first' <= e + 1 /\ e + 1 - s <= BUFFER_SIZE - 1 /\ e <= Length
        BY <1>2
      <3>2. next' = e + 1 /\ 1 <= s
        BY <1>2, <1>3, <1>4
      <3>3. first' \in 1 .. Length + 1
        BY <3>1, <3>2, <1>4, LengthAssumption
      <3>4. next' \in first' .. Length + 1
        BY <3>1, <3>2, <1>4, LengthAssumption
      <3>5. next' - first' <= BUFFER_SIZE - 1
        <4>1. e + 1 - f <= BUFFER_SIZE - 1
          BY <3>1, <1>4, <1>g, BufferAssumption
        <4> QED
          BY <4>1, <3>2, <1>f
      <3> QED
        BY <3>3, <3>4, <3>5
    <2>3. cuts' \in SUBSET (1 .. Length)
      BY <1>2, <1>3, LengthAssumption
    <2>4. Unbroken(first, next - 1)'
      BY <1>2, <1>4 DEF Unbroken
    <2> QED
      BY <1>2, <1>3, <2>1, <2>2, <2>3, <2>4 DEF FramingTypeOK
  <1>7. Begins(first)'
    BY <1>2 DEF Begins
  <1>8. HandledWhole'
    <2> SUFFICES ASSUME NEW l \in Handled'
                 PROVE  /\ l[1] <= l[2] /\ Unbroken(l[1], l[2])'
                        /\ l[2] + 1 \in breaks' /\ Begins(l[1])'
      BY DEF HandledWhole
    <2>1. CASE l \in Handled
      BY <2>1, <1>2 DEF FramingInv, HandledWhole, Unbroken, Begins
    <2>2. CASE l \in Lines(s, e)
      BY <2>2, <1>2, <1>5 DEF Unbroken, Begins
    <2> QED
      BY <2>1, <2>2, <1>2
  <1>9. (\A l \in Handled : l[2] + 1 < first)'
    <2>1. \A l \in Handled : l[2] + 1 < first /\ l[2] \in Int
      BY <1>3 DEF FramingInv
    <2> QED
      BY <1>2, <1>4, <1>5, <2>1
  <1>10. OnceInOrder'
    <2>1. \A l \in Lines(s, e), m \in Handled : m[2] < l[1]
      BY <1>3, <1>4, <1>5 DEF FramingInv
    <2>2. \A l, m \in Lines(s, e) : l # m => l[2] < m[1] \/ m[2] < l[1]
      <3> SUFFICES ASSUME NEW l \in Lines(s, e), NEW m \in Lines(s, e),
                          l[1] <= m[1], m[1] <= l[2], l[2] <= m[2] \/ m[2] < l[2]
                   PROVE  l = m
        BY <1>2, <1>3, <1>5
      <3>1. /\ l \in (1 .. Length) \X (1 .. Length) /\ m \in (1 .. Length) \X (1 .. Length)
            /\ l[1] <= l[2] /\ m[1] <= m[2]
            /\ Unbroken(l[1], l[2]) /\ l[2] + 1 \in breaks
            /\ Unbroken(m[1], m[2]) /\ m[2] + 1 \in breaks
            /\ s <= l[1]
            /\ m[1] = s \/ m[1] - 1 \in breaks
        BY <1>5
      <3>2. l[1] = m[1]
        BY <3>1, <1>2, LengthAssumption DEF Unbroken
      <3>3. l[2] = m[2]
        BY <3>1, LengthAssumption DEF Unbroken
      <3> QED
        BY <3>1, <3>2, <3>3
    <2>3. \A l, m \in Handled : l # m => l[2] < m[1] \/ m[2] < l[1]
      BY DEF FramingInv, OnceInOrder
    <2>4. \A l, m \in Handled' : l # m => l[2] < m[1] \/ m[2] < l[1]
      BY <1>2, <2>1, <2>2, <2>3
    <2> QED
      BY <1>2, <2>1, <2>4 DEF OnceInOrder
  <1>11. (\A p \in breaks : p < first => (\E l \in Handled : l[2] = p - 1) \/ Begins(p))'
    <2> SUFFICES ASSUME NEW p \in breaks, p < first'
                 PROVE  (\E l \in Handled' : l[2] = p - 1) \/ Begins(p)'
      BY <1>2
    <2>1. CASE p < first
      BY <2>1, <1>2 DEF FramingInv, Begins
    <2>2. CASE ~(p < first) /\ p < s
      BY <2>2, <1>2, <1>3, <1>4, LengthAssumption DEF Unbroken
    <2>3. CASE s <= p
      <3>1. p \in Int /\ p <= e /\ breaks \in SUBSET Int
        <4>1. p \in Int /\ first' <= e + 1
          BY <1>2, <1>3
        <4> QED
          BY <4>1, <1>3, <1>4
      <3>2. PICK a \in s .. p : (a = s \/ a - 1 \in breaks) /\ Unbroken(a, p - 1)
        BY <2>3, <3>1, LineStart
      <3>3. CASE a = p
        BY <3>2, <3>3, <1>2 DEF Begins
      <3>4. CASE a # p
        <4>1. a <= p - 1 /\ a \in s .. e /\ p - 1 \in s .. e
          BY <3>1, <3>2, <3>4
        <4>2. <<a, p - 1>> \in Lines(s, e)
          BY <3>1, <3>2, <4>1 DEF Lines
        <4> QED
          BY <4>2, <1>2
      <3> QED
        BY <3>3, <3>4
    <2> QED
      BY <2>1, <2>2, <2>3, <1>3, <1>4, LengthAssumption
  <1>12. LossBounded'
    <2> SUFFICES ASSUME NEW q \in (1 .. f - 1) \ breaks
                 PROVE  \/ \E l \in Handled' : l[1] <= q /\ q <= l[2]
                        \/ \E c \in cuts' : q < c /\ c <= next' /\ Unbroken(q, c - 1)
      BY <1>2, <1>f DEF LossBounded, Unbroken
    <2>1. CASE q < first
      BY <2>1, <1>2, <1>3, <1>4 DEF FramingInv, LossBounded
    <2>2. CASE first <= q /\ q < s
      BY <2>2, <1>2, <1>3, <1>4 DEF Unbroken
    <2>3. CASE s <= q
      <3>1. /\ q \in Int /\ q < f /\ f <= e + 1 /\ q \notin breaks
            /\ breaks \in SUBSET Int /\ f - 1 \in breaks
        BY <2>3, <1>3, <1>4, <1>g
      <3>2. PICK p \in breaks : q <= p /\ p <= f - 1 /\ Unbroken(q, p - 1)
        <4>1. f - 1 \in breaks /\ q <= f - 1
          BY <3>1
        <4> QED
          BY <3>1, <4>1, LineEnd
      <3>3. PICK a \in s .. q + 1 : (a = s \/ a - 1 \in breaks) /\ Unbroken(a, q)
        <4>1. s <= q + 1 /\ q + 1 \in Int /\ (q + 1) - 1 = q
          BY <2>3, <3>1, <1>4
        <4> QED
          BY <3>1, <4>1, LineStart
      <3>4. p \in Int /\ p <= e /\ q < p
        BY <3>1, <3>2, <1>4
      <3>5. a \in Int /\ s <= a /\ a <= q
        BY <3>1, <3>3, <2>3, <1>4
      <3>6. Unbroken(a, p - 1)
        BY <3>1, <3>2, <3>3, <3>4, <3>5 DEF Unbroken
      <3>7. a \in s .. e /\ p - 1 \in s .. e /\ a <= p - 1
        BY <2>3, <3>1, <3>4, <3>5, <1>4
      <3>8. <<a, p - 1>> \in Lines(s, e)
        BY <3>2, <3>3, <3>4, <3>6, <3>7 DEF Lines
      <3> QED
        BY <3>1, <3>4, <3>5, <3>8, <1>2
    <2> QED
      BY <2>1, <2>2, <2>3, <1>4, <1>f
  <1> QED
    BY <1>6, <1>7, <1>8, <1>9, <1>10, <1>11, <1>12 DEF FramingInv

\* FramingInv holds in every reachable state.
LEMMA FramingInvariant == FramingSpec => []FramingInv
  <1>1. FramingInit => FramingInv
    BY InitFraming
  <1>2. FramingInv /\ [FramingNext]_framingVars => FramingInv'
    BY NextFraming
  <1> QED
    BY <1>1, <1>2, PTL DEF FramingSpec

\* The buffer never holds more than fits, and never a complete line.
THEOREM FramingTypeCorrect == FramingSpec => []FramingTypeOK
  BY FramingInvariant, PTL DEF FramingInv

\* client_process_data hands on whole lines of the sender, however recv cuts
\* the stream, but for one that a cleared buffer makes start at the cut.
THEOREM LinesWhole == FramingSpec => []HandledWhole
  BY FramingInvariant, PTL DEF FramingInv

\* No line that was received to its end waits or is lost.
THEOREM LinesNotMissed == FramingSpec => []NoneMissed
  <1>1. FramingInv => NoneMissed
    BY LengthAssumption
       DEF FramingInv, FramingTypeOK, NoneMissed, Unbroken
  <1> QED
    BY <1>1, FramingInvariant, PTL

\* Each line is handled once, in the order of the stream.
THEOREM LinesOnceInOrder == FramingSpec => []OnceInOrder
  BY FramingInvariant, PTL DEF FramingInv

\* Clearing the buffer damages one line only.
THEOREM LossIsBounded == FramingSpec => []LossBounded
  BY FramingInvariant, PTL DEF FramingInv

\* Where the whole stream fits into the buffer, nothing is ever cut.
THEOREM ShortStreamWhole == FramingSpec => [](Length <= BUFFER_SIZE - 1 => cuts = {})
  <1> DEFINE Whole == Length <= BUFFER_SIZE - 1 => cuts = {}
  <1>1. FramingInit => Whole
    BY DEF FramingInit
  <1>2. FramingInv /\ Whole /\ [FramingNext]_framingVars => Whole'
    <2> SUFFICES ASSUME Length <= BUFFER_SIZE - 1, FramingInv, cuts = {}, FramingNext
                 PROVE  cuts' = {}
      BY DEF framingVars
    <2>1. PICK n \in Reads : client_process_data(n)
      BY DEF FramingNext
    <2>2. /\ n \in 1 .. BUFFER_SIZE - 1 /\ next + n - 1 <= Length
          /\ first \in 1 .. Length + 1 /\ next \in first .. Length + 1
      BY DEF Reads, FramingInv, FramingTypeOK
    <2>3. Start(n) = first
      BY <2>2, BufferAssumption, LengthAssumption DEF Start
    <2> QED
      BY <2>1, <2>3 DEF client_process_data
  <1> QED
    BY <1>1, <1>2, FramingInvariant, PTL DEF FramingSpec
=============================================================================
