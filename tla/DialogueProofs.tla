--------------------------- MODULE DialogueProofs ---------------------------
(***************************************************************************)
(* Proofs about Dialogue for any number of boxes, lines on their way,      *)
(* games, seats and rounds.  The queues appear in them by what is on them  *)
(* and by what stands before what; the first lemmas say how the operations *)
(* on sequences change that.                                               *)
(***************************************************************************)
EXTENDS Dialogue, SequenceTheorems, TLAPS

RoundTag == Nat \X Nat
SeatTag  == {<<s>> : s \in Nat}

\* Lines and boxes that are about a round, about a seat, and the others.
RoundKinds == {"submit", "SUBMIT", "READY_NEXT_ROUND", "GAME_START", "ROUND_END"}
SeatKinds  == {"leave", "away", "LEAVE_ROOM", "PLAYER_DISCONNECTED", "LEFT_ROOM"}
PlainKinds ==
    {"welcome", "back", "aborted", "lost", "LOGIN", "LIST_ROOMS", "SIT", "START", "LOGIN_OK",
     "RECONNECT_OK", "ROOM_LIST", "ROOM_STATUS", "ROOM_JOINED", "GAME_END", "WAIT_CONTINUE",
     "GAME_ABORTED"}

AnyLine == [cmd : RoundKinds \cup PlainKinds, tag : RoundTag] \cup [cmd : SeatKinds, tag : SeatTag]

On(q)           == {q[i] : i \in DOMAIN q}
Before(q, a, b) == \E i, j \in DOMAIN q : i < j /\ q[i] = a /\ q[j] = b
Has(q, kinds)   == \E l \in On(q) : l.cmd \in kinds

-----------------------------------------------------------------------------
\* What stands in an order is there.
LEMMA BeforeOn ==
    ASSUME NEW q, NEW a, NEW b, Before(q, a, b) PROVE a \in On(q) /\ b \in On(q)
BY DEF Before, On

\* Nothing is on an empty queue.
LEMMA OnEmpty ==
    ASSUME NEW q, q = <<>>
    PROVE  /\ q \in Seq(AnyLine)
           /\ On(q) = {}
           /\ \A a, b : ~Before(q, a, b)
BY DEF Before, On

\* A line at the end.
LEMMA AppendOn ==
    ASSUME NEW q \in Seq(AnyLine), NEW x \in AnyLine, NEW p, p = Append(q, x)
    PROVE  /\ p \in Seq(AnyLine)
           /\ On(p) = On(q) \cup {x}
           /\ \A a, b : Before(p, a, b) <=> Before(q, a, b) \/ (a \in On(q) /\ b = x)
<1>1. /\ p \in Seq(AnyLine) /\ DOMAIN p = 1 .. Len(q) + 1 /\ DOMAIN q = 1 .. Len(q)
      /\ \A i \in 1 .. Len(q) : p[i] = q[i]
      /\ p[Len(q) + 1] = x /\ Len(q) \in Nat
  BY AppendProperties, LenProperties
<1>2. On(p) = On(q) \cup {x}
  BY <1>1 DEF On
<1>3. ASSUME NEW a, NEW b
      PROVE  Before(p, a, b) <=> Before(q, a, b) \/ (a \in On(q) /\ b = x)
  BY <1>1 DEF Before, On
<1> QED BY <1>1, <1>2, <1>3

\* The first line is taken off.
LEMMA TailOn ==
    ASSUME NEW q \in Seq(AnyLine), q # <<>>, NEW p, p = Tail(q)
    PROVE  /\ p \in Seq(AnyLine) /\ Head(q) \in AnyLine
           /\ On(q) = On(p) \cup {Head(q)}
           /\ \A a, b : Before(q, a, b) <=> Before(p, a, b) \/ (a = Head(q) /\ b \in On(p))
<1>1. /\ p \in Seq(AnyLine) /\ Head(q) \in AnyLine /\ Len(q) \in Nat /\ Len(q) >= 1
      /\ DOMAIN q = 1 .. Len(q) /\ DOMAIN p = 1 .. Len(q) - 1
      /\ \A i \in 1 .. Len(q) - 1 : p[i] = q[i + 1]
      /\ Head(q) = q[1]
  BY HeadTailProperties, LenProperties
<1>2. On(q) = On(p) \cup {Head(q)}
  <2>1. ASSUME NEW i \in 1 .. Len(q) PROVE q[i] \in On(p) \cup {Head(q)}
    <3>1. CASE i = 1
      BY <3>1, <1>1
    <3>2. CASE i # 1
      <4>1. i - 1 \in 1 .. Len(q) - 1 /\ q[i] = p[i - 1]
        BY <3>2, <1>1
      <4> QED BY <4>1, <1>1 DEF On
    <3> QED BY <3>1, <3>2
  <2>2. ASSUME NEW i \in 1 .. Len(q) - 1 PROVE p[i] \in On(q)
    BY <1>1 DEF On
  <2>3. On(q) = {q[i] : i \in 1 .. Len(q)} /\ On(p) = {p[i] : i \in 1 .. Len(q) - 1}
    BY <1>1 DEF On
  <2>4. Head(q) \in On(q)
    BY <1>1, <2>3
  <2>5. On(p) \subseteq On(q)
    BY <2>2, <2>3
  <2>6. On(q) \subseteq On(p) \cup {Head(q)}
    BY <2>1, <2>3
  <2> QED BY <2>4, <2>5, <2>6
<1>3. ASSUME NEW a, NEW b
      PROVE  Before(q, a, b) <=> Before(p, a, b) \/ (a = Head(q) /\ b \in On(p))
  <2>1. ASSUME Before(q, a, b) PROVE Before(p, a, b) \/ (a = Head(q) /\ b \in On(p))
    <3>1. PICK i, j \in 1 .. Len(q) : i < j /\ q[i] = a /\ q[j] = b
      BY <2>1, <1>1 DEF Before
    <3>2. j - 1 \in 1 .. Len(q) - 1 /\ p[j - 1] = b
      BY <3>1, <1>1
    <3>3. CASE i = 1
      BY <3>1, <3>2, <3>3, <1>1 DEF On
    <3>4. CASE i # 1
      <4>1. i - 1 \in 1 .. Len(q) - 1 /\ p[i - 1] = a /\ i - 1 < j - 1
        BY <3>1, <3>4, <1>1
      <4> QED BY <4>1, <3>2, <1>1 DEF Before
    <3> QED BY <3>3, <3>4
  <2>2. ASSUME Before(p, a, b) PROVE Before(q, a, b)
    <3>1. PICK i, j \in 1 .. Len(q) - 1 : i < j /\ p[i] = a /\ p[j] = b
      BY <2>2, <1>1 DEF Before
    <3>2. i + 1 \in 1 .. Len(q) /\ j + 1 \in 1 .. Len(q) /\ i + 1 < j + 1
          /\ q[i + 1] = a /\ q[j + 1] = b
      BY <3>1, <1>1
    <3> QED BY <3>2, <1>1 DEF Before
  <2>3. ASSUME a = Head(q), b \in On(p) PROVE Before(q, a, b)
    <3>1. PICK j \in 1 .. Len(q) - 1 : p[j] = b
      BY <2>3, <1>1 DEF On
    <3>2. 1 \in 1 .. Len(q) /\ j + 1 \in 1 .. Len(q) /\ 1 < j + 1
          /\ q[1] = a /\ q[j + 1] = b
      BY <3>1, <2>3, <1>1
    <3> QED BY <3>2, <1>1 DEF Before
  <2> QED BY <2>1, <2>2, <2>3
<1> QED BY <1>1, <1>2, <1>3

\* Only the first lines are left.
LEMMA PrefixOn ==
    ASSUME NEW q \in Seq(AnyLine), NEW p \in Beginnings(q)
    PROVE  /\ p \in Seq(AnyLine)
           /\ On(p) \subseteq On(q)
           /\ \A a, b : Before(p, a, b) => Before(q, a, b)
<1>1. PICK n \in 0 .. Len(q) : p = SubSeq(q, 1, n)
  BY DEF Beginnings
<1>2. Len(q) \in Nat /\ DOMAIN q = 1 .. Len(q) /\ \A i \in 1 .. n : q[i] \in AnyLine
  BY LenProperties, ElementOfSeq
<1>3. /\ p \in Seq(AnyLine) /\ Len(p) = n
      /\ \A i \in 1 .. n : p[i] = q[i]
  BY <1>1, <1>2, SubSeqProperties
<1>4. DOMAIN p = 1 .. n /\ n <= Len(q)
  BY <1>3, <1>2, LenProperties
<1>5. ASSUME NEW a, NEW b, Before(p, a, b) PROVE Before(q, a, b)
  BY <1>2, <1>3, <1>4, <1>5 DEF Before
<1> QED BY <1>2, <1>3, <1>4, <1>5 DEF On

\* Several lines at the end.
LEMMA ConcatOn ==
    ASSUME NEW q \in Seq(AnyLine), NEW s \in Seq(AnyLine), NEW p, p = q \o s
    PROVE  /\ p \in Seq(AnyLine)
           /\ On(p) = On(q) \cup On(s)
           /\ \A a, b : Before(p, a, b) <=> \/ Before(q, a, b)
                                            \/ a \in On(q) /\ b \in On(s)
                                            \/ Before(s, a, b)
<1>1. /\ p \in Seq(AnyLine) /\ Len(q) \in Nat /\ Len(s) \in Nat
      /\ DOMAIN p = 1 .. Len(q) + Len(s) /\ DOMAIN q = 1 .. Len(q) /\ DOMAIN s = 1 .. Len(s)
      /\ \A i \in 1 .. Len(q) : p[i] = q[i]
      /\ \A i \in 1 .. Len(s) : p[Len(q) + i] = s[i]
  BY ConcatProperties, LenProperties
<1>2. On(p) = On(q) \cup On(s)
  <2>1. ASSUME NEW i \in 1 .. Len(q) + Len(s), ~(i <= Len(q)) PROVE p[i] \in On(s)
    <3>1. i - Len(q) \in 1 .. Len(s) /\ p[i] = s[i - Len(q)]
      BY <2>1, <1>1
    <3> QED BY <3>1, <1>1 DEF On
  <2>2. ASSUME NEW i \in 1 .. Len(s) PROVE s[i] \in On(p)
    <3>1. Len(q) + i \in 1 .. Len(q) + Len(s) /\ p[Len(q) + i] = s[i]
      BY <1>1
    <3> QED BY <3>1, <1>1 DEF On
  <2>3. ASSUME NEW i \in 1 .. Len(q) + Len(s), i <= Len(q) PROVE p[i] \in On(q)
    <3>1. i \in 1 .. Len(q)
      BY <2>3, <1>1
    <3> QED BY <3>1, <1>1 DEF On
  <2>4. ASSUME NEW i \in 1 .. Len(q) PROVE q[i] \in On(p)
    <3>1. i \in 1 .. Len(q) + Len(s) /\ p[i] = q[i]
      BY <1>1
    <3> QED BY <3>1, <1>1 DEF On
  <2>5. On(p) \subseteq On(q) \cup On(s)
    <3> SUFFICES ASSUME NEW i \in 1 .. Len(q) + Len(s) PROVE p[i] \in On(q) \cup On(s)
      BY <1>1 DEF On
    <3> QED BY <2>1, <2>3
  <2>6. On(q) \subseteq On(p) /\ On(s) \subseteq On(p)
    <3>1. ASSUME NEW l \in On(q) PROVE l \in On(p)
      <4>1. PICK i \in 1 .. Len(q) : l = q[i]
        BY <1>1 DEF On
      <4> QED BY <4>1, <2>4
    <3>2. ASSUME NEW l \in On(s) PROVE l \in On(p)
      <4>1. PICK i \in 1 .. Len(s) : l = s[i]
        BY <1>1 DEF On
      <4> QED BY <4>1, <2>2
    <3> QED BY <3>1, <3>2
  <2> QED BY <2>5, <2>6
<1>3. ASSUME NEW a, NEW b, Before(p, a, b)
      PROVE  Before(q, a, b) \/ (a \in On(q) /\ b \in On(s)) \/ Before(s, a, b)
  <2>0. PICK i, j \in DOMAIN p : i < j /\ p[i] = a /\ p[j] = b
    BY <1>3 DEF Before
  <2>1. /\ i \in 1 .. Len(q) + Len(s) /\ j \in 1 .. Len(q) + Len(s)
        /\ i < j /\ p[i] = a /\ p[j] = b
    BY <2>0, <1>1
  <2>2. CASE j <= Len(q)
    BY <2>1, <2>2, <1>1 DEF Before
  <2>3. CASE ~(j <= Len(q))
    <3>1. j - Len(q) \in 1 .. Len(s) /\ s[j - Len(q)] = b
      BY <2>1, <2>3, <1>1
    <3>2. CASE i <= Len(q)
      <4>1. i \in 1 .. Len(q) /\ q[i] = a
        BY <2>1, <3>2, <1>1
      <4>2. a \in On(q) /\ b \in On(s)
        BY <4>1, <3>1, <1>1 DEF On
      <4> QED BY <4>2
    <3>3. CASE ~(i <= Len(q))
      <4>1. i - Len(q) \in 1 .. Len(s) /\ s[i - Len(q)] = a /\ i - Len(q) < j - Len(q)
        BY <2>1, <3>3, <1>1
      <4> QED BY <4>1, <3>1, <1>1 DEF Before
    <3> QED BY <3>2, <3>3
  <2> QED BY <2>2, <2>3
<1>4. ASSUME NEW a, NEW b, Before(s, a, b) PROVE Before(p, a, b)
  <2>1. PICK i, j \in 1 .. Len(s) : i < j /\ s[i] = a /\ s[j] = b
    BY <1>1, <1>4 DEF Before
  <2>2. /\ Len(q) + i \in 1 .. Len(q) + Len(s) /\ Len(q) + j \in 1 .. Len(q) + Len(s)
        /\ Len(q) + i < Len(q) + j /\ p[Len(q) + i] = a /\ p[Len(q) + j] = b
    BY <2>1, <1>1
  <2> QED BY <2>2, <1>1 DEF Before
<1>5. ASSUME NEW a \in On(q), NEW b \in On(s) PROVE Before(p, a, b)
  <2>1. PICK i \in 1 .. Len(q), j \in 1 .. Len(s) : q[i] = a /\ s[j] = b
    BY <1>1 DEF On
  <2>2. /\ i \in 1 .. Len(q) + Len(s) /\ Len(q) + j \in 1 .. Len(q) + Len(s)
        /\ i < Len(q) + j /\ p[i] = a /\ p[Len(q) + j] = b
    BY <2>1, <1>1
  <2> QED BY <2>2, <1>1 DEF Before
<1>6. ASSUME NEW a, NEW b, Before(q, a, b) PROVE Before(p, a, b)
  BY <1>1, <1>6 DEF Before
<1> QED BY <1>1, <1>2, <1>3, <1>4, <1>5, <1>6

\* One, two or three lines.
LEMMA OneLine ==
    ASSUME NEW x \in AnyLine, NEW s, s = <<x>>
    PROVE  s \in Seq(AnyLine) /\ On(s) = {x} /\ \A a, b : ~Before(s, a, b)
<1>1. Len(s) = 1 /\ DOMAIN s = 1 .. 1 /\ s[1] = x
  OBVIOUS
<1>2. s \in [1 .. 1 -> AnyLine]
  BY <1>1
<1> QED BY <1>1, <1>2, SeqDef DEF On, Before

\* Two lines, the first before the second.
LEMMA TwoLines ==
    ASSUME NEW x \in AnyLine, NEW y \in AnyLine, NEW s, s = <<x, y>>
    PROVE  /\ s \in Seq(AnyLine)
           /\ On(s) = {x, y}
           /\ \A a, b : Before(s, a, b) <=> a = x /\ b = y
<1>1. Len(s) = 2 /\ DOMAIN s = 1 .. 2 /\ s[1] = x /\ s[2] = y
  OBVIOUS
<1>2. \A i \in 1 .. 2 : i = 1 \/ i = 2
  OBVIOUS
<1>3. s \in [1 .. 2 -> AnyLine]
  BY <1>1, <1>2
<1> QED BY <1>1, <1>2, <1>3, SeqDef DEF On, Before

\* Three lines.
LEMMA ThreeLines ==
    ASSUME NEW x \in AnyLine, NEW y \in AnyLine, NEW z \in AnyLine, NEW s, s = <<x, y, z>>
    PROVE  /\ s \in Seq(AnyLine)
           /\ On(s) = {x, y, z}
           /\ \A a, b : Before(s, a, b) <=> (a = x /\ b \in {y, z}) \/ (a = y /\ b = z)
<1>1. Len(s) = 3 /\ DOMAIN s = 1 .. 3 /\ s[1] = x /\ s[2] = y /\ s[3] = z
  OBVIOUS
<1>2. \A i \in 1 .. 3 : i = 1 \/ i = 2 \/ i = 3
  OBVIOUS
<1>3. s \in [1 .. 3 -> AnyLine]
  BY <1>1, <1>2
<1>4. On(s) = {x, y, z}
  BY <1>1, <1>2 DEF On
<1>5. ASSUME NEW a, NEW b
      PROVE  Before(s, a, b) <=> (a = x /\ b \in {y, z}) \/ (a = y /\ b = z)
  BY <1>1, <1>2 DEF Before
<1> QED BY <1>1, <1>3, <1>4, <1>5, SeqDef

\* A line that comes first in some cases only.
LEMMA PerhapsFirst ==
    ASSUME NEW x \in AnyLine, NEW s \in Seq(AnyLine), NEW t \in BOOLEAN, NEW w,
           t => w = <<x>> \o s, ~t => w = <<>> \o s
    PROVE  /\ w \in Seq(AnyLine)
           /\ \A l : l \in On(w) <=> l \in On(s) \/ (t /\ l = x)
           /\ \A a, b : Before(w, a, b) <=> Before(s, a, b) \/ (t /\ a = x /\ b \in On(s))
<1>1. CASE t
  <2>1. PICK u : u = <<x>>
    OBVIOUS
  <2>2. u \in Seq(AnyLine) /\ On(u) = {x} /\ \A a, b : ~Before(u, a, b)
    BY <2>1, OneLine
  <2>3. w = u \o s
    BY <1>1, <2>1
  <2>4. /\ w \in Seq(AnyLine)
        /\ On(w) = On(u) \cup On(s)
        /\ \A a, b : Before(w, a, b) <=> \/ Before(u, a, b)
                                         \/ a \in On(u) /\ b \in On(s)
                                         \/ Before(s, a, b)
    BY <2>2, <2>3, ConcatOn
  <2> QED BY <1>1, <2>2, <2>4
<1>2. CASE ~t
  <2>1. w = s
    BY <1>2, ConcatProperties, EmptySeq
  <2> QED BY <1>2, <2>1
<1> QED BY <1>1, <1>2

-----------------------------------------------------------------------------
(***************************************************************************)
(* What the operations of Dialogue do to the queues.                       *)
(***************************************************************************)

QueuesOK == {toServer, toClient, boxes} \subseteq Seq(AnyLine)

\* The lines that are made are lines, and have the tag that belongs to them.
LEMMA MadeLine ==
    ASSUME NEW c, NEW t,
           \/ t \in RoundTag /\ (c \in PlainKinds \/ c \in RoundKinds)
           \/ t \in SeatTag /\ c \in SeatKinds
    PROVE  Line(c, t) \in AnyLine /\ Line(c, t).cmd = c /\ Line(c, t).tag = t
BY DEF AnyLine, Line

\* The kind of a line tells what its tag is.
LEMMA TagOf ==
    ASSUME NEW l \in AnyLine
    PROVE  /\ l.cmd \in RoundKinds \cup PlainKinds => l.tag \in RoundTag
           /\ l.cmd \in SeatKinds => l.tag \in SeatTag
BY DEF AnyLine, RoundKinds, PlainKinds, SeatKinds

\* A line of the server is read.
LEMMA Heard ==
    ASSUME QueuesOK, NEW cmd, Reads(cmd)
    PROVE  \E h \in AnyLine :
              /\ h = Head(toClient) /\ h.cmd = cmd /\ h.tag = LineTag
              /\ toClient' \in Seq(AnyLine)
              /\ On(toClient) = On(toClient') \cup {h}
              /\ \A a, b : Before(toClient, a, b) <=> \/ Before(toClient', a, b)
                                                      \/ a = h /\ b \in On(toClient')
<1>1. toClient \in Seq(AnyLine) /\ toClient # <<>> /\ toClient' = Tail(toClient)
  BY DEF Reads, QueuesOK
<1>2. PICK h, p : h = Head(toClient) /\ p = Tail(toClient)
  OBVIOUS
<1>3. h.cmd = cmd /\ h.tag = LineTag /\ toClient' = p
  BY <1>1, <1>2 DEF Reads, LineTag
<1>4. /\ p \in Seq(AnyLine) /\ h \in AnyLine /\ On(toClient) = On(p) \cup {h}
      /\ \A a, b : Before(toClient, a, b) <=> Before(p, a, b) \/ (a = h /\ b \in On(p))
  BY <1>1, <1>2, TailOn
<1> QED BY <1>2, <1>3, <1>4

\* A line of the client is handled.
LEMMA Taken ==
    ASSUME QueuesOK, NEW cmd, Serve(cmd)
    PROVE  \E h \in AnyLine :
              /\ h = Head(toServer) /\ h.cmd = cmd /\ h.tag = ToldTag
              /\ toServer' \in Seq(AnyLine)
              /\ On(toServer) = On(toServer') \cup {h}
              /\ \A a, b : Before(toServer, a, b) <=> \/ Before(toServer', a, b)
                                                      \/ a = h /\ b \in On(toServer')
<1>1. toServer \in Seq(AnyLine) /\ toServer # <<>> /\ toServer' = Tail(toServer)
  BY DEF Serve, QueuesOK
<1>2. PICK h, p : h = Head(toServer) /\ p = Tail(toServer)
  OBVIOUS
<1>3. h.cmd = cmd /\ h.tag = ToldTag /\ toServer' = p
  BY <1>1, <1>2 DEF Serve, ToldTag
<1>4. /\ p \in Seq(AnyLine) /\ h \in AnyLine /\ On(toServer) = On(p) \cup {h}
      /\ \A a, b : Before(toServer, a, b) <=> Before(p, a, b) \/ (a = h /\ b \in On(p))
  BY <1>1, <1>2, TailOn
<1> QED BY <1>2, <1>3, <1>4

\* A line is sent to the server, or dropped without a connection.
LEMMA Sent ==
    ASSUME QueuesOK, NEW cmd, NEW tag, Line(cmd, tag) \in AnyLine, sendCommand(cmd, tag)
    PROVE  /\ toServer' \in Seq(AnyLine)
           /\ ~(isConnected /\ conn = "up") => toServer' = toServer
           /\ isConnected /\ conn = "up" =>
                /\ On(toServer') = On(toServer) \cup {Line(cmd, tag)}
                /\ \A a, b : Before(toServer', a, b) <=>
                               \/ Before(toServer, a, b)
                               \/ a \in On(toServer) /\ b = Line(cmd, tag)
<1>1. PICK x \in AnyLine : x = Line(cmd, tag)
  OBVIOUS
<1>2. PICK p : p = Append(toServer, x)
  OBVIOUS
<1>3. toServer \in Seq(AnyLine)
  BY DEF QueuesOK
<1>4. /\ p \in Seq(AnyLine) /\ On(p) = On(toServer) \cup {x}
      /\ \A a, b : Before(p, a, b) <=> Before(toServer, a, b) \/ (a \in On(toServer) /\ b = x)
  BY <1>2, <1>3, AppendOn
<1>5. toServer' = IF isConnected /\ conn = "up" THEN p ELSE toServer
  BY <1>1, <1>2 DEF sendCommand
<1> QED BY <1>1, <1>3, <1>4, <1>5

\* A box is opened, or the newest one closed.
LEMMA Opened ==
    ASSUME QueuesOK, NEW kind, NEW tag, Line(kind, tag) \in AnyLine, Open(kind, tag)
    PROVE  /\ boxes' \in Seq(AnyLine) /\ boxes' # <<>>
           /\ On(boxes') = On(boxes) \cup {Line(kind, tag)}
<1>1. PICK x \in AnyLine : x = Line(kind, tag)
  OBVIOUS
<1>2. boxes \in Seq(AnyLine) /\ boxes' = Append(boxes, x)
  BY <1>1 DEF Open, QueuesOK
<1>3. boxes' \in Seq(AnyLine) /\ On(boxes') = On(boxes) \cup {x}
  BY <1>2, AppendOn
<1>4. boxes' # <<>>
  BY <1>2, AppendProperties
<1> QED BY <1>1, <1>3, <1>4

\* The newest box is closed, the others stay.
LEMMA Closed ==
    ASSUME QueuesOK, NEW kinds, Closes(kinds)
    PROVE  /\ boxes' \in Seq(AnyLine)
           /\ \E b \in AnyLine : /\ b = boxes[Len(boxes)] /\ b.cmd \in kinds
                                 /\ On(boxes) = On(boxes') \cup {b}
<1>1. /\ boxes \in Seq(AnyLine) /\ boxes # <<>>
      /\ boxes' = SubSeq(boxes, 1, Len(boxes) - 1)
      /\ boxes[Len(boxes)].cmd \in kinds
  BY DEF Closes, QueuesOK
<1>2. PICK n \in Nat : n = Len(boxes)
  BY <1>1, LenProperties
<1>3. n >= 1 /\ DOMAIN boxes = 1 .. n /\ \A i \in 1 .. n : boxes[i] \in AnyLine
  BY <1>1, <1>2, LenProperties, EmptySeq, ElementOfSeq
<1>4. /\ boxes' \in Seq(AnyLine) /\ DOMAIN boxes' = 1 .. n - 1
      /\ \A i \in 1 .. n - 1 : boxes'[i] = boxes[i]
  <2>1. boxes' = SubSeq(boxes, 1, n - 1) /\ 1 \in Int /\ n - 1 \in Int
    BY <1>1, <1>2
  <2>2. \A i \in 1 .. n - 1 : boxes[i] \in AnyLine
    BY <1>3, <1>2
  <2>3. /\ boxes' \in Seq(AnyLine) /\ Len(boxes') = n - 1
        /\ \A i \in 1 .. n - 1 : boxes'[i] = boxes[i]
    BY <2>1, <2>2, <1>2, <1>3, SubSeqProperties
  <2> QED BY <2>3, LenProperties
<1>5. On(boxes) = On(boxes') \cup {boxes[n]}
  <2>1. ASSUME NEW i \in 1 .. n PROVE boxes[i] \in On(boxes') \cup {boxes[n]}
    <3>1. CASE i = n
      BY <3>1
    <3>2. CASE i # n
      <4>1. i \in 1 .. n - 1
        BY <3>2, <1>2
      <4>2. boxes'[i] = boxes[i] /\ boxes'[i] \in On(boxes')
        BY <4>1, <1>4 DEF On
      <4> QED BY <4>2
    <3> QED BY <3>1, <3>2
  <2>2. ASSUME NEW i \in 1 .. n - 1 PROVE boxes'[i] \in On(boxes)
    <3>1. i \in 1 .. n /\ boxes'[i] = boxes[i]
      BY <1>2, <1>4
    <3> QED BY <3>1, <1>3 DEF On
  <2>3. boxes[n] \in On(boxes)
    BY <1>2, <1>3 DEF On
  <2>4. On(boxes) \subseteq On(boxes') \cup {boxes[n]}
    <3> SUFFICES ASSUME NEW i \in 1 .. n PROVE boxes[i] \in On(boxes') \cup {boxes[n]}
      BY <1>3 DEF On
    <3> QED BY <2>1
  <2>5. On(boxes') \subseteq On(boxes)
    <3> SUFFICES ASSUME NEW i \in 1 .. n - 1 PROVE boxes'[i] \in On(boxes)
      BY <1>4 DEF On
    <3> QED BY <2>2
  <2> QED BY <2>3, <2>4, <2>5
<1> QED BY <1>1, <1>2, <1>3, <1>4, <1>5

\* Lines are sent to the client.
LEMMA Replied ==
    ASSUME QueuesOK, NEW s \in Seq(AnyLine), Reply(s)
    PROVE  /\ toClient' \in Seq(AnyLine)
           /\ conn # "up" => toClient' = toClient
           /\ conn = "up" =>
                /\ On(toClient') = On(toClient) \cup On(s)
                /\ \A a, b : Before(toClient', a, b) <=> \/ Before(toClient, a, b)
                                                         \/ a \in On(toClient) /\ b \in On(s)
                                                         \/ Before(s, a, b)
<1>1. toClient \in Seq(AnyLine) /\ toClient' = IF conn = "up" THEN toClient \o s ELSE toClient
  BY DEF Reply, QueuesOK
<1>2. CASE conn = "up"
  BY <1>1, <1>2, ConcatOn
<1>3. CASE conn # "up"
  BY <1>1, <1>3
<1> QED BY <1>2, <1>3

-----------------------------------------------------------------------------
(***************************************************************************)
(* What the steps of the session do, field by field.                       *)
(***************************************************************************)

\* A connection belongs to a session only while there is one.  A game is in a
\* round exactly while it is played, who plays or strays has a seat, and votes
\* are there only while the room waits for them.
SessionOK ==
    /\ me \in Session
    /\ me.online => me.place # "out"
    /\ me.playing <=> me.round # 0
    /\ me.playing \/ me.stray => me.place = "room"
    /\ me.voted => me.waiting

\* Everything but the named fields stays.
LEMMA EnterFields ==
    ASSUME SessionOK, Enter
    PROVE  /\ SessionOK' /\ me.place = "out"
           /\ me'.place = "lobby" /\ me'.online /\ ~me'.stray /\ ~me'.playing /\ ~me'.waiting
BY RoundsAssumption DEF SessionOK, Session, Enter, InLobby, NoSession

\* LOGIN once more moves nobody; at a seat the state becomes that of the lobby.
LEMMA AgainFields ==
    ASSUME SessionOK, Again
    PROVE  /\ SessionOK' /\ me.place # "out"
           /\ me'.place = me.place /\ me'.online /\ me'.stray = (me.place = "room")
           /\ me'.playing = me.playing /\ me'.round = me.round
           /\ me'.waiting = me.waiting /\ me'.voted = me.voted
BY DEF SessionOK, Session, Again

\* A session that is cut off keeps its seat, game and vote.
LEMMA CutFields ==
    ASSUME SessionOK, Cut
    PROVE  /\ SessionOK' /\ me.place # "out"
           /\ me'.place = me.place /\ me'.stray = me.stray
           /\ me'.playing = me.playing /\ me'.round = me.round
           /\ me'.waiting = me.waiting /\ me'.voted = me.voted
BY DEF SessionOK, Session, Cut

\* So does one that is resumed.
LEMMA ResumeFields ==
    ASSUME SessionOK, Resume
    PROVE  /\ SessionOK' /\ me.place # "out"
           /\ me'.place = me.place /\ me'.online /\ me'.stray = me.stray
           /\ me'.playing = me.playing /\ me'.round = me.round
           /\ me'.waiting = me.waiting /\ me'.voted = me.voted
BY DEF SessionOK, Session, Resume

\* A session that is given up is gone.
LEMMA GiveUpFields ==
    ASSUME SessionOK, GiveUp
    PROVE  /\ SessionOK' /\ me'.place = "out" /\ ~me'.stray /\ ~me'.playing
BY RoundsAssumption DEF SessionOK, Session, GiveUp, NoSession

\* Who sits down does not play yet.
LEMMA SitFields ==
    ASSUME SessionOK, Sit
    PROVE  /\ SessionOK' /\ me.place = "lobby"
           /\ me'.place = "room" /\ me'.online = me.online /\ ~me'.stray /\ ~me'.playing
BY DEF SessionOK, Session, Sit

\* Who rises is in the lobby, without a vote.
LEMMA RiseFields ==
    ASSUME SessionOK, Rise
    PROVE  /\ SessionOK' /\ me.place = "room"
           /\ me'.place = "lobby" /\ me'.online /\ ~me'.stray /\ ~me'.playing /\ ~me'.waiting
<1> DEFINE none == NoSession
<1>0. none \in Session
  BY RoundsAssumption DEF Session, NoSession
<1> HIDE DEF none
<1>1. PICK n \in Session : n = none
  BY <1>0
<1>2. ~n.stray /\ ~n.playing /\ ~n.waiting /\ n.round = 0 /\ ~n.voted
  BY <1>1 DEF NoSession, none
<1>3. me' = [n EXCEPT !.place = "lobby", !.online = TRUE]
  BY <1>1 DEF Rise, InLobby, none
<1>4. /\ me' \in Session /\ me.place = "room"
      /\ me'.place = "lobby" /\ me'.online /\ ~me'.stray /\ ~me'.playing /\ ~me'.waiting
      /\ me'.round = 0 /\ ~me'.voted
  BY <1>2, <1>3 DEF Session, Rise
<1> QED BY <1>4 DEF SessionOK

\* A round starts without votes, and with the state of the seat overwritten.
LEMMA StartFields ==
    ASSUME SessionOK, NEW n \in 1 .. ROUNDS, Starts(n), me.place = "room"
    PROVE  /\ SessionOK' /\ me'.place = "room" /\ me'.online = me.online
           /\ me'.playing /\ me'.round = n /\ ~me'.waiting /\ ~me'.voted /\ ~me'.stray
<1>1. me \in Session /\ n \in 0 .. ROUNDS /\ n # 0
  BY RoundsAssumption DEF SessionOK
<1>2. me' \in Session
  BY <1>1 DEF Session, Starts
<1>3. /\ me'.place = "room" /\ me'.online = me.online
      /\ me'.playing /\ me'.round = n /\ ~me'.waiting /\ ~me'.voted /\ ~me'.stray
  BY <1>1 DEF Session, Starts
<1> QED BY <1>1, <1>2, <1>3 DEF SessionOK

\* A game begins with its first round.
LEMMA BeginFields ==
    ASSUME SessionOK, Begin
    PROVE  /\ SessionOK' /\ me.place = "room" /\ ~me.playing
           /\ me'.place = "room" /\ me'.online = me.online
           /\ me'.playing /\ me'.round = 1 /\ ~me'.waiting /\ ~me'.voted /\ ~me'.stray
<1>1. 1 \in 1 .. ROUNDS
  BY RoundsAssumption
<1> QED BY <1>1, StartFields DEF Begin

\* It proceeds to the next one.
LEMMA ProceedFields ==
    ASSUME SessionOK, Proceed
    PROVE  /\ SessionOK' /\ me.place = "room" /\ me.playing /\ me.waiting
           /\ me'.place = "room" /\ me'.online = me.online
           /\ me'.playing /\ me'.round = me.round + 1
           /\ ~me'.waiting /\ ~me'.voted /\ ~me'.stray
<1>1. me.round + 1 \in 1 .. ROUNDS /\ me.place = "room"
  BY RoundsAssumption DEF Proceed, SessionOK, Session
<1> QED BY <1>1, StartFields DEF Proceed

\* An answer changes nothing of this.
LEMMA AnswerFields ==
    ASSUME SessionOK, Answer
    PROVE  /\ SessionOK'
           /\ me'.place = me.place /\ me'.online = me.online /\ me'.stray = me.stray
           /\ me'.playing = me.playing /\ me'.round = me.round
           /\ me'.waiting = me.waiting /\ me'.voted = me.voted
BY DEF SessionOK, Session, Answer

\* A round that is won waits for votes, of which none is in.
LEMMA WinFields ==
    ASSUME SessionOK, Win
    PROVE  /\ SessionOK' /\ me.playing /\ ~me.waiting
           /\ me'.place = me.place /\ me'.online = me.online /\ me'.stray = me.stray
           /\ me'.playing /\ me'.round = me.round /\ me'.waiting /\ ~me'.voted
BY DEF SessionOK, Session, Win

\* The game ends; whether the room waits and who voted is left as it was.
LEMMA OverFields ==
    ASSUME SessionOK, Over
    PROVE  /\ SessionOK' /\ me.playing
           /\ me'.place = me.place /\ me'.online = me.online /\ ~me'.stray /\ ~me'.playing
           /\ me'.waiting = me.waiting /\ me'.voted = me.voted
<1>1. me \in Session /\ 0 \in 0 .. ROUNDS
  BY RoundsAssumption DEF SessionOK
<1>2. me' \in Session
  BY <1>1 DEF Session, Over
<1>3. /\ me.playing /\ me'.round = 0
      /\ me'.place = me.place /\ me'.online = me.online /\ ~me'.stray /\ ~me'.playing
      /\ me'.waiting = me.waiting /\ me'.voted = me.voted
  BY <1>1 DEF Session, Over
<1> QED BY <1>2, <1>3 DEF SessionOK

\* A vote is given once.
LEMMA VoteFields ==
    ASSUME SessionOK, Vote
    PROVE  /\ SessionOK' /\ me.waiting /\ ~me.voted
           /\ me'.place = me.place /\ me'.online = me.online /\ me'.stray = me.stray
           /\ me'.playing = me.playing /\ me'.round = me.round
           /\ me'.waiting /\ me'.voted
BY DEF SessionOK, Session, Vote
-----------------------------------------------------------------------------
(***************************************************************************)
(* The shape of the state.                                                 *)
(***************************************************************************)

ClientOK ==
    /\ QueuesOK
    /\ conn \in {"none", "up", "eof", "rst"}
    /\ conn = "none" => toClient = <<>>
    /\ isConnected \in BOOLEAN /\ isReconnecting \in BOOLEAN
    /\ screen \in Screens /\ shown \in RoundTag

RecordOK ==
    /\ game \in Nat /\ seat \in Nat
    /\ attached \in BOOLEAN /\ resumed \in BOOLEAN
    /\ outOfTurn \in BOOLEAN /\ misled \in BOOLEAN
    /\ attached => me.online

ShapeInv == ClientOK /\ SessionOK /\ RecordOK

\* Every line that a slot of the client reads leaves the client in shape.
LEMMA ReadsOK ==
    ASSUME ClientOK, HandleLine
    PROVE  ClientOK'
<1> USE DEF ClientOK
<1>0. NoRound \in RoundTag
  BY DEF NoRound, RoundTag
<1>1. ASSUME NEW cmd, Reads(cmd)
      PROVE  /\ toClient' \in Seq(AnyLine) /\ conn # "none"
             /\ cmd \in RoundKinds => LineTag \in RoundTag
             /\ cmd \in SeatKinds => LineTag \in SeatTag
  BY <1>1, Heard, TagOf DEF Reads
<1>2. ASSUME NEW kind, NEW tag, Open(kind, tag), Line(kind, tag) \in AnyLine
      PROVE  boxes' \in Seq(AnyLine)
  BY <1>2, Opened
<1>3. ASSUME transitionToLobby
      PROVE  toServer' \in Seq(AnyLine) /\ screen' \in Screens /\ shown' \in RoundTag
  <2>1. Line("LIST_ROOMS", NoRound) \in AnyLine
    BY <1>0, MadeLine DEF PlainKinds
  <2> QED BY <1>0, <1>3, <2>1, Sent DEF transitionToLobby, Show, Screens
<1>4. CASE onLoginSuccessful
  <2>1. Line("welcome", NoRound) \in AnyLine
    BY <1>0, MadeLine DEF PlainKinds
  <2> QED BY <1>1, <1>2, <1>4, <2>1 DEF onLoginSuccessful, QueuesOK
<1>5. CASE onReconnectSuccessful
  <2>1. Line("back", NoRound) \in AnyLine
    BY <1>0, MadeLine DEF PlainKinds
  <2> QED BY <1>1, <1>2, <1>5, <2>1 DEF onReconnectSuccessful, QueuesOK
<1>6. CASE onRoomListReceived
  BY <1>1, <1>3, <1>6 DEF onRoomListReceived, QueuesOK
<1>7. CASE onRoomStatusUpdated
  BY <1>0, <1>1, <1>7 DEF onRoomStatusUpdated, QueuesOK, Show, Screens
<1>8. CASE onRoomJoined
  BY <1>0, <1>1, <1>8 DEF onRoomJoined, QueuesOK, Show, Screens
<1>9. CASE onLeftRoom
  BY <1>1, <1>3, <1>9 DEF onLeftRoom, QueuesOK
<1>10. CASE onGameStarted
  BY <1>1, <1>10 DEF onGameStarted, QueuesOK, Show, Screens, RoundKinds
<1>11. CASE onGameEnded
  BY <1>0, <1>1, <1>11 DEF onGameEnded, QueuesOK, Show, Screens
<1>12. CASE onRoundEnded
  BY <1>1, <1>12 DEF onRoundEnded, QueuesOK, Show, Screens, RoundKinds
<1>13. CASE onWaitingForContinue
  BY <1>0, <1>1, <1>13 DEF onWaitingForContinue, QueuesOK, Show, Screens
<1>14. CASE onGameAborted
  <2>1. Line("aborted", NoRound) \in AnyLine
    BY <1>0, MadeLine DEF PlainKinds
  <2> QED BY <1>1, <1>2, <1>14, <2>1 DEF onGameAborted, QueuesOK
<1>15. CASE onPlayerDisconnected
  <2>1. LineTag \in SeatTag
    BY <1>1, <1>15 DEF onPlayerDisconnected, SeatKinds
  <2>2. Line("away", LineTag) \in AnyLine
    BY <2>1, MadeLine DEF SeatKinds
  <2> QED BY <1>1, <1>2, <1>15, <2>2 DEF onPlayerDisconnected, QueuesOK
<1>16. CASE onDisconnected
  <2>1. Line("lost", NoRound) \in AnyLine
    BY <1>0, MadeLine DEF PlainKinds
  <2> QED BY <1>2, <1>16, <2>1 DEF onDisconnected, QueuesOK
<1>17. CASE ReadError
  BY <1>17 DEF ReadError, QueuesOK, windowVars
<1> QED
  BY <1>4, <1>5, <1>6, <1>7, <1>8, <1>9, <1>10, <1>11, <1>12, <1>13, <1>14, <1>15, <1>16,
     <1>17 DEF HandleLine

\* So does every box that is closed.
LEMMA BoxesOK ==
    ASSUME ClientOK, CloseBox
    PROVE  ClientOK'
<1> USE DEF ClientOK
<1>0. NoRound \in RoundTag
  BY DEF NoRound, RoundTag
<1>1. CASE LobbyAfterBox
  <2>1. Line("LIST_ROOMS", NoRound) \in AnyLine
    BY <1>0, MadeLine DEF PlainKinds
  <2>2. toServer' \in Seq(AnyLine) /\ screen' = "Lobby" /\ shown' = NoRound
    BY <1>1, <2>1, Sent DEF LobbyAfterBox, transitionToLobby, Show
  <2>3. boxes' \in Seq(AnyLine)
    BY <1>1, Closed DEF LobbyAfterBox
  <2> QED BY <1>0, <1>1, <2>2, <2>3 DEF LobbyAfterBox, QueuesOK, Screens
<1>2. CASE ReconnectingAfterBox
  BY <1>2, Closed DEF ReconnectingAfterBox, QueuesOK, netVars
<1>3. CASE LoginAfterBox
  BY <1>0, <1>3, Closed DEF LoginAfterBox, QueuesOK, netVars, Show, Screens
<1>4. ASSUME NEW kinds, NEW cmd, Answered(kinds, cmd),
             \/ kinds \subseteq SeatKinds /\ cmd \in SeatKinds
             \/ kinds \subseteq RoundKinds /\ cmd \in RoundKinds
      PROVE  ClientOK'
  <2>1. PICK b \in AnyLine : b = boxes[Len(boxes)] /\ b.cmd \in kinds
    BY <1>4, Closed DEF Answered
  <2>2. Line(cmd, b.tag) \in AnyLine
    BY <1>4, <2>1, MadeLine, TagOf
  <2>3. toServer' \in Seq(AnyLine)
    BY <1>4, <2>1, <2>2, Sent DEF Answered, QueuesOK
  <2>4. boxes' \in Seq(AnyLine)
    BY <1>4, Closed DEF Answered
  <2> QED BY <1>4, <2>3, <2>4 DEF Answered, QueuesOK
<1>5. CASE Answered({"away", "leave"}, "LEAVE_ROOM")
  BY <1>4, <1>5 DEF SeatKinds, RoundKinds
<1>6. CASE Answered({"submit"}, "SUBMIT")
  BY <1>4, <1>6 DEF SeatKinds, RoundKinds
<1> QED BY <1>1, <1>2, <1>3, <1>5, <1>6 DEF CloseBox

\* And every button of the user.
LEMMA ActsOK ==
    ASSUME ClientOK, seat \in Nat, UserActs(seat)
    PROVE  ClientOK'
<1> USE DEF ClientOK
<1>0. NoRound \in RoundTag
  BY DEF NoRound, RoundTag
<1>1. CASE onConnectClicked
  BY <1>1 DEF onConnectClicked, QueuesOK
<1>2. ASSUME NEW s, NEW cmd \in PlainKinds, Sends(s, cmd)
      PROVE  ClientOK'
  <2>1. Line(cmd, NoRound) \in AnyLine
    BY <1>0, <1>2, MadeLine
  <2> QED BY <1>2, <2>1, Sent DEF Sends, QueuesOK, windowVars
<1>3. CASE onLoginClicked \/ SitClicked \/ StartClicked
  BY <1>2, <1>3 DEF onLoginClicked, SitClicked, StartClicked, PlainKinds
<1>4. CASE onLeaveRoomClicked(seat)
  <2>1. Line("leave", <<seat>>) \in AnyLine
    BY MadeLine DEF SeatTag, SeatKinds
  <2> QED BY <1>4, <2>1, Opened DEF onLeaveRoomClicked, QueuesOK, netVars
<1>5. CASE onSubmitClicked
  <2>1. Line("submit", shown) \in AnyLine
    BY MadeLine DEF RoundKinds
  <2> QED BY <1>5, <2>1, Opened DEF onSubmitClicked, QueuesOK, netVars
<1>6. CASE onBackToRoomClicked
  BY <1>0, <1>6 DEF onBackToRoomClicked, QueuesOK, netVars, Show, Screens
<1>7. CASE onContinueClicked
  <2>1. Line("READY_NEXT_ROUND", shown) \in AnyLine
    BY MadeLine DEF RoundKinds
  <2> QED BY <1>0, <1>7, <2>1, Sent DEF onContinueClicked, QueuesOK, Show, Screens
<1> QED BY <1>1, <1>3, <1>4, <1>5, <1>6, <1>7 DEF UserActs
\* The lines of the server, whatever was to be said.
LEMMA ReplyOK ==
    ASSUME ClientOK, NEW s \in Seq(AnyLine), Reply(s) \/ Told(s)
    PROVE  toClient' \in Seq(AnyLine) /\ (conn = "none" => toClient' = <<>>)
BY Replied DEF ClientOK, Told, QueuesOK

\* The lines about nothing in particular are lines.
LEMMA LinesOK ==
    /\ \A c \in PlainKinds : Line(c, NoRound) \in AnyLine
    /\ \A c \in PlainKinds : <<Line(c, NoRound)>> \in Seq(AnyLine)
    /\ \A c, d \in PlainKinds : <<Line(c, NoRound), Line(d, NoRound)>> \in Seq(AnyLine)
<1>1. NoRound \in RoundTag
  BY DEF NoRound, RoundTag
<1>2. \A c \in PlainKinds : Line(c, NoRound) \in AnyLine
  BY <1>1, MadeLine
<1> QED BY <1>2, OneLine, TwoLines

\* The present round and seat are tags.
LEMMA NowOK ==
    ASSUME SessionOK, RecordOK
    PROVE  Now \in RoundTag /\ <<seat>> \in SeatTag
BY DEF SessionOK, RecordOK, Session, Now, RoundTag, SeatTag

\* A line about a round is a line.
LEMMA RoundLinesOK ==
    ASSUME NEW t \in RoundTag, NEW c \in RoundKinds
    PROVE  <<Line(c, t)>> \in Seq(AnyLine)
BY MadeLine, OneLine

\* What a handler leaves: the window, and the rest of the queues.
LEMMA ServeOK ==
    ASSUME ClientOK, NEW cmd, Serve(cmd),
           toClient' \in Seq(AnyLine) /\ (conn = "none" => toClient' = <<>>)
    PROVE  ClientOK'
BY Taken DEF ClientOK, QueuesOK, Serve, windowVars

\* Every handler keeps the shape.
LEMMA MessagesOK ==
    ASSUME ShapeInv, handle_message
    PROVE  ShapeInv'
<1> USE DEF ShapeInv
<1>0. me \in Session /\ (me.round + 1) \in Nat /\ me.round \in Nat
  BY RoundsAssumption DEF SessionOK, Session
<1>1. ASSUME NEW cmd, Serve(cmd), Refused PROVE ShapeInv'
  <2>1. toClient' \in Seq(AnyLine) /\ (conn = "none" => toClient' = <<>>)
    BY <1>1 DEF Refused, ClientOK, QueuesOK
  <2>2. ClientOK'
    BY <1>1, <2>1, ServeOK
  <2> QED BY <1>1, <2>2 DEF Refused, recordVars, SessionOK, RecordOK
<1>2. CASE handle_login
  <2>1. Serve("LOGIN")
    BY <1>2 DEF handle_login
  <2>2. CASE Enter /\ Reply(<<Line("LOGIN_OK", NoRound), RoomList>>)
             /\ attached' = TRUE /\ resumed' = FALSE
             /\ UNCHANGED <<game, seat, outOfTurn, misled>>
    <3>1. <<Line("LOGIN_OK", NoRound), RoomList>> \in Seq(AnyLine)
      BY LinesOK DEF PlainKinds, RoomList
    <3>2. ClientOK'
      BY <2>1, <2>2, <3>1, ReplyOK, ServeOK
    <3>3. SessionOK' /\ me'.online
      BY <2>2, EnterFields
    <3> QED BY <2>2, <3>2, <3>3 DEF RecordOK
  <2>3. CASE Resume /\ Reply(<<Line("RECONNECT_OK", NoRound), FollowUp>>)
             /\ attached' = TRUE /\ resumed' = TRUE
             /\ outOfTurn' = (outOfTurn \/ (me.playing /\ me.waiting))
             /\ Misled(me.stray \/ (me.playing /\ me.waiting))
             /\ UNCHANGED <<game, seat>>
    <3>1. FollowUp \in AnyLine
      BY LinesOK, NowOK, MadeLine DEF PlainKinds, RoundKinds, FollowUp, RoomList, Status
    <3>2. <<Line("RECONNECT_OK", NoRound), FollowUp>> \in Seq(AnyLine)
      BY <3>1, LinesOK, TwoLines DEF PlainKinds
    <3>3. ClientOK'
      BY <2>1, <2>3, <3>2, ReplyOK, ServeOK
    <3>4. SessionOK' /\ me'.online
      BY <2>3, ResumeFields
    <3> QED BY <2>3, <3>3, <3>4 DEF RecordOK, Misled
  <2>4. CASE attached /\ Again /\ Reply(<<Line("LOGIN_OK", NoRound), RoomList>>)
             /\ Misled(me.place = "room")
             /\ UNCHANGED <<attached, game, seat, resumed, outOfTurn>>
    <3>1. <<Line("LOGIN_OK", NoRound), RoomList>> \in Seq(AnyLine)
      BY LinesOK DEF PlainKinds, RoomList
    <3>2. ClientOK'
      BY <2>1, <2>4, <3>1, ReplyOK, ServeOK
    <3>3. SessionOK' /\ me'.online
      BY <2>4, AgainFields
    <3> QED BY <2>4, <3>2, <3>3 DEF RecordOK, Misled
  <2> QED BY <1>1, <1>2, <2>1, <2>2, <2>3, <2>4 DEF handle_login
<1>3. CASE handle_list_rooms
  <2>1. <<RoomList>> \in Seq(AnyLine)
    BY LinesOK DEF PlainKinds, RoomList
  <2>2. ClientOK'
    BY <1>3, <2>1, ReplyOK, ServeOK DEF handle_list_rooms
  <2> QED BY <1>3, <2>2 DEF handle_list_rooms, recordVars, SessionOK, RecordOK
<1>4. CASE handle_sit
  <2>1. Serve("SIT")
    BY <1>4 DEF handle_sit
  <2>2. CASE attached /\ Sit /\ seat' = seat + 1
             /\ Reply(<<Status, Line("ROOM_JOINED", NoRound)>>)
             /\ UNCHANGED <<attached, game, resumed, outOfTurn, misled>>
    <3>1. <<Status, Line("ROOM_JOINED", NoRound)>> \in Seq(AnyLine)
      BY LinesOK DEF PlainKinds, Status
    <3>2. ClientOK'
      BY <2>1, <2>2, <3>1, ReplyOK, ServeOK
    <3>3. SessionOK' /\ me'.online = me.online
      BY <2>2, SitFields
    <3> QED BY <2>2, <3>2, <3>3 DEF RecordOK
  <2> QED BY <1>1, <1>4, <2>1, <2>2 DEF handle_sit
<1>5. CASE handle_leave_room
  <2>1. Serve("LEAVE_ROOM")
    BY <1>5 DEF handle_leave_room
  <2>2. CASE Rise
             /\ Reply((IF me.playing THEN <<Line("GAME_ABORTED", NoRound)>> ELSE <<>>)
                        \o <<Line("LEFT_ROOM", <<seat>>), RoomList>>)
             /\ UNCHANGED <<attached, recordVars>>
    <3>1. Line("LEFT_ROOM", <<seat>>) \in AnyLine /\ RoomList \in AnyLine
      BY NowOK, MadeLine, LinesOK DEF SeatKinds, PlainKinds, RoomList
    <3> DEFINE s == <<Line("LEFT_ROOM", <<seat>>), RoomList>>
               a == IF me.playing THEN <<Line("GAME_ABORTED", NoRound)>> ELSE <<>>
    <3>2. s \in Seq(AnyLine)
      BY <3>1, TwoLines
    <3>3. a \in Seq(AnyLine)
      BY LinesOK DEF PlainKinds
    <3> HIDE DEF s, a
    <3>4. a \o s \in Seq(AnyLine) /\ Reply(a \o s)
      BY <2>2, <3>2, <3>3, ConcatProperties DEF s, a
    <3>5. ClientOK'
      BY <2>1, <3>4, ReplyOK, ServeOK
    <3>6. SessionOK' /\ me'.online
      BY <2>2, RiseFields
    <3> QED BY <2>2, <3>5, <3>6 DEF RecordOK, recordVars
  <2> QED BY <1>1, <1>5, <2>1, <2>2 DEF handle_leave_room
<1>6. ASSUME GameBegins PROVE
        /\ SessionOK' /\ game' \in Nat /\ outOfTurn' \in BOOLEAN /\ me'.online = me.online
        /\ <<GameStart>> \in Seq(AnyLine)
  <2>1. SessionOK' /\ game' \in Nat /\ outOfTurn' \in BOOLEAN /\ me'.online = me.online
    <3>1. Begin /\ game' = game + 1 /\ outOfTurn' = FALSE /\ game \in Nat
      BY <1>6 DEF GameBegins, RecordOK
    <3>2. SessionOK' /\ me'.online = me.online
      BY <3>1, BeginFields
    <3>3. game' \in Nat
      BY <3>1
    <3>4. outOfTurn' \in BOOLEAN
      BY <3>1
    <3> QED BY <3>2, <3>3, <3>4
  <2>2. <<game', me'.round>> \in RoundTag
    BY <2>1 DEF SessionOK, Session, RoundTag
  <2> QED BY <2>1, <2>2, RoundLinesOK DEF GameStart, RoundKinds
<1>7. CASE handle_start_game
  <2>1. Serve("START")
    BY <1>7 DEF handle_start_game
  <2>2. CASE GameBegins /\ Reply(<<GameStart>>) /\ UNCHANGED <<attached, seat, resumed, misled>>
    <3>1. ClientOK'
      BY <1>6, <2>1, <2>2, ReplyOK, ServeOK
    <3> QED BY <1>6, <2>2, <3>1 DEF RecordOK
  <2> QED BY <1>1, <1>7, <2>1, <2>2 DEF handle_start_game
<1>8. CASE handle_submit
  <2>1. Serve("SUBMIT")
    BY <1>8 DEF handle_submit
  <2>2. CASE CanSubmit
    <3>1. ClientOK' /\ SessionOK' /\ me'.online = me.online
      <4>1. CASE Answer /\ UNCHANGED toClient
        BY <2>1, <4>1, ServeOK, AnswerFields DEF ClientOK, QueuesOK
      <4>2. CASE Win /\ Reply(<<RoundEndLine>>)
        <5>1. <<RoundEndLine>> \in Seq(AnyLine)
          BY NowOK, RoundLinesOK DEF RoundEndLine, RoundKinds
        <5> QED BY <2>1, <4>2, <5>1, ReplyOK, ServeOK, WinFields
      <4>3. CASE Over /\ Reply(GameOverLines)
        <5>1. GameOverLines \in Seq(AnyLine)
          BY LinesOK DEF GameOverLines, PlainKinds, Status
        <5> QED BY <2>1, <4>3, <5>1, ReplyOK, ServeOK, OverFields
      <4> QED BY <1>8, <2>2, <4>1, <4>2, <4>3 DEF handle_submit
    <3>2. UNCHANGED <<attached, recordVars>>
      BY <1>8, <2>2 DEF handle_submit
    <3> QED BY <3>1, <3>2 DEF RecordOK, recordVars
  <2> QED BY <1>1, <1>8, <2>1, <2>2 DEF handle_submit
<1>9. CASE handle_ready_next_round
  <2>1. Serve("READY_NEXT_ROUND")
    BY <1>9 DEF handle_ready_next_round
  <2>2. CASE Vote /\ CountsFor(game) /\ Reply(<<Line("WAIT_CONTINUE", NoRound)>>)
             /\ UNCHANGED <<attached, seat, resumed, misled>>
    <3>1. <<Line("WAIT_CONTINUE", NoRound)>> \in Seq(AnyLine)
      BY LinesOK DEF PlainKinds
    <3>2. ClientOK'
      BY <2>1, <2>2, <3>1, ReplyOK, ServeOK
    <3> QED BY <2>2, <3>2, VoteFields DEF RecordOK, CountsFor
  <2>3. CASE Proceed /\ CountsFor(game) /\ Reply(<<GameStart>>)
             /\ UNCHANGED <<attached, seat, resumed, misled>>
    <3>1. SessionOK' /\ me'.online = me.online
      BY <2>3, ProceedFields
    <3>2. <<game', me'.round>> \in RoundTag
      BY <2>3, <3>1 DEF SessionOK, Session, RoundTag, CountsFor, RecordOK
    <3>3. <<GameStart>> \in Seq(AnyLine)
      BY <3>2, RoundLinesOK DEF GameStart, RoundKinds
    <3>4. ClientOK'
      BY <2>1, <2>3, <3>3, ReplyOK, ServeOK
    <3> QED BY <2>3, <3>1, <3>4 DEF RecordOK, CountsFor
  <2>4. CASE GameBegins /\ Reply(<<GameStart>>) /\ UNCHANGED <<attached, seat, resumed, misled>>
    <3>1. ClientOK'
      BY <1>6, <2>1, <2>4, ReplyOK, ServeOK
    <3> QED BY <1>6, <2>4, <3>1 DEF RecordOK
  <2> QED BY <1>1, <1>9, <2>1, <2>2, <2>3, <2>4 DEF handle_ready_next_round
<1> QED BY <1>2, <1>3, <1>4, <1>5, <1>7, <1>8, <1>9 DEF handle_message
\* What the others do leaves the client and its connection.
LEMMA ElsewhereOK ==
    ASSUME ClientOK, Elsewhere, toClient' \in Seq(AnyLine), conn = "none" => toClient' = <<>>
    PROVE  ClientOK'
BY DEF ClientOK, QueuesOK, Elsewhere, windowVars

\* So does every step of the others.
LEMMA OthersOK ==
    ASSUME ShapeInv, Others
    PROVE  ShapeInv'
<1> USE DEF ShapeInv
<1>1. ASSUME NEW s \in Seq(AnyLine), Told(s), Elsewhere PROVE ClientOK'
  BY <1>1, ReplyOK, ElsewhereOK
<1>2. Elsewhere => UNCHANGED <<attached, seat, resumed>>
  BY DEF Elsewhere
<1>3. CASE OthersStart
  <2>1. Begin /\ game' = game + 1 /\ outOfTurn' = FALSE /\ game \in Nat
    BY <1>3 DEF OthersStart, GameBegins, RecordOK
  <2>2. SessionOK' /\ me'.online = me.online
    BY <2>1, BeginFields
  <2>3. game' \in Nat
    BY <2>1
  <2>4. outOfTurn' \in BOOLEAN
    BY <2>1
  <2>5. <<game', me'.round>> \in RoundTag
    BY <2>2, <2>3 DEF SessionOK, Session, RoundTag
  <2>6. <<GameStart>> \in Seq(AnyLine)
    BY <2>5, RoundLinesOK DEF GameStart, RoundKinds
  <2>7. ClientOK'
    BY <1>1, <1>3, <2>6 DEF OthersStart
  <2> QED BY <1>2, <1>3, <2>2, <2>3, <2>4, <2>7 DEF OthersStart, RecordOK
<1>4. CASE OthersAnswer
  <2>1. <<RoundEndLine>> \in Seq(AnyLine)
    BY NowOK, RoundLinesOK DEF RoundEndLine, RoundKinds
  <2>2. ClientOK'
    BY <1>1, <1>4, <2>1 DEF OthersAnswer
  <2>3. SessionOK' /\ me'.online = me.online
    BY <1>4, WinFields DEF OthersAnswer
  <2> QED BY <1>2, <1>4, <2>2, <2>3 DEF OthersAnswer, RecordOK
<1>5. CASE OthersVote
  <2>1. SessionOK' /\ me'.online = me.online
    BY <1>5, ProceedFields DEF OthersVote
  <2>2. <<game', me'.round>> \in RoundTag
    BY <1>5, <2>1 DEF SessionOK, Session, RoundTag, OthersVote, RecordOK
  <2>3. <<GameStart>> \in Seq(AnyLine)
    BY <2>2, RoundLinesOK DEF GameStart, RoundKinds
  <2>4. ClientOK'
    BY <1>1, <1>5, <2>3 DEF OthersVote
  <2> QED BY <1>2, <1>5, <2>1, <2>4 DEF OthersVote, RecordOK
<1>6. CASE GameOver
  <2>1. GameOverLines \in Seq(AnyLine)
    BY LinesOK DEF GameOverLines, PlainKinds, Status
  <2>2. ClientOK'
    BY <1>1, <1>6, <2>1 DEF GameOver
  <2>3. SessionOK' /\ me'.online = me.online
    BY <1>6, OverFields DEF GameOver
  <2> QED BY <1>2, <1>6, <2>2, <2>3 DEF GameOver, RecordOK
<1>7. CASE OthersLeave
  <2> DEFINE a == IF me.playing THEN <<Line("GAME_ABORTED", NoRound)>> ELSE <<>>
  <2>1. a \in Seq(AnyLine) /\ <<Status>> \in Seq(AnyLine)
    BY LinesOK DEF PlainKinds, Status
  <2> HIDE DEF a
  <2>2. a \o <<Status>> \in Seq(AnyLine) /\ Told(a \o <<Status>>)
    BY <1>7, <2>1, ConcatProperties DEF OthersLeave, a
  <2>3. ClientOK'
    BY <1>1, <1>7, <2>2 DEF OthersLeave
  <2> QED BY <1>2, <1>7, <2>3 DEF OthersLeave, Misled, SessionOK, RecordOK
<1>10. CASE OthersRemoved
  <2>1. <<Line("GAME_ABORTED", NoRound)>> \in Seq(AnyLine)
    BY LinesOK DEF PlainKinds
  <2>2. ClientOK'
    BY <1>1, <1>10, <2>1 DEF OthersRemoved
  <2> QED BY <1>2, <1>10, <2>2 DEF OthersRemoved, Misled, SessionOK, RecordOK
<1>8. CASE OthersLost
  <2>1. Line("PLAYER_DISCONNECTED", <<seat>>) \in AnyLine
    BY NowOK, MadeLine DEF SeatKinds
  <2>2. <<Line("PLAYER_DISCONNECTED", <<seat>>)>> \in Seq(AnyLine)
    BY <2>1, OneLine
  <2>3. ClientOK'
    BY <1>1, <1>8, <2>2 DEF OthersLost
  <2> QED BY <1>2, <1>8, <2>3 DEF OthersLost, SessionOK, RecordOK
<1>9. CASE StatusUpdate
  <2>1. <<Status>> \in Seq(AnyLine)
    BY LinesOK DEF PlainKinds, Status
  <2>2. ClientOK'
    BY <1>1, <1>9, <2>1 DEF StatusUpdate
  <2> QED BY <1>2, <1>9, <2>2 DEF StatusUpdate, SessionOK, RecordOK
<1> QED BY <1>3, <1>4, <1>5, <1>6, <1>7, <1>8, <1>9, <1>10 DEF Others

\* The window of a program that is started anew.
LEMMA StartedOK ==
    ASSUME Started
    PROVE  /\ isConnected' \in BOOLEAN /\ isReconnecting' \in BOOLEAN
           /\ screen' \in Screens /\ shown' \in RoundTag /\ boxes' \in Seq(AnyLine)
BY OnEmpty DEF Started, Screens, NoRound, RoundTag

\* The initial state has the shape.
LEMMA ShapeInvInit ==
    ASSUME DialogueInit
    PROVE  ShapeInv
<1>1. ClientOK
  BY OnEmpty DEF DialogueInit, ClientInit, ClientOK, QueuesOK, Screens, NoRound, RoundTag
<1>2. SessionOK
  <2>1. me \in Session
    BY RoundsAssumption DEF DialogueInit, SessionInit, NoSession, Session
  <2>2. /\ me.online = FALSE /\ me.playing = FALSE /\ me.round = 0
        /\ me.stray = FALSE /\ me.voted = FALSE
    BY DEF DialogueInit, SessionInit, NoSession
  <2> QED BY <2>1, <2>2 DEF SessionOK
<1>3. RecordOK
  BY DEF DialogueInit, RecordOK
<1> QED BY <1>1, <1>2, <1>3 DEF ShapeInv

\* Every step keeps it.
LEMMA ShapeInvNext ==
    ASSUME ShapeInv, DialogueNext
    PROVE  ShapeInv'
<1> USE DEF ShapeInv
<1>1. CASE ClientStep
  <2>1. ClientOK'
    BY <1>1, ReadsOK, BoxesOK, ActsOK DEF ClientStep, RecordOK
  <2> QED BY <1>1, <2>1 DEF ClientStep, SessionOK, RecordOK
<1>2. CASE handle_message
  BY <1>2, MessagesOK
<1>3. CASE Others
  BY <1>3, OthersOK
<1>4. CASE ClientRestarts
  <2>1. ClientOK'
    BY <1>4, StartedOK, PrefixOn, OnEmpty DEF ClientRestarts, ClientOK, QueuesOK
  <2> QED BY <1>4, <2>1 DEF ClientRestarts, SessionOK, RecordOK
<1>5. CASE ConnectionBreaks
  <2>1. ClientOK'
    BY <1>5, PrefixOn DEF ConnectionBreaks, ClientOK, QueuesOK, windowVars
  <2> QED BY <1>5, <2>1 DEF ConnectionBreaks, SessionOK, RecordOK, recordVars
<1>6. CASE ServerCloses
  <2>1. ClientOK'
    BY <1>6, PrefixOn, OnEmpty DEF ServerCloses, ClientOK, QueuesOK, windowVars
  <2>2. SessionOK'
    BY <1>6, GiveUpFields DEF ServerCloses, SessionOK
  <2> QED BY <1>6, <2>1, <2>2 DEF ServerCloses, RecordOK
<1>7. CASE client_mark_disconnected
  <2>1. ClientOK'
    BY <1>7 DEF client_mark_disconnected, clientVars, netVars, windowVars, ClientOK, QueuesOK
  <2> QED BY <1>7, <2>1, CutFields DEF client_mark_disconnected, RecordOK
<1>8. CASE client_disconnect
  <2>1. ClientOK'
    BY <1>8 DEF client_disconnect, clientVars, netVars, windowVars, ClientOK, QueuesOK
  <2> QED BY <1>8, <2>1, GiveUpFields DEF client_disconnect, RecordOK
<1> QED BY <1>1, <1>2, <1>3, <1>4, <1>5, <1>6, <1>7, <1>8 DEF DialogueNext

\* And so does a step of nobody.
LEMMA ShapeInvStutter ==
    ASSUME ShapeInv, UNCHANGED dialogueVars
    PROVE  ShapeInv'
BY DEF ShapeInv, ClientOK, QueuesOK, SessionOK, RecordOK, dialogueVars, recordVars, clientVars,
       netVars, windowVars

\* In every reachable state the queues hold lines, the session and the window are
\* of their types, and the parts fit.
THEOREM ShapeIsInvariant == DialogueSpec => []ShapeInv
<1>1. DialogueInit => ShapeInv
  BY ShapeInvInit
<1>2. ShapeInv /\ [DialogueNext]_dialogueVars => ShapeInv'
  BY ShapeInvNext, ShapeInvStutter
<1> QED BY <1>1, <1>2, PTL DEF DialogueSpec

\* The lines and the session fit together: a session that the client's
\* connection belongs to is open, and lines are on their way to the client only
\* while it can read them.
THEOREM DialogueTypeCorrect == DialogueSpec => []DialogueTypeOK
<1>1. ShapeInv => DialogueTypeOK
  BY DEF ShapeInv, ClientOK, SessionOK, RecordOK, DialogueTypeOK
<1> QED BY <1>1, ShapeIsInvariant, PTL
-----------------------------------------------------------------------------
(***************************************************************************)
(* LOGIN is sent from the login screen only, and the client gets there     *)
(* with a connection only where no seat was taken over it.                 *)
(***************************************************************************)

DoorInv ==
    /\ Has(boxes, {"lost"}) => conn = "none"
    /\ \A a, b : Before(toServer, a, b) /\ a.cmd = "SIT" => b.cmd # "LOGIN"
    /\ conn = "up" /\ Has(toServer, {"SIT"}) => screen # "Login"
    /\ attached /\ me.place = "room" /\ ~resumed =>
         ~Has(toServer, {"LOGIN"}) /\ (conn = "up" => screen # "Login")

\* What the steps have in common in which the client sends at most a line that
\* is neither SIT nor LOGIN, and does not come to the login screen.
LEMMA DoorKept ==
    ASSUME DoorInv, NEW x, x.cmd \notin {"SIT", "LOGIN"},
           Has(boxes', {"lost"}) => Has(boxes, {"lost"}) \/ conn' = "none",
           conn' = conn \/ conn' = "none",
           \/ toServer' = toServer
           \/ /\ On(toServer') = On(toServer) \cup {x}
              /\ \A a, b : Before(toServer', a, b) <=> \/ Before(toServer, a, b)
                                                       \/ a \in On(toServer) /\ b = x,
           screen' = "Login" => screen = "Login" \/ Has(boxes, {"lost"}),
           UNCHANGED me, attached' => attached /\ resumed' = resumed
    PROVE  DoorInv'
<1>1. Has(toServer', {"SIT"}) => Has(toServer, {"SIT"})
  BY DEF Has
<1>2. Has(toServer', {"LOGIN"}) => Has(toServer, {"LOGIN"})
  BY DEF Has
<1>3. ASSUME NEW a, NEW b, Before(toServer', a, b), a.cmd = "SIT" PROVE b.cmd # "LOGIN"
  BY <1>3 DEF DoorInv
<1> QED BY <1>1, <1>2, <1>3 DEF DoorInv

\* No step of the client brings LOGIN behind a seat.
LEMMA DoorInvClient ==
    ASSUME ShapeInv, DoorInv, ClientStep
    PROVE  DoorInv'
<1> QueuesOK /\ NoRound \in RoundTag
  BY DEF ShapeInv, ClientOK, NoRound, RoundTag
<1>1. UNCHANGED me /\ attached' = (attached /\ ~Connects) /\ resumed' = (resumed /\ ~Connects)
  BY DEF ClientStep
<1>2. ~Connects => (attached' <=> attached) /\ (resumed' <=> resumed)
  BY <1>1
<1>a. conn # "none" \/ conn' # "up" => UNCHANGED me /\ attached' = attached /\ resumed' = resumed
  BY <1>1 DEF Connects, ShapeInv, RecordOK
<1> DEFINE x == Line("LIST_ROOMS", NoRound)
<1>x. x \in AnyLine /\ x.cmd = "LIST_ROOMS"
  BY MadeLine DEF PlainKinds
<1>3. ASSUME transitionToLobby
      PROVE  /\ screen' = "Lobby"
             /\ \/ toServer' = toServer
                \/ /\ On(toServer') = On(toServer) \cup {x}
                   /\ \A a, b : Before(toServer', a, b) <=> \/ Before(toServer, a, b)
                                                            \/ a \in On(toServer) /\ b = x
  BY <1>3, <1>x, Sent DEF transitionToLobby, Show
<1>4. ASSUME NEW kind \in PlainKinds, kind # "lost", Open(kind, NoRound)
      PROVE  Has(boxes', {"lost"}) => Has(boxes, {"lost"})
  BY <1>4, MadeLine, Opened DEF Has
<1> HIDE DEF x
<1>5. CASE HandleLine
  <2>1. CASE onLoginSuccessful
    BY <1>a, <1>4, <1>x, <2>1, DoorKept DEF onLoginSuccessful, PlainKinds
  <2>2. CASE onReconnectSuccessful
    BY <1>a, <1>4, <1>x, <2>2, DoorKept DEF onReconnectSuccessful, PlainKinds
  <2>3. CASE onRoomListReceived
    BY <1>a, <1>3, <1>x, <2>3, DoorKept DEF onRoomListReceived
  <2>4. CASE onRoomStatusUpdated
    BY <1>a, <1>x, <2>4, DoorKept DEF onRoomStatusUpdated, Show
  <2>5. CASE onRoomJoined
    BY <1>a, <1>x, <2>5, DoorKept DEF onRoomJoined, Show
  <2>6. CASE onLeftRoom
    BY <1>a, <1>3, <1>x, <2>6, DoorKept DEF onLeftRoom
  <2>7. CASE onGameStarted
    BY <1>a, <1>x, <2>7, DoorKept DEF onGameStarted, Show
  <2>8. CASE onGameEnded
    BY <1>a, <1>x, <2>8, DoorKept DEF onGameEnded, Show
  <2>9. CASE onRoundEnded
    BY <1>a, <1>x, <2>9, DoorKept DEF onRoundEnded, Show
  <2>10. CASE onWaitingForContinue
    BY <1>a, <1>x, <2>10, DoorKept DEF onWaitingForContinue, Show
  <2>11. CASE onGameAborted
    BY <1>a, <1>4, <1>x, <2>11, DoorKept DEF onGameAborted, PlainKinds
  <2>12. CASE onPlayerDisconnected
    <3>1. PICK h \in AnyLine : h.cmd = "PLAYER_DISCONNECTED" /\ h.tag = LineTag
      BY <2>12, Heard DEF onPlayerDisconnected
    <3>2. LineTag \in SeatTag
      BY <3>1, TagOf DEF SeatKinds
    <3>3. Has(boxes', {"lost"}) => Has(boxes, {"lost"})
      BY <2>12, <3>2, MadeLine, Opened DEF onPlayerDisconnected, SeatKinds, Has
    <3> QED BY <1>a, <1>x, <2>12, <3>3, DoorKept DEF onPlayerDisconnected
  <2>13. CASE onDisconnected
    BY <1>a, <1>x, <2>13, DoorKept DEF onDisconnected
  <2>14. CASE ReadError
    BY <1>a, <1>x, <2>14, DoorKept DEF ReadError, windowVars
  <2> QED
    BY <1>5, <2>1, <2>2, <2>3, <2>4, <2>5, <2>6, <2>7, <2>8, <2>9, <2>10, <2>11, <2>12, <2>13,
       <2>14 DEF HandleLine
<1>6. CASE CloseBox
  <2>1. ASSUME NEW kinds, Closes(kinds)
        PROVE  /\ Has(boxes', {"lost"}) => Has(boxes, {"lost"})
               /\ kinds = {"lost"} => Has(boxes, {"lost"})
    BY <2>1, Closed DEF Has
  <2>2. CASE LobbyAfterBox
    BY <1>a, <1>3, <1>x, <2>1, <2>2, DoorKept DEF LobbyAfterBox
  <2>3. CASE ReconnectingAfterBox
    BY <1>a, <1>x, <2>1, <2>3, DoorKept DEF ReconnectingAfterBox, netVars
  <2>4. CASE LoginAfterBox
    BY <1>a, <1>x, <2>1, <2>4, DoorKept DEF LoginAfterBox, netVars
  <2>5. ASSUME NEW kinds, NEW cmd \in {"LEAVE_ROOM", "SUBMIT"}, Answered(kinds, cmd),
               \/ kinds \subseteq SeatKinds /\ cmd \in SeatKinds
               \/ kinds \subseteq RoundKinds /\ cmd \in RoundKinds
        PROVE  DoorInv'
    <3>1. PICK b \in AnyLine : b = boxes[Len(boxes)] /\ b.cmd \in kinds
      BY <2>5, Closed DEF Answered
    <3> DEFINE y == Line(cmd, b.tag)
    <3>2. y \in AnyLine /\ y.cmd = cmd
      BY <2>5, <3>1, MadeLine, TagOf
    <3> HIDE DEF y
    <3>3. \/ toServer' = toServer
          \/ /\ On(toServer') = On(toServer) \cup {y}
             /\ \A a, c : Before(toServer', a, c) <=> \/ Before(toServer, a, c)
                                                      \/ a \in On(toServer) /\ c = y
      BY <2>5, <3>1, <3>2, Sent DEF Answered, y
    <3> QED BY <1>a, <2>1, <2>5, <3>2, <3>3, DoorKept DEF Answered
  <2>6. CASE Answered({"away", "leave"}, "LEAVE_ROOM")
    BY <2>5, <2>6 DEF SeatKinds
  <2>7. CASE Answered({"submit"}, "SUBMIT")
    BY <2>5, <2>7 DEF RoundKinds
  <2> QED BY <1>6, <2>2, <2>3, <2>4, <2>6, <2>7 DEF CloseBox
<1>7. CASE UserActs(seat)
  <2>1. CASE onConnectClicked
    <3>1. ~attached' /\ On(toServer') = {} /\ \A a, b : ~Before(toServer', a, b)
      BY <1>1, <2>1, OnEmpty DEF onConnectClicked, Connects
    <3>2. On(boxes') = {}
      BY <2>1, OnEmpty DEF onConnectClicked, Clicks, UserFree
    <3> QED BY <3>1, <3>2 DEF DoorInv, Has
  <2>2. ASSUME NEW s, NEW cmd \in PlainKinds, Sends(s, cmd)
        PROVE  /\ Line(cmd, NoRound) \in AnyLine /\ Line(cmd, NoRound).cmd = cmd
               /\ \/ toServer' = toServer
                  \/ /\ conn = "up"
                     /\ On(toServer') = On(toServer) \cup {Line(cmd, NoRound)}
                     /\ \A a, b : Before(toServer', a, b) <=>
                           \/ Before(toServer, a, b)
                           \/ a \in On(toServer) /\ b = Line(cmd, NoRound)
               /\ UNCHANGED <<conn, screen, boxes>> /\ screen = s
    BY <2>2, MadeLine, Sent DEF Sends, windowVars, Clicks
  <2>3. CASE onLoginClicked
    <3> DEFINE y == Line("LOGIN", NoRound)
    <3>1. /\ y.cmd = "LOGIN"
          /\ \/ toServer' = toServer
             \/ /\ conn = "up"
                /\ On(toServer') = On(toServer) \cup {y}
                /\ \A a, b : Before(toServer', a, b) <=> \/ Before(toServer, a, b)
                                                         \/ a \in On(toServer) /\ b = y
          /\ UNCHANGED <<conn, screen, boxes>> /\ screen = "Login"
      BY <2>2, <2>3 DEF onLoginClicked, PlainKinds
    <3> HIDE DEF y
    <3>2. conn' = "none" \/ conn # "none"  \/ conn' # "up"
      BY <3>1
    <3>3. CASE toServer' = toServer
      BY <1>a, <3>1, <3>2, <3>3 DEF DoorInv
    <3>4. CASE /\ conn = "up"
               /\ On(toServer') = On(toServer) \cup {y}
               /\ \A a, b : Before(toServer', a, b) <=> \/ Before(toServer, a, b)
                                                        \/ a \in On(toServer) /\ b = y
      <4>1. ~Has(toServer, {"SIT"})
        BY <3>1, <3>4 DEF DoorInv
      <4>2. ~Has(toServer', {"SIT"})
        BY <3>1, <3>4, <4>1 DEF Has
      <4>3. ~(attached' /\ me'.place = "room" /\ ~resumed')
        BY <1>a, <3>1, <3>4 DEF DoorInv
      <4>4. ASSUME NEW a, NEW b, Before(toServer', a, b), a.cmd = "SIT" PROVE FALSE
        BY <4>4, <4>2, BeforeOn DEF Has
      <4> QED BY <3>1, <3>4, <4>2, <4>3, <4>4 DEF DoorInv
    <3> QED BY <3>1, <3>3, <3>4
  <2>4. CASE SitClicked
    <3> DEFINE y == Line("SIT", NoRound)
    <3>1. /\ y.cmd = "SIT"
          /\ \/ toServer' = toServer
             \/ /\ conn = "up"
                /\ On(toServer') = On(toServer) \cup {y}
                /\ \A a, b : Before(toServer', a, b) <=> \/ Before(toServer, a, b)
                                                         \/ a \in On(toServer) /\ b = y
          /\ UNCHANGED <<conn, screen, boxes>> /\ screen = "Lobby"
      BY <2>2, <2>4 DEF SitClicked, PlainKinds
    <3> HIDE DEF y
    <3>2. Has(toServer', {"LOGIN"}) => Has(toServer, {"LOGIN"})
      BY <3>1 DEF Has
    <3>3. ASSUME NEW a, NEW b, Before(toServer', a, b), a.cmd = "SIT" PROVE b.cmd # "LOGIN"
      BY <3>1, <3>3 DEF DoorInv
    <3> QED BY <1>a, <3>1, <3>2, <3>3 DEF DoorInv
  <2>5. CASE StartClicked
    BY <1>a, <2>2, <2>5, DoorKept DEF StartClicked, PlainKinds
  <2>6. CASE onLeaveRoomClicked(seat)
    <3>1. Has(boxes', {"lost"}) => Has(boxes, {"lost"})
      BY <2>6, MadeLine, Opened
         DEF onLeaveRoomClicked, Has, SeatTag, SeatKinds, ShapeInv, RecordOK
    <3> QED BY <1>a, <1>x, <2>6, <3>1, DoorKept DEF onLeaveRoomClicked, netVars
  <2>7. CASE onSubmitClicked
    <3>1. Has(boxes', {"lost"}) => Has(boxes, {"lost"})
      BY <2>7, MadeLine, Opened DEF onSubmitClicked, Has, RoundKinds, ShapeInv, ClientOK
    <3> QED BY <1>a, <1>x, <2>7, <3>1, DoorKept DEF onSubmitClicked, netVars
  <2>8. CASE onBackToRoomClicked
    BY <1>a, <1>x, <2>8, DoorKept DEF onBackToRoomClicked, netVars, Show
  <2>9. CASE onContinueClicked
    <3> DEFINE y == Line("READY_NEXT_ROUND", shown)
    <3>1. y \in AnyLine /\ y.cmd = "READY_NEXT_ROUND"
      BY MadeLine DEF RoundKinds, ShapeInv, ClientOK
    <3>2. \/ toServer' = toServer
          \/ /\ On(toServer') = On(toServer) \cup {y}
             /\ \A a, b : Before(toServer', a, b) <=> \/ Before(toServer, a, b)
                                                      \/ a \in On(toServer) /\ b = y
      BY <2>9, <3>1, Sent DEF onContinueClicked
    <3> HIDE DEF y
    <3> QED BY <1>a, <2>9, <3>1, <3>2, DoorKept DEF onContinueClicked, Show
  <2> QED BY <1>7, <2>1, <2>3, <2>4, <2>5, <2>6, <2>7, <2>8, <2>9 DEF UserActs
<1> QED BY <1>5, <1>6, <1>7 DEF ClientStep
\* Over a connection of the client, a seat is taken by SIT or by RESUME only.
LEMMA SeatTaken ==
    ASSUME ShapeInv, handle_message, attached', me'.place = "room"
    PROVE  \/ attached /\ me.place = "room" /\ resumed' = resumed
           \/ resumed'
           \/ attached /\ resumed' = resumed /\ Serve("SIT")
<1> SessionOK /\ RecordOK
  BY DEF ShapeInv
<1>1. CASE handle_login
  <2>1. CASE Enter
    BY <2>1, EnterFields
  <2>2. CASE resumed'
    BY <2>2
  <2>3. CASE attached /\ Again /\ resumed' = resumed
    BY <2>3, AgainFields
  <2>4. CASE Refused
    BY <2>4 DEF Refused, recordVars
  <2> QED BY <1>1, <2>1, <2>2, <2>3, <2>4 DEF handle_login
<1>2. CASE handle_list_rooms
  BY <1>2 DEF handle_list_rooms, recordVars
<1>3. CASE handle_sit
  BY <1>3 DEF handle_sit, Refused, recordVars
<1>4. CASE handle_leave_room
  BY <1>4, RiseFields DEF handle_leave_room, Refused, recordVars
<1>5. CASE handle_start_game
  BY <1>5, BeginFields DEF handle_start_game, GameBegins, Refused, recordVars
<1>6. CASE handle_submit
  BY <1>6, AnswerFields, WinFields, OverFields DEF handle_submit, Refused, recordVars
<1>7. CASE handle_ready_next_round
  BY <1>7, VoteFields, ProceedFields, BeginFields
     DEF handle_ready_next_round, GameBegins, Refused, recordVars, CanVote
<1> QED BY <1>1, <1>2, <1>3, <1>4, <1>5, <1>6, <1>7 DEF handle_message

\* Every handler serves one line.
LEMMA ServedBy ==
    ASSUME handle_message
    PROVE  \E cmd \in {"LOGIN", "LIST_ROOMS", "SIT", "LEAVE_ROOM", "START", "SUBMIT",
                       "READY_NEXT_ROUND"} : Serve(cmd)
BY DEF handle_message, handle_login, handle_list_rooms, handle_sit, handle_leave_room,
       handle_start_game, handle_submit, handle_ready_next_round

\* No handler takes a seat before a LOGIN that is still to come.
LEMMA DoorInvServer ==
    ASSUME ShapeInv, DoorInv, handle_message
    PROVE  DoorInv'
<1> QueuesOK
  BY DEF ShapeInv, ClientOK
<1>1. PICK cmd : Serve(cmd)
  BY ServedBy
<1>2. PICK h \in AnyLine :
         /\ h.cmd = cmd
         /\ On(toServer) = On(toServer') \cup {h}
         /\ \A a, b : Before(toServer, a, b) <=> \/ Before(toServer', a, b)
                                                 \/ a = h /\ b \in On(toServer')
  BY <1>1, Taken
<1>3. UNCHANGED <<conn, screen, boxes>>
  BY <1>1 DEF Serve, windowVars
<1>4. \A c : Has(toServer', {c}) => Has(toServer, {c})
  BY <1>2 DEF Has
<1>5. ASSUME attached', me'.place = "room", ~resumed'
      PROVE  ~Has(toServer', {"LOGIN"}) /\ (conn' = "up" => screen' # "Login")
  <2>1. CASE attached /\ me.place = "room" /\ ~resumed
    BY <2>1, <1>3, <1>4 DEF DoorInv
  <2>2. CASE Serve("SIT")
    <3>1. h.cmd = "SIT"
      BY <1>1, <1>2, <2>2 DEF Serve
    <3>2. ~Has(toServer', {"LOGIN"})
      BY <1>2, <3>1 DEF DoorInv, Has
    <3>3. Has(toServer, {"SIT"})
      BY <1>2, <3>1 DEF Has
    <3> QED BY <1>3, <3>2, <3>3 DEF DoorInv
  <2> QED BY <1>5, <2>1, <2>2, SeatTaken
<1> QED BY <1>2, <1>3, <1>4, <1>5 DEF DoorInv

\* Nor does any other step.
LEMMA DoorInvNext ==
    ASSUME ShapeInv, DoorInv, DialogueNext
    PROVE  DoorInv'
<1> QueuesOK /\ SessionOK
  BY DEF ShapeInv, ClientOK
<1>1. CASE Others
  <2>1. UNCHANGED <<conn, toServer, screen, boxes, attached, resumed>>
    BY <1>1 DEF Others, OthersStart, OthersAnswer, OthersVote, GameOver, OthersLeave, OthersRemoved,
                OthersLost, StatusUpdate, Elsewhere, windowVars
  <2>2. me'.place = me.place
    BY <1>1, BeginFields, WinFields, ProceedFields, OverFields
       DEF Others, OthersStart, OthersAnswer, OthersVote, GameOver, OthersLeave, OthersRemoved,
           OthersLost, StatusUpdate, GameBegins
  <2> QED BY <2>1, <2>2 DEF DoorInv
<1>2. ASSUME ~attached' \/ UNCHANGED <<me, attached, resumed>>,
             conn' # "up" \/ UNCHANGED <<conn, screen, toServer>>,
             toServer' = <<>> \/ toServer' \in Beginnings(toServer) \/ UNCHANGED toServer,
             Has(boxes', {"lost"}) => conn' = "none"
      PROVE  DoorInv'
  <2>1. toServer \in Seq(AnyLine)
    BY DEF QueuesOK
  <2>2. /\ On(toServer') \subseteq On(toServer)
        /\ \A a, b : Before(toServer', a, b) => Before(toServer, a, b)
    BY <1>2, <2>1, PrefixOn, OnEmpty
  <2>3. \A c : Has(toServer', {c}) => Has(toServer, {c})
    BY <2>2 DEF Has
  <2> QED BY <1>2, <2>2, <2>3 DEF DoorInv
<1>3. CASE ClientRestarts
  <2>1. ~Has(boxes', {"lost"})
    BY <1>3, OnEmpty DEF ClientRestarts, Started, Has
  <2> QED BY <1>2, <1>3, <2>1 DEF ClientRestarts
<1>4. CASE ConnectionBreaks
  BY <1>2, <1>4 DEF ConnectionBreaks, windowVars, recordVars, DoorInv
<1>5. CASE ServerCloses
  BY <1>2, <1>5 DEF ServerCloses, windowVars, DoorInv
<1>6. CASE client_mark_disconnected
  BY <1>2, <1>6 DEF client_mark_disconnected, clientVars, netVars, windowVars, DoorInv
<1>7. CASE client_disconnect
  BY <1>2, <1>7 DEF client_disconnect, clientVars, netVars, windowVars, DoorInv
<1> QED
  BY <1>1, <1>3, <1>4, <1>5, <1>6, <1>7, DoorInvClient, DoorInvServer DEF DialogueNext

\* LOGIN stands behind no SIT, and not over a connection that took a seat.
THEOREM DoorIsInvariant == DialogueSpec => []DoorInv
<1>1. DialogueInit => DoorInv
  <2> SUFFICES ASSUME DialogueInit PROVE DoorInv
    OBVIOUS
  <2>1. On(toServer) = {} /\ On(boxes) = {} /\ \A a, b : ~Before(toServer, a, b)
    BY OnEmpty DEF DialogueInit, ClientInit
  <2> QED BY <2>1 DEF DialogueInit, DoorInv, Has
<1>2. ShapeInv /\ DoorInv /\ [DialogueNext]_dialogueVars => DoorInv'
  <2>1. DoorInv /\ UNCHANGED dialogueVars => DoorInv'
    BY DEF DoorInv, dialogueVars, clientVars, netVars, windowVars, recordVars
  <2> QED BY <2>1, DoorInvNext
<1> QED BY <1>1, <1>2, ShapeIsInvariant, PTL DEF DialogueSpec

\* LOGIN is read from a seated session only where that was resumed: the client
\* sends it from the login screen alone, and after SIT not any more, however
\* often the user clicks and wherever the connection breaks.
THEOREM DoorHolds == DialogueSpec => []DoorUnlessResumed
<1>1. ShapeInv /\ DoorInv => DoorUnlessResumed
  <2> SUFFICES ASSUME ShapeInv, DoorInv, toServer # <<>>, Head(toServer).cmd = "LOGIN"
               PROVE  Has(toServer, {"LOGIN"})
    BY DEF DoorUnlessResumed, DoorInv
  <2>1. toServer \in Seq(AnyLine)
    BY DEF ShapeInv, ClientOK, QueuesOK
  <2>2. PICK p : p = Tail(toServer)
    OBVIOUS
  <2>3. Head(toServer) \in On(toServer)
    BY <2>1, <2>2, TailOn
  <2> QED BY <2>3 DEF Has
<1> QED BY <1>1, ShapeIsInvariant, DoorIsInvariant, PTL

-----------------------------------------------------------------------------
(***************************************************************************)
(* An answer is for the round being played: while the room waits, nothing  *)
(* that is about the round stands behind the vote of the seat.             *)
(***************************************************************************)

\* Lines of these kinds are at most fewer in p than in q, in the same order.
NoMore(p, q, kinds) ==
    /\ \A l \in On(p) : l.cmd \in kinds => l \in On(q)
    /\ \A a, b : Before(p, a, b) /\ a.cmd \in kinds /\ b.cmd \in kinds => Before(q, a, b)

\* What the operations add of other kinds, they do not add of these.
LEMMA HeardNoMore ==
    ASSUME QueuesOK, NEW cmd, Reads(cmd), NEW kinds
    PROVE  NoMore(toClient', toClient, kinds)
BY Heard DEF NoMore

\* A line taken off by the server.
LEMMA TakenNoMore ==
    ASSUME QueuesOK, NEW cmd, Serve(cmd), NEW kinds
    PROVE  NoMore(toServer', toServer, kinds)
BY Taken DEF NoMore

\* Nothing.
LEMMA SameNoMore ==
    ASSUME NEW q, NEW kinds
    PROVE  NoMore(q, q, kinds)
BY DEF NoMore

\* The first lines of a queue.
LEMMA PrefixNoMore ==
    ASSUME NEW q \in Seq(AnyLine), NEW kinds, NEW p, p \in Beginnings(q) \/ p = <<>>
    PROVE  NoMore(p, q, kinds)
BY PrefixOn, OnEmpty DEF NoMore

\* A line of another kind, sent.
LEMMA SentNoMore ==
    ASSUME QueuesOK, NEW cmd, NEW tag, Line(cmd, tag) \in AnyLine, NEW kinds,
           Line(cmd, tag).cmd \notin kinds, sendCommand(cmd, tag)
    PROVE  NoMore(toServer', toServer, kinds)
BY Sent DEF NoMore

\* A box of another kind, opened.
LEMMA OpenedNoMore ==
    ASSUME QueuesOK, NEW kind, NEW tag, Line(kind, tag) \in AnyLine, NEW kinds,
           Line(kind, tag).cmd \notin kinds, Open(kind, tag)
    PROVE  \A l \in On(boxes') : l.cmd \in kinds => l \in On(boxes)
BY Opened

\* A box closed.
LEMMA ClosedNoMore ==
    ASSUME QueuesOK, NEW kinds, Closes(kinds)
    PROVE  On(boxes') \subseteq On(boxes)
BY Closed

\* Lines of other kinds, sent to the client.
LEMMA ReplyNoMore ==
    ASSUME QueuesOK, NEW s \in Seq(AnyLine), Reply(s) \/ Told(s), NEW kinds,
           \A l \in On(s) : l.cmd \notin kinds
    PROVE  NoMore(toClient', toClient, kinds)
<1>1. CASE Reply(s)
  BY <1>1, Replied, BeforeOn DEF NoMore
<1>2. CASE UNCHANGED toClient
  BY <1>2, SameNoMore
<1> QED BY <1>1, <1>2 DEF Told

OfGame(l) == l.cmd \in RoundKinds /\ l.tag[1] = game
OnScreen  == screen \in {"InGame", "RoundEnd"} /\ shown[1] = game
VoteSent  == \E l \in On(toServer) : l.cmd = "READY_NEXT_ROUND" /\ OfGame(l)

\* What is on its way, asked or shown is about games that have begun.
PastGames ==
    /\ \A l \in On(toServer) \cup On(toClient) \cup On(boxes) :
         l.cmd \in RoundKinds => l.tag[1] <= game
    /\ shown[1] <= game

\* What is about the game is about its round; with the vote of the seat given,
\* or sent, nothing more of the round follows, is asked or shown.
RoundInv ==
    /\ \A l \in On(toServer) \cup On(toClient) \cup On(boxes) :
         OfGame(l) => l.tag[2] = me.round
    /\ OnScreen => shown[2] = me.round
    /\ me.voted \/ VoteSent =>
         /\ \A l \in On(toClient) \cup On(boxes) : ~OfGame(l)
         /\ ~OnScreen
    /\ me.voted => \A l \in On(toServer) : ~OfGame(l)
    /\ VoteSent => me.waiting
    /\ \A a, b : Before(toServer, a, b) /\ a.cmd = "READY_NEXT_ROUND" /\ OfGame(a) => ~OfGame(b)
    /\ \A l \in On(toClient) : l.cmd = "ROUND_END" /\ OfGame(l) => me.waiting
    /\ \A a, b : Before(toClient, a, b) /\ a.cmd = "ROUND_END" /\ OfGame(a) => ~OfGame(b)
    /\ screen = "RoundEnd" /\ OnScreen =>
         me.waiting /\ \A l \in On(toClient) : ~OfGame(l)

AnswerInv == PastGames /\ (me.playing /\ ~outOfTurn => RoundInv)

\* Nothing about a round is added, and the round is the same.
LEMMA AnswerKept ==
    ASSUME AnswerInv, game' = game,
           me'.playing /\ ~outOfTurn' =>
              /\ me.playing /\ ~outOfTurn
              /\ me'.round = me.round /\ me'.waiting = me.waiting /\ me'.voted = me.voted,
           NoMore(toServer', toServer, RoundKinds), NoMore(toClient', toClient, RoundKinds),
           \A l \in On(boxes') : l.cmd \in RoundKinds => l \in On(boxes),
           \/ shown' = shown /\ screen' = screen
           \/ shown' = NoRound /\ screen' \notin {"InGame", "RoundEnd"},
           game \in Nat
    PROVE  AnswerInv'
<1>1. PastGames'
  BY DEF PastGames, AnswerInv, NoMore, NoRound
<1>2. ASSUME me'.playing, ~outOfTurn' PROVE RoundInv'
  <2>1. RoundInv
    BY <1>2 DEF AnswerInv
  <2>2. \A l : OfGame(l)' <=> OfGame(l)
    BY DEF OfGame
  <2>3. OnScreen' => OnScreen /\ shown' = shown /\ screen' = screen
    BY DEF OnScreen
  <2>4. VoteSent' => VoteSent
    BY <2>2 DEF VoteSent, NoMore, RoundKinds
  <2>5. /\ \A l : l \in On(toServer') /\ OfGame(l) => l \in On(toServer)
        /\ \A l : l \in On(toClient') /\ OfGame(l) => l \in On(toClient)
        /\ \A l : l \in On(boxes') /\ OfGame(l) => l \in On(boxes)
        /\ \A a, b : Before(toServer', a, b) /\ OfGame(a) /\ OfGame(b) => Before(toServer, a, b)
        /\ \A a, b : Before(toClient', a, b) /\ OfGame(a) /\ OfGame(b) => Before(toClient, a, b)
    BY DEF NoMore, OfGame
  <2>6. me'.round = me.round /\ me'.waiting = me.waiting /\ me'.voted = me.voted
    BY <1>2
  <2> HIDE DEF AnswerInv
  <2> QED BY <2>1, <2>2, <2>3, <2>4, <2>5, <2>6 DEF RoundInv
<1> QED BY <1>1, <1>2 DEF AnswerInv
\* A line that the client read.
LEMMA AnswerInvReads ==
    ASSUME ShapeInv, AnswerInv, HandleLine, UNCHANGED <<me, game, outOfTurn>>
    PROVE  AnswerInv'
<1> QueuesOK /\ NoRound \in RoundTag /\ game \in Nat
  BY DEF ShapeInv, ClientOK, RecordOK, NoRound, RoundTag
<1>1. ASSUME NEW cmd, Reads(cmd) PROVE NoMore(toClient', toClient, RoundKinds)
  BY <1>1, HeardNoMore
<1>2. NoMore(toServer, toServer, RoundKinds) /\ NoMore(toClient, toClient, RoundKinds)
  BY SameNoMore
<1>3. ASSUME NEW kind \in PlainKinds, Open(kind, NoRound)
      PROVE  \A l \in On(boxes') : l.cmd \in RoundKinds => l \in On(boxes)
  <2>1. kind \notin RoundKinds
    BY DEF PlainKinds, RoundKinds
  <2>2. Line(kind, NoRound) \in AnyLine /\ Line(kind, NoRound).cmd = kind
    BY MadeLine
  <2> QED BY <1>3, <2>1, <2>2, OpenedNoMore
<1>4. ASSUME transitionToLobby
      PROVE  NoMore(toServer', toServer, RoundKinds) /\ shown' = NoRound /\ screen' = "Lobby"
  <2>1. Line("LIST_ROOMS", NoRound) \in AnyLine /\ Line("LIST_ROOMS", NoRound).cmd \notin RoundKinds
    BY MadeLine DEF PlainKinds, RoundKinds
  <2> QED BY <1>4, <2>1, SentNoMore DEF transitionToLobby, Show
<1>5. CASE onLoginSuccessful
  BY <1>1, <1>2, <1>3, <1>5, AnswerKept DEF onLoginSuccessful, PlainKinds
<1>6. CASE onReconnectSuccessful
  BY <1>1, <1>2, <1>3, <1>6, AnswerKept DEF onReconnectSuccessful, PlainKinds
<1>7. CASE onRoomListReceived
  BY <1>1, <1>2, <1>4, <1>7, AnswerKept DEF onRoomListReceived
<1>8. CASE onRoomStatusUpdated
  BY <1>1, <1>2, <1>8, AnswerKept DEF onRoomStatusUpdated, Show
<1>9. CASE onRoomJoined
  BY <1>1, <1>2, <1>9, AnswerKept DEF onRoomJoined, Show
<1>10. CASE onLeftRoom
  BY <1>1, <1>2, <1>4, <1>10, AnswerKept DEF onLeftRoom
<1>11. CASE onGameEnded
  BY <1>1, <1>2, <1>11, AnswerKept DEF onGameEnded, Show
<1>12. CASE onWaitingForContinue
  BY <1>1, <1>2, <1>12, AnswerKept DEF onWaitingForContinue, Show
<1>13. CASE onGameAborted
  BY <1>1, <1>2, <1>3, <1>13, AnswerKept DEF onGameAborted, PlainKinds
<1>14. CASE onPlayerDisconnected
  <2>1. PICK h \in AnyLine : h.cmd = "PLAYER_DISCONNECTED" /\ h.tag = LineTag
    BY <1>14, Heard DEF onPlayerDisconnected
  <2>2. LineTag \in SeatTag
    BY <2>1, TagOf DEF SeatKinds
  <2>3. Line("away", LineTag) \in AnyLine /\ Line("away", LineTag).cmd = "away"
    BY <2>2, MadeLine DEF SeatKinds
  <2>4. \A l \in On(boxes') : l.cmd \in RoundKinds => l \in On(boxes)
    BY <1>14, <2>3, OpenedNoMore DEF onPlayerDisconnected, RoundKinds
  <2> QED BY <1>1, <1>2, <1>14, <2>4, AnswerKept DEF onPlayerDisconnected
<1>15. CASE onDisconnected
  BY <1>2, <1>3, <1>15, AnswerKept DEF onDisconnected, PlainKinds
<1>16. CASE ReadError
  BY <1>2, <1>16, AnswerKept DEF ReadError, windowVars
<1>17. ASSUME NEW cmd \in {"GAME_START", "ROUND_END"}, NEW s \in {"InGame", "RoundEnd"},
              cmd = "ROUND_END" <=> s = "RoundEnd",
              Reads(cmd), screen' = s, shown' = LineTag, UNCHANGED <<toServer, boxes>>
       PROVE  AnswerInv'
  <2>1. PICK h \in AnyLine :
           /\ h.cmd = cmd /\ h.tag = LineTag
           /\ On(toClient) = On(toClient') \cup {h}
           /\ \A a, b : Before(toClient, a, b) <=> \/ Before(toClient', a, b)
                                                   \/ a = h /\ b \in On(toClient')
    BY <1>17, Heard
  <2>2. h.cmd \in RoundKinds /\ h \in On(toClient) /\ shown' = h.tag
    BY <1>17, <2>1 DEF RoundKinds
  <2>3. PastGames'
    BY <1>17, <2>1, <2>2 DEF PastGames, AnswerInv
  <2>4. ASSUME me.playing, ~outOfTurn PROVE RoundInv'
    <3>1. RoundInv
      BY <2>4 DEF AnswerInv
    <3>2. \A l : OfGame(l)' <=> OfGame(l)
      BY DEF OfGame
    <3>3. OnScreen' <=> OfGame(h)
      BY <1>17, <2>2 DEF OnScreen, OfGame
    <3>4. VoteSent' <=> VoteSent
      BY <1>17, <3>2 DEF VoteSent
    <3>5. OfGame(h) => shown'[2] = me.round
      BY <2>2, <3>1 DEF RoundInv
    <3>6. screen' = "RoundEnd" /\ OfGame(h) =>
             me.waiting /\ \A l \in On(toClient') : ~OfGame(l)
      BY <1>17, <2>1, <2>2, <3>1 DEF RoundInv
    <3>7. me.voted \/ VoteSent => \A l \in On(toClient) \cup On(boxes) : ~OfGame(l)
      BY <3>1 DEF RoundInv
    <3> QED
      BY <1>17, <2>1, <2>2, <3>1, <3>2, <3>3, <3>4, <3>5, <3>6, <3>7 DEF RoundInv
  <2> QED BY <2>3, <2>4 DEF AnswerInv
<1>18. CASE onGameStarted
  BY <1>17, <1>18 DEF onGameStarted, Show
<1>19. CASE onRoundEnded
  BY <1>17, <1>19 DEF onRoundEnded, Show
<1> QED
  BY <1>5, <1>6, <1>7, <1>8, <1>9, <1>10, <1>11, <1>12, <1>13, <1>14, <1>15, <1>16, <1>18,
     <1>19 DEF HandleLine

\* A box it closed, a button of its user.
LEMMA AnswerInvActs ==
    ASSUME ShapeInv, AnswerInv, CloseBox \/ UserActs(seat), UNCHANGED <<me, game, outOfTurn>>
    PROVE  AnswerInv'
<1> QueuesOK /\ NoRound \in RoundTag /\ game \in Nat /\ shown \in RoundTag /\ seat \in Nat
  BY DEF ShapeInv, ClientOK, RecordOK, NoRound, RoundTag
<1>1. ASSUME NEW kinds, Closes(kinds)
      PROVE  \A l \in On(boxes') : l.cmd \in RoundKinds => l \in On(boxes)
  BY <1>1, ClosedNoMore
<1>2. NoMore(toServer, toServer, RoundKinds) /\ NoMore(toClient, toClient, RoundKinds)
  BY SameNoMore
<1>4. ASSUME NEW cmd \in PlainKinds, sendCommand(cmd, NoRound)
      PROVE  NoMore(toServer', toServer, RoundKinds)
  BY <1>4, MadeLine, SentNoMore DEF PlainKinds, RoundKinds
<1>5. CASE LobbyAfterBox
  BY <1>1, <1>2, <1>4, <1>5, AnswerKept DEF LobbyAfterBox, transitionToLobby, Show, PlainKinds
<1>6. CASE ReconnectingAfterBox
  BY <1>1, <1>2, <1>6, AnswerKept DEF ReconnectingAfterBox, netVars
<1>7. CASE LoginAfterBox
  BY <1>1, <1>2, <1>7, AnswerKept DEF LoginAfterBox, netVars, Show
<1>8. CASE Answered({"away", "leave"}, "LEAVE_ROOM")
  <2>1. PICK b \in AnyLine : b = boxes[Len(boxes)] /\ b.cmd \in {"away", "leave"}
    BY <1>8, Closed DEF Answered
  <2>2. Line("LEAVE_ROOM", b.tag) \in AnyLine /\ Line("LEAVE_ROOM", b.tag).cmd \notin RoundKinds
    BY <2>1, MadeLine, TagOf DEF SeatKinds, RoundKinds
  <2>3. NoMore(toServer', toServer, RoundKinds)
    BY <1>2, <1>8, <2>1, <2>2, SentNoMore DEF Answered
  <2> QED BY <1>1, <1>2, <1>8, <2>3, AnswerKept DEF Answered
<1>9. CASE Answered({"submit"}, "SUBMIT")
  <2>1. PICK b \in AnyLine : /\ b = boxes[Len(boxes)] /\ b.cmd = "submit" /\ b \in On(boxes)
                             /\ On(boxes') \subseteq On(boxes)
    BY <1>9, Closed DEF Answered
  <2>2. PICK x \in AnyLine : x = Line("SUBMIT", b.tag) /\ x.cmd = "SUBMIT" /\ x.tag = b.tag
    BY <2>1, MadeLine, TagOf DEF RoundKinds
  <2>3. UNCHANGED <<toClient, screen, shown>>
    BY <1>9 DEF Answered
  <2>4. CASE toServer' = toServer
    BY <1>1, <1>2, <1>9, <2>3, <2>4, AnswerKept DEF Answered
  <2>5. CASE /\ On(toServer') = On(toServer) \cup {x}
             /\ \A a, c : Before(toServer', a, c) <=> \/ Before(toServer, a, c)
                                                      \/ a \in On(toServer) /\ c = x
    <3>1. PastGames'
      BY <2>1, <2>2, <2>3, <2>5 DEF PastGames, AnswerInv, RoundKinds
    <3>2. ASSUME me.playing, ~outOfTurn PROVE RoundInv'
      <4>1. RoundInv
        BY <3>2 DEF AnswerInv
      <4>2. \A l : OfGame(l)' <=> OfGame(l)
        BY DEF OfGame
      <4>3. OnScreen' <=> OnScreen
        BY <2>3 DEF OnScreen
      <4>4. VoteSent' <=> VoteSent
        BY <2>2, <2>5, <4>2 DEF VoteSent
      <4>5. OfGame(x) <=> OfGame(b)
        BY <2>1, <2>2 DEF OfGame, RoundKinds
      <4>6. OfGame(x) => x.tag[2] = me.round
        BY <2>1, <2>2, <4>1, <4>5 DEF RoundInv
      <4>7. me.voted \/ VoteSent => ~OfGame(x)
        BY <2>1, <4>1, <4>5 DEF RoundInv
      <4>8. ASSUME NEW a, NEW c, Before(toServer', a, c), a.cmd = "READY_NEXT_ROUND", OfGame(a)
            PROVE  ~OfGame(c)
        BY <2>5, <4>1, <4>7, <4>8 DEF RoundInv, VoteSent
      <4> QED
        BY <2>1, <2>3, <2>5, <4>1, <4>2, <4>3, <4>4, <4>6, <4>7, <4>8 DEF RoundInv
    <3> QED BY <3>1, <3>2 DEF AnswerInv
  <2> QED BY <1>9, <2>1, <2>2, <2>4, <2>5, Sent DEF Answered
<1>10. CASE onConnectClicked
  BY <1>2, <1>10, AnswerKept DEF onConnectClicked
<1>11. CASE onLoginClicked \/ SitClicked \/ StartClicked
  BY <1>2, <1>4, <1>11, AnswerKept
     DEF onLoginClicked, SitClicked, StartClicked, Sends, windowVars, PlainKinds
<1>12. CASE onLeaveRoomClicked(seat)
  <2>1. Line("leave", <<seat>>) \in AnyLine /\ Line("leave", <<seat>>).cmd \notin RoundKinds
    BY MadeLine DEF SeatTag, SeatKinds, RoundKinds
  <2>2. \A l \in On(boxes') : l.cmd \in RoundKinds => l \in On(boxes)
    BY <1>12, <2>1, OpenedNoMore DEF onLeaveRoomClicked
  <2> QED BY <1>2, <1>12, <2>2, AnswerKept DEF onLeaveRoomClicked, netVars
<1>13. CASE onSubmitClicked
  <2>1. PICK x \in AnyLine : x = Line("submit", shown) /\ x.cmd = "submit" /\ x.tag = shown
    BY MadeLine DEF RoundKinds
  <2>2. On(boxes') = On(boxes) \cup {x}
    BY <1>13, <2>1, Opened DEF onSubmitClicked
  <2>3. UNCHANGED <<toServer, toClient, screen, shown>> /\ screen = "InGame"
    BY <1>13 DEF onSubmitClicked, netVars, Clicks
  <2>4. PastGames'
    BY <2>1, <2>2, <2>3 DEF PastGames, AnswerInv
  <2>5. ASSUME me.playing, ~outOfTurn PROVE RoundInv'
    <3>1. RoundInv
      BY <2>5 DEF AnswerInv
    <3>2. \A l : OfGame(l)' <=> OfGame(l)
      BY DEF OfGame
    <3>3. (OnScreen' <=> OnScreen) /\ (VoteSent' <=> VoteSent)
      BY <2>3, <3>2 DEF OnScreen, VoteSent
    <3>4. OfGame(x) <=> OnScreen
      BY <2>1, <2>3 DEF OfGame, OnScreen, RoundKinds
    <3> QED BY <2>1, <2>2, <2>3, <3>1, <3>2, <3>3, <3>4 DEF RoundInv
  <2> QED BY <2>4, <2>5 DEF AnswerInv
<1>14. CASE onBackToRoomClicked
  BY <1>2, <1>14, AnswerKept DEF onBackToRoomClicked, netVars, Show
<1>15. CASE onContinueClicked
  <2>1. PICK x \in AnyLine :
           x = Line("READY_NEXT_ROUND", shown) /\ x.cmd = "READY_NEXT_ROUND" /\ x.tag = shown
    BY MadeLine DEF RoundKinds
  <2>2. /\ UNCHANGED <<toClient, boxes>> /\ screen = "RoundEnd" /\ On(boxes) = {}
        /\ screen' = "Voted" /\ shown' = NoRound
    BY <1>15, OnEmpty DEF onContinueClicked, Clicks, UserFree, Show
  <2>3. CASE toServer' = toServer
    BY <1>2, <2>2, <2>3, AnswerKept
  <2>4. CASE /\ On(toServer') = On(toServer) \cup {x}
             /\ \A a, c : Before(toServer', a, c) <=> \/ Before(toServer, a, c)
                                                      \/ a \in On(toServer) /\ c = x
    <3>1. PastGames'
      BY <2>1, <2>2, <2>4 DEF PastGames, AnswerInv, NoRound
    <3>2. ASSUME me.playing, ~outOfTurn PROVE RoundInv'
      <4>1. RoundInv
        BY <3>2 DEF AnswerInv
      <4>2. \A l : OfGame(l)' <=> OfGame(l)
        BY DEF OfGame
      <4>3. ~OnScreen'
        BY <2>2 DEF OnScreen
      <4>4. OfGame(x) <=> OnScreen
        BY <2>1, <2>2 DEF OnScreen, OfGame, RoundKinds
      <4>5. OfGame(x) => /\ x.tag[2] = me.round /\ me.waiting /\ ~me.voted /\ ~VoteSent
                         /\ \A l \in On(toClient) : ~OfGame(l)
        BY <2>1, <2>2, <4>1, <4>4 DEF RoundInv
      <4>6. VoteSent' => VoteSent \/ OfGame(x)
        BY <2>4, <4>2 DEF VoteSent
      <4>7. ASSUME NEW a, NEW c, Before(toServer', a, c), a.cmd = "READY_NEXT_ROUND", OfGame(a)
            PROVE  ~OfGame(c)
        BY <2>4, <4>1, <4>5, <4>7 DEF RoundInv, VoteSent
      <4> QED
        BY <2>2, <2>4, <4>1, <4>2, <4>3, <4>5, <4>6, <4>7 DEF RoundInv
    <3> QED BY <3>1, <3>2 DEF AnswerInv
  <2> QED BY <1>15, <2>1, <2>3, <2>4, Sent DEF onContinueClicked
<1> QED
  BY <1>5, <1>6, <1>7, <1>8, <1>9, <1>10, <1>11, <1>12, <1>13, <1>14, <1>15 DEF CloseBox, UserActs
\* What the server says of other things.
LEMMA PlainReply ==
    ASSUME QueuesOK, NEW s \in Seq(AnyLine), Reply(s) \/ Told(s),
           NEW c, NEW d, c.cmd \notin RoundKinds, d.cmd \notin RoundKinds, On(s) \subseteq {c, d}
    PROVE  NoMore(toClient', toClient, RoundKinds)
BY ReplyNoMore

\* The replies of one or two lines about nothing in particular.
LEMMA PlainPair ==
    ASSUME QueuesOK, NEW c \in PlainKinds, NEW d \in PlainKinds,
           NEW s, s = <<Line(c, NoRound), Line(d, NoRound)>> \/ s = <<Line(c, NoRound)>>,
           Reply(s) \/ Told(s)
    PROVE  NoMore(toClient', toClient, RoundKinds)
<1>1. NoRound \in RoundTag
  BY DEF NoRound, RoundTag
<1>2. /\ Line(c, NoRound) \in AnyLine /\ Line(c, NoRound).cmd \notin RoundKinds
      /\ Line(d, NoRound) \in AnyLine /\ Line(d, NoRound).cmd \notin RoundKinds
  BY <1>1, MadeLine DEF PlainKinds, RoundKinds
<1>3. s \in Seq(AnyLine) /\ On(s) \subseteq {Line(c, NoRound), Line(d, NoRound)}
  BY <1>2, OneLine, TwoLines
<1> QED BY <1>2, <1>3, PlainReply

\* Nothing is on its way, asked or shown about a game that begins, but its own
\* GAME_START.
LEMMA AnswerBegins ==
    ASSUME ShapeInv, AnswerInv, GameBegins, Reply(<<GameStart>>) \/ Told(<<GameStart>>),
           NoMore(toServer', toServer, RoundKinds), UNCHANGED <<screen, shown, boxes>>
    PROVE  AnswerInv'
<1> QueuesOK /\ SessionOK /\ game \in Nat
  BY DEF ShapeInv, ClientOK, RecordOK
<1>1. game' = game + 1 /\ ~me'.voted /\ ~me'.waiting /\ me'.round = 1
  BY BeginFields DEF GameBegins
<1>2. <<game', me'.round>> \in RoundTag
  BY <1>1 DEF RoundTag
<1>3. PICK g \in AnyLine : g = GameStart /\ g.cmd = "GAME_START" /\ g.tag = <<game', me'.round>>
  BY <1>2, MadeLine DEF GameStart, RoundKinds
<1>4. /\ <<GameStart>> \in Seq(AnyLine) /\ On(<<GameStart>>) = {g}
      /\ \A a, b : ~Before(<<GameStart>>, a, b)
  BY <1>3, OneLine
<1>5. /\ On(toClient') \subseteq On(toClient) \cup {g}
      /\ \A a, b : Before(toClient', a, b) => Before(toClient, a, b) \/ a \in On(toClient)
  BY <1>4, Replied DEF Told
<1>6. \A l \in On(toServer) \cup On(toClient) \cup On(boxes) :
         l.cmd \in RoundKinds => l.tag[1] <= game
  BY DEF AnswerInv, PastGames
<1>7. g.tag[1] = game' /\ g.tag[2] = me'.round
  BY <1>3
<1>8. \A l \in On(toServer') \cup On(toClient') \cup On(boxes') :
         l.cmd \in RoundKinds =>
            \/ l = g
            \/ l.tag[1] <= game /\ l \in On(toServer) \cup On(toClient) \cup On(boxes)
  BY <1>5, <1>6 DEF NoMore
<1>9. \A l \in AnyLine : l.cmd \in RoundKinds => l.tag[1] \in Nat
  BY TagOf DEF RoundTag
<1>10. On(toServer) \cup On(toClient) \cup On(boxes) \subseteq AnyLine
  BY LenProperties, ElementOfSeq DEF QueuesOK, On
<1>11. PastGames'
  <2>1. \A l \in On(toServer') \cup On(toClient') \cup On(boxes') :
           l.cmd \in RoundKinds => l.tag[1] <= game + 1
    BY <1>1, <1>7, <1>8, <1>9, <1>10
  <2>2. shown'[1] <= game + 1
    BY DEF AnswerInv, PastGames, ShapeInv, ClientOK, RoundTag
  <2> QED BY <1>1, <2>1, <2>2 DEF PastGames
<1>12. \A l \in On(toServer') \cup On(toClient') \cup On(boxes') : OfGame(l)' => l = g
  BY <1>1, <1>8, <1>9, <1>10 DEF OfGame
<1>13. ~OnScreen'
  BY <1>1 DEF OnScreen, AnswerInv, PastGames, ShapeInv, ClientOK, RoundTag
<1>14. \A l \in On(toServer') \cup On(boxes') : ~OfGame(l)'
  <2>1. \A l \in On(toServer') \cup On(boxes') :
           l.cmd \in RoundKinds => l \in On(toServer) \cup On(boxes)
    BY DEF NoMore
  <2> QED BY <1>1, <1>6, <1>9, <1>10, <2>1 DEF OfGame
<1>15. ~VoteSent'
  BY <1>14 DEF VoteSent
<1>16. \A l \in On(toClient) : ~OfGame(l)'
  BY <1>1, <1>6, <1>9, <1>10 DEF OfGame
<1>17. \A a, b : Before(toServer', a, b) => ~OfGame(a)'
  BY <1>14, BeforeOn
<1>18. \A a, b : Before(toClient', a, b) => ~OfGame(a)'
  BY <1>5, <1>16, BeforeOn
<1>19. RoundInv'
  <2>1. \A l \in On(toServer') \cup On(toClient') \cup On(boxes') :
           OfGame(l)' => l.tag[2] = me'.round
    BY <1>7, <1>12
  <2>2. \A l \in On(toClient') : l.cmd = "ROUND_END" => ~OfGame(l)'
    BY <1>3, <1>12
  <2> QED BY <1>1, <1>13, <1>14, <1>15, <1>17, <1>18, <2>1, <2>2 DEF RoundInv
<1> QED BY <1>11, <1>19 DEF AnswerInv

\* A round starts with the vote of this seat given.
LEMMA AnswerProceeds ==
    ASSUME ShapeInv, AnswerInv, Proceed, game' = game,
           Reply(<<GameStart>>) \/ Told(<<GameStart>>),
           NoMore(toServer', toServer, RoundKinds), UNCHANGED <<screen, shown, boxes>>,
           ~outOfTurn' =>
              /\ ~outOfTurn
              /\ me.voted \/ VoteSent
              /\ \A l \in On(toServer') : ~OfGame(l)
    PROVE  AnswerInv'
<1> QueuesOK /\ SessionOK /\ game \in Nat
  BY DEF ShapeInv, ClientOK, RecordOK
<1>1. ~me'.voted /\ ~me'.waiting /\ me.playing /\ SessionOK'
  BY ProceedFields
<1>2. <<game', me'.round>> \in RoundTag
  BY <1>1 DEF RoundTag, SessionOK, Session
<1>3. PICK g \in AnyLine : g = GameStart /\ g.cmd = "GAME_START" /\ g.tag = <<game', me'.round>>
  BY <1>2, MadeLine DEF GameStart, RoundKinds
<1>4. /\ <<GameStart>> \in Seq(AnyLine) /\ On(<<GameStart>>) = {g}
      /\ \A a, b : ~Before(<<GameStart>>, a, b)
  BY <1>3, OneLine
<1>5. /\ On(toClient') \subseteq On(toClient) \cup {g}
      /\ \A a, b : Before(toClient', a, b) => Before(toClient, a, b) \/ a \in On(toClient)
  BY <1>4, Replied DEF Told
<1>6. g.tag[1] = game /\ g.tag[2] = me'.round
  BY <1>3
<1>7. PastGames'
  BY <1>5, <1>6 DEF PastGames, AnswerInv, NoMore
<1>8. ASSUME ~outOfTurn' PROVE RoundInv'
  <2>1. RoundInv
    BY <1>1, <1>8 DEF AnswerInv
  <2>2. \A l : OfGame(l)' <=> OfGame(l)
    BY DEF OfGame
  <2>3. (\A l \in On(toClient) \cup On(boxes) : ~OfGame(l)) /\ ~OnScreen
    BY <1>8, <2>1 DEF RoundInv
  <2>4. \A l \in On(toServer') : ~OfGame(l)
    BY <1>8
  <2>5. ~OnScreen' /\ ~VoteSent'
    BY <2>2, <2>3, <2>4 DEF OnScreen, VoteSent
  <2>6. \A l \in On(toServer') \cup On(toClient') \cup On(boxes') : OfGame(l) => l = g
    BY <1>5, <2>3, <2>4
  <2>7. \A a, b : Before(toServer', a, b) => ~OfGame(a)
    BY <2>4, BeforeOn
  <2>8. \A a, b : Before(toClient', a, b) => ~OfGame(a)
    BY <1>5, <2>3, BeforeOn
  <2>9. \A l \in On(toClient') : l.cmd = "ROUND_END" => ~OfGame(l)
    BY <1>3, <2>6
  <2> QED BY <1>1, <1>6, <2>2, <2>4, <2>5, <2>6, <2>7, <2>8, <2>9 DEF RoundInv
<1> QED BY <1>7, <1>8 DEF AnswerInv

\* A round is won.
LEMMA AnswerWins ==
    ASSUME ShapeInv, AnswerInv, Win, UNCHANGED <<game, outOfTurn>>,
           Reply(<<RoundEndLine>>) \/ Told(<<RoundEndLine>>),
           NoMore(toServer', toServer, RoundKinds), UNCHANGED <<screen, shown, boxes>>
    PROVE  AnswerInv'
<1> QueuesOK /\ SessionOK /\ game \in Nat
  BY DEF ShapeInv, ClientOK, RecordOK
<1>1. me.playing /\ ~me.waiting /\ me'.waiting /\ ~me'.voted /\ me'.round = me.round
  BY WinFields
<1>2. Now \in RoundTag
  BY NowOK DEF ShapeInv
<1>3. PICK g \in AnyLine : g = RoundEndLine /\ g.cmd = "ROUND_END" /\ g.tag = Now
  BY <1>2, MadeLine DEF RoundEndLine, RoundKinds
<1>4. /\ <<RoundEndLine>> \in Seq(AnyLine) /\ On(<<RoundEndLine>>) = {g}
      /\ \A a, b : ~Before(<<RoundEndLine>>, a, b)
  BY <1>3, OneLine
<1>5. /\ On(toClient') \subseteq On(toClient) \cup {g}
      /\ \A a, b : Before(toClient', a, b) => Before(toClient, a, b) \/ a \in On(toClient)
  BY <1>4, Replied DEF Told
<1>6. g.tag[1] = game /\ g.tag[2] = me.round
  BY <1>3 DEF Now
<1>7. PastGames'
  BY <1>5, <1>6 DEF PastGames, AnswerInv, NoMore
<1>8. ASSUME ~outOfTurn PROVE RoundInv'
  <2>1. RoundInv
    BY <1>1, <1>8 DEF AnswerInv
  <2>2. \A l : OfGame(l)' <=> OfGame(l)
    BY DEF OfGame
  <2>3. ~VoteSent /\ ~(screen = "RoundEnd" /\ OnScreen)
    BY <1>1, <2>1 DEF RoundInv
  <2>4. \A l \in On(toClient) : l.cmd = "ROUND_END" => ~OfGame(l)
    BY <1>1, <2>1 DEF RoundInv
  <2>5. ~VoteSent' /\ (OnScreen' <=> OnScreen)
    BY <2>2, <2>3 DEF VoteSent, OnScreen, NoMore, RoundKinds
  <2>6. \A a, b : Before(toServer', a, b) /\ a.cmd = "READY_NEXT_ROUND" => ~OfGame(a)
    BY <2>2, <2>5, BeforeOn DEF VoteSent
  <2>7. \A a, b : Before(toClient', a, b) /\ a.cmd = "ROUND_END" => ~OfGame(a)
    BY <1>5, <2>4, BeforeOn
  <2>8. \A l \in On(toServer') \cup On(toClient') \cup On(boxes') : OfGame(l) => l.tag[2] = me.round
    BY <1>5, <1>6, <2>1 DEF RoundInv, NoMore, OfGame
  <2>9. OnScreen => shown[2] = me.round
    BY <2>1 DEF RoundInv
  <2> QED BY <1>1, <2>2, <2>3, <2>5, <2>6, <2>7, <2>8, <2>9 DEF RoundInv
<1> QED BY <1>7, <1>8 DEF AnswerInv

\* What the server handles keeps answers in their round.
LEMMA AnswerInvServer ==
    ASSUME ShapeInv, AnswerInv, handle_message
    PROVE  AnswerInv'
<1> QueuesOK /\ SessionOK /\ game \in Nat /\ outOfTurn \in BOOLEAN /\ NoRound \in RoundTag
  BY DEF ShapeInv, ClientOK, RecordOK, NoRound, RoundTag
<1>1. PICK cmd : Serve(cmd)
  BY ServedBy
<1>2. /\ NoMore(toServer', toServer, RoundKinds)
      /\ UNCHANGED <<screen, shown, boxes>>
  BY <1>1, TakenNoMore DEF Serve, windowVars
<1>3. \A l \in On(boxes') : l.cmd \in RoundKinds => l \in On(boxes)
  BY <1>2
<1>4. ASSUME game' = game, NoMore(toClient', toClient, RoundKinds),
             me'.playing /\ ~outOfTurn' =>
                /\ me.playing /\ ~outOfTurn
                /\ me'.round = me.round /\ me'.waiting = me.waiting /\ me'.voted = me.voted
      PROVE  AnswerInv'
  BY <1>2, <1>3, <1>4, AnswerKept
<1>5. ASSUME Refused PROVE AnswerInv'
  BY <1>4, <1>5, SameNoMore DEF Refused, recordVars
<1>6. CASE handle_login
  <2>1. CASE Enter /\ Reply(<<Line("LOGIN_OK", NoRound), RoomList>>) /\ UNCHANGED game
    <3>1. NoMore(toClient', toClient, RoundKinds)
      BY <2>1, PlainPair DEF RoomList, PlainKinds
    <3> QED BY <1>4, <2>1, <3>1, EnterFields
  <2>2. CASE /\ Resume /\ Reply(<<Line("RECONNECT_OK", NoRound), FollowUp>>)
             /\ outOfTurn' = (outOfTurn \/ (me.playing /\ me.waiting)) /\ UNCHANGED game
    <3>1. /\ me'.playing = me.playing /\ me'.round = me.round
          /\ me'.waiting = me.waiting /\ me'.voted = me.voted
      BY <2>2, ResumeFields
    <3>2. CASE ~me.playing \/ me.stray
      <4>1. NoMore(toClient', toClient, RoundKinds)
        <5>1. PICK d \in {"ROOM_STATUS", "ROOM_LIST"} : FollowUp = Line(d, NoRound)
          BY <3>2 DEF FollowUp, RoomList, Status
        <5> QED BY <2>2, <5>1, PlainPair DEF PlainKinds
      <4> QED BY <1>4, <2>2, <3>1, <4>1
    <3>3. CASE me.playing /\ ~me.stray
      <4>1. Now \in RoundTag
        BY NowOK DEF ShapeInv
      <4>2. PICK g \in AnyLine : g = FollowUp /\ g.cmd = "GAME_START" /\ g.tag = Now
        BY <3>3, <4>1, MadeLine DEF FollowUp, RoundKinds
      <4>3. PICK r \in AnyLine : r = Line("RECONNECT_OK", NoRound) /\ r.cmd = "RECONNECT_OK"
        BY MadeLine DEF PlainKinds
      <4>4. PICK s : s = <<r, g>>
        OBVIOUS
      <4>5. /\ s \in Seq(AnyLine) /\ On(s) = {r, g}
            /\ \A a, b : Before(s, a, b) <=> a = r /\ b = g
        BY <4>4, TwoLines
      <4>6. Reply(s)
        BY <2>2, <4>2, <4>3, <4>4
      <4>7. /\ On(toClient') \subseteq On(toClient) \cup {r, g}
            /\ \A a, b : Before(toClient', a, b) =>
                           Before(toClient, a, b) \/ a \in On(toClient) \/ a = r
        BY <4>5, <4>6, Replied
      <4>8. g.tag[1] = game /\ g.tag[2] = me.round /\ r.cmd \notin RoundKinds
        BY <4>2, <4>3 DEF Now, RoundKinds
      <4>9. PastGames'
        BY <1>2, <2>2, <4>7, <4>8 DEF PastGames, AnswerInv, NoMore
      <4>10. ASSUME ~outOfTurn' PROVE RoundInv'
        <5>1. RoundInv /\ ~me.waiting
          BY <2>2, <3>3, <4>10 DEF AnswerInv
        <5>2. \A l : OfGame(l)' <=> OfGame(l)
          BY <2>2 DEF OfGame
        <5>3. ~me.voted /\ ~VoteSent /\ ~(screen = "RoundEnd" /\ OnScreen)
          BY <5>1 DEF RoundInv, SessionOK
        <5>4. \A l \in On(toClient) : l.cmd = "ROUND_END" => ~OfGame(l)
          BY <5>1 DEF RoundInv
        <5>5. ~VoteSent' /\ (OnScreen' <=> OnScreen)
          BY <1>2, <2>2, <5>2, <5>3 DEF VoteSent, OnScreen, NoMore, RoundKinds
        <5>6. \A a, b : Before(toServer', a, b) /\ a.cmd = "READY_NEXT_ROUND" => ~OfGame(a)
          BY <5>2, <5>5, BeforeOn DEF VoteSent
        <5>7. \A l \in On(toClient') : l.cmd = "ROUND_END" => ~OfGame(l)
          BY <4>2, <4>3, <4>7, <5>4
        <5>8. \A a, b : Before(toClient', a, b) /\ a.cmd = "ROUND_END" => ~OfGame(a)
          BY <5>7, BeforeOn
        <5>9. \A l \in On(toServer') \cup On(toClient') \cup On(boxes') :
                 OfGame(l) => l.tag[2] = me.round
          BY <1>2, <4>7, <4>8, <5>1 DEF RoundInv, NoMore, OfGame
        <5>10. OnScreen => shown[2] = me.round
          BY <5>1 DEF RoundInv
        <5> QED
          BY <1>2, <3>1, <5>2, <5>3, <5>5, <5>6, <5>7, <5>8, <5>9, <5>10 DEF RoundInv
      <4> QED BY <4>9, <4>10 DEF AnswerInv
    <3> QED BY <3>2, <3>3
  <2>3. CASE /\ Again /\ Reply(<<Line("LOGIN_OK", NoRound), RoomList>>)
             /\ UNCHANGED <<game, outOfTurn>>
    <3>1. NoMore(toClient', toClient, RoundKinds)
      BY <2>3, PlainPair DEF RoomList, PlainKinds
    <3> QED BY <1>4, <2>3, <3>1, AgainFields
  <2> QED BY <1>5, <1>6, <2>1, <2>2, <2>3 DEF handle_login
<1>7. CASE handle_list_rooms
  <2>1. NoMore(toClient', toClient, RoundKinds)
    BY <1>7, PlainPair DEF handle_list_rooms, RoomList, PlainKinds
  <2> QED BY <1>4, <1>7, <2>1 DEF handle_list_rooms, recordVars
<1>8. CASE handle_sit
  <2>1. CASE Sit /\ Reply(<<Status, Line("ROOM_JOINED", NoRound)>>) /\ UNCHANGED game
    <3>1. NoMore(toClient', toClient, RoundKinds)
      BY <2>1, PlainPair DEF Status, PlainKinds
    <3> QED BY <1>4, <2>1, <3>1, SitFields
  <2> QED BY <1>5, <1>8, <2>1 DEF handle_sit
<1>9. CASE handle_leave_room
  <2>1. CASE /\ Rise /\ UNCHANGED recordVars
             /\ Reply((IF me.playing THEN <<Line("GAME_ABORTED", NoRound)>> ELSE <<>>)
                        \o <<Line("LEFT_ROOM", <<seat>>), RoomList>>)
    <3>1. <<seat>> \in SeatTag
      BY NowOK DEF ShapeInv
    <3>2. PICK x \in AnyLine : x = Line("GAME_ABORTED", NoRound) /\ x.cmd = "GAME_ABORTED"
      BY MadeLine DEF PlainKinds
    <3>3. PICK y \in AnyLine : y = Line("LEFT_ROOM", <<seat>>) /\ y.cmd = "LEFT_ROOM"
      BY <3>1, MadeLine DEF SeatKinds
    <3>4. PICK z \in AnyLine : z = RoomList /\ z.cmd = "ROOM_LIST"
      BY MadeLine DEF PlainKinds, RoomList
    <3>5. PICK s : s = <<y, z>>
      OBVIOUS
    <3>6. s \in Seq(AnyLine) /\ On(s) = {y, z}
      BY <3>5, TwoLines
    <3>7. PICK w : w = (IF me.playing THEN <<x>> ELSE <<>>) \o s
      OBVIOUS
    <3>8. w \in Seq(AnyLine) /\ On(w) \subseteq {x, y, z}
      <4>1. (me.playing => w = <<x>> \o s) /\ (~me.playing => w = <<>> \o s)
        BY <3>7
      <4>2. me.playing \in BOOLEAN
        BY DEF SessionOK, Session
      <4> QED BY <3>6, <4>1, <4>2, PerhapsFirst
    <3>9. Reply(w)
      BY <2>1, <3>2, <3>3, <3>4, <3>5, <3>7
    <3>10. NoMore(toClient', toClient, RoundKinds)
      BY <3>2, <3>3, <3>4, <3>8, <3>9, ReplyNoMore DEF RoundKinds
    <3> QED BY <1>4, <2>1, <3>10, RiseFields DEF recordVars
  <2> QED BY <1>5, <1>9, <2>1 DEF handle_leave_room
<1>10. CASE handle_start_game
  BY <1>2, <1>5, <1>10, AnswerBegins DEF handle_start_game
<1>11. CASE handle_submit
  <2>1. CASE CanSubmit
    <3>1. UNCHANGED recordVars
      BY <1>11, <2>1 DEF handle_submit
    <3>2. CASE Answer /\ UNCHANGED toClient
      BY <1>4, <3>1, <3>2, AnswerFields, SameNoMore DEF recordVars
    <3>3. CASE Win /\ Reply(<<RoundEndLine>>)
      BY <1>2, <3>1, <3>3, AnswerWins DEF recordVars
    <3>4. CASE Over /\ Reply(GameOverLines)
      <4>1. NoMore(toClient', toClient, RoundKinds)
        BY <3>4, PlainPair DEF GameOverLines, Status, PlainKinds
      <4> QED BY <1>4, <3>1, <3>4, <4>1, OverFields DEF recordVars
    <3> QED BY <1>11, <2>1, <3>2, <3>3, <3>4 DEF handle_submit
  <2> QED BY <1>5, <1>11, <2>1 DEF handle_submit
<1>12. CASE handle_ready_next_round
  <2>1. PICK h \in AnyLine :
           /\ h.cmd = "READY_NEXT_ROUND" /\ h.tag = ToldTag
           /\ On(toServer) = On(toServer') \cup {h}
           /\ \A a, b : Before(toServer, a, b) <=> \/ Before(toServer', a, b)
                                                   \/ a = h /\ b \in On(toServer')
    BY <1>12, Taken DEF handle_ready_next_round
  <2>2. ASSUME CountsFor(game), ~outOfTurn', me.playing
        PROVE  /\ ~outOfTurn /\ RoundInv /\ VoteSent
               /\ \A l \in On(toServer') : ~OfGame(l)
    <3>1. ~outOfTurn /\ RoundInv /\ OfGame(h)
      BY <2>1, <2>2 DEF CountsFor, AnswerInv, OfGame, RoundKinds
    <3>2. VoteSent
      BY <2>1, <3>1 DEF VoteSent
    <3>3. \A l \in On(toServer') : ~OfGame(l)
      BY <2>1, <3>1 DEF RoundInv
    <3> QED BY <3>1, <3>2, <3>3
  <2>3. CASE Vote /\ CountsFor(game) /\ Reply(<<Line("WAIT_CONTINUE", NoRound)>>)
    <3>1. NoMore(toClient', toClient, RoundKinds)
      BY <2>3, PlainPair DEF PlainKinds
    <3>2. /\ me'.playing = me.playing /\ me'.round = me.round
          /\ me'.waiting = me.waiting /\ me'.voted /\ me.waiting
      BY <2>3, VoteFields
    <3>3. game' = game
      BY <2>3 DEF CountsFor
    <3>4. PastGames'
      BY <1>2, <3>1, <3>3 DEF PastGames, AnswerInv, NoMore
    <3>5. ASSUME me'.playing, ~outOfTurn' PROVE RoundInv'
      <4>1. RoundInv /\ VoteSent /\ \A l \in On(toServer') : ~OfGame(l)
        BY <2>2, <2>3, <3>2, <3>5
      <4>2. \A l : OfGame(l)' <=> OfGame(l)
        BY <3>3 DEF OfGame
      <4>3. ~OnScreen' /\ ~VoteSent'
        BY <1>2, <3>3, <4>1, <4>2 DEF RoundInv, OnScreen, VoteSent
      <4>4. \A l \in On(toServer') \cup On(toClient') \cup On(boxes') : ~OfGame(l)
        BY <1>2, <3>1, <4>1 DEF RoundInv, NoMore, OfGame
      <4>5. \A a, b : Before(toServer', a, b) \/ Before(toClient', a, b) => ~OfGame(a)
        BY <4>4, BeforeOn
      <4> QED BY <4>2, <4>3, <4>4, <4>5 DEF RoundInv
    <3> QED BY <3>4, <3>5 DEF AnswerInv
  <2>4. CASE Proceed /\ CountsFor(game) /\ Reply(<<GameStart>>)
    <3>1. me.playing /\ game' = game
      BY <2>4, ProceedFields DEF CountsFor
    <3>2. ~outOfTurn' => /\ ~outOfTurn /\ VoteSent
                         /\ \A l \in On(toServer') : ~OfGame(l)
      BY <2>2, <2>4, <3>1
    <3> QED BY <1>2, <2>4, <3>1, <3>2, AnswerProceeds
  <2>5. CASE GameBegins /\ Reply(<<GameStart>>)
    BY <1>2, <2>5, AnswerBegins
  <2> QED BY <1>5, <1>12, <2>3, <2>4, <2>5 DEF handle_ready_next_round
<1> QED BY <1>6, <1>7, <1>8, <1>9, <1>10, <1>11, <1>12 DEF handle_message

\* So does what the others do.
LEMMA AnswerInvOthers ==
    ASSUME ShapeInv, AnswerInv, Others
    PROVE  AnswerInv'
<1> QueuesOK /\ SessionOK /\ game \in Nat /\ NoRound \in RoundTag
  BY DEF ShapeInv, ClientOK, RecordOK, NoRound, RoundTag
<1>1. UNCHANGED <<toServer, screen, shown, boxes>>
  BY DEF Others, OthersStart, OthersAnswer, OthersVote, GameOver, OthersLeave, OthersRemoved,
         OthersLost, StatusUpdate, Elsewhere, windowVars
<1>2. /\ NoMore(toServer', toServer, RoundKinds)
      /\ \A l \in On(boxes') : l.cmd \in RoundKinds => l \in On(boxes)
  BY <1>1, SameNoMore
<1>3. CASE OthersStart
  BY <1>1, <1>2, <1>3, AnswerBegins DEF OthersStart
<1>4. CASE OthersAnswer
  BY <1>1, <1>2, <1>4, AnswerWins DEF OthersAnswer
<1>5. CASE OthersVote
  <2>1. me.playing
    BY <1>5, ProceedFields DEF OthersVote
  <2>2. ~outOfTurn => me.voted /\ \A l \in On(toServer') : ~OfGame(l)
    BY <1>1, <1>5, <2>1 DEF OthersVote, AllReady, AnswerInv, RoundInv
  <2> QED BY <1>1, <1>2, <1>5, <2>2, AnswerProceeds DEF OthersVote
<1>6. CASE GameOver
  <2>1. NoMore(toClient', toClient, RoundKinds)
    BY <1>6, PlainPair DEF GameOver, GameOverLines, Status, PlainKinds
  <2> QED BY <1>1, <1>2, <1>6, <2>1, OverFields, AnswerKept DEF GameOver
<1>7. CASE OthersLeave
  <2>1. PICK x \in AnyLine : x = Line("GAME_ABORTED", NoRound) /\ x.cmd = "GAME_ABORTED"
    BY MadeLine DEF PlainKinds
  <2>2. PICK y \in AnyLine : y = Status /\ y.cmd = "ROOM_STATUS"
    BY MadeLine DEF PlainKinds, Status
  <2>3. PICK s : s = <<y>>
    OBVIOUS
  <2>4. s \in Seq(AnyLine) /\ On(s) = {y}
    BY <2>3, OneLine
  <2>5. PICK w : w = (IF me.playing THEN <<x>> ELSE <<>>) \o s
    OBVIOUS
  <2>6. w \in Seq(AnyLine) /\ On(w) \subseteq {x, y} /\ Told(w)
    <3>1. (me.playing => w = <<x>> \o s) /\ (~me.playing => w = <<>> \o s)
      BY <2>5
    <3>2. me.playing \in BOOLEAN
      BY DEF SessionOK, Session
    <3>3. w \in Seq(AnyLine) /\ On(w) \subseteq {x, y}
      BY <2>4, <3>1, <3>2, PerhapsFirst
    <3> QED BY <1>7, <2>1, <2>2, <2>3, <2>5, <3>3 DEF OthersLeave
  <2>7. NoMore(toClient', toClient, RoundKinds)
    BY <2>1, <2>2, <2>6, ReplyNoMore DEF RoundKinds
  <2> QED BY <1>1, <1>2, <1>7, <2>7, AnswerKept DEF OthersLeave
<1>10. CASE OthersRemoved
  <2>1. PICK x \in AnyLine : x = Line("GAME_ABORTED", NoRound) /\ x.cmd = "GAME_ABORTED"
    BY MadeLine DEF PlainKinds
  <2>2. <<x>> \in Seq(AnyLine) /\ On(<<x>>) = {x} /\ Told(<<x>>)
    BY <1>10, <2>1, OneLine DEF OthersRemoved
  <2>3. NoMore(toClient', toClient, RoundKinds)
    BY <2>1, <2>2, ReplyNoMore DEF RoundKinds
  <2> QED BY <1>1, <1>2, <1>10, <2>3, AnswerKept DEF OthersRemoved
<1>8. CASE OthersLost
  <2>1. <<seat>> \in SeatTag
    BY NowOK DEF ShapeInv
  <2>2. PICK x \in AnyLine :
           x = Line("PLAYER_DISCONNECTED", <<seat>>) /\ x.cmd = "PLAYER_DISCONNECTED"
    BY <2>1, MadeLine DEF SeatKinds
  <2>3. <<x>> \in Seq(AnyLine) /\ On(<<x>>) = {x} /\ Told(<<x>>)
    BY <1>8, <2>2, OneLine DEF OthersLost
  <2>4. NoMore(toClient', toClient, RoundKinds)
    BY <2>2, <2>3, ReplyNoMore DEF RoundKinds
  <2> QED BY <1>1, <1>2, <1>8, <2>4, AnswerKept DEF OthersLost
<1>9. CASE StatusUpdate
  <2>1. NoMore(toClient', toClient, RoundKinds)
    BY <1>9, PlainPair DEF StatusUpdate, Status, PlainKinds
  <2> QED BY <1>1, <1>2, <1>9, <2>1, AnswerKept DEF StatusUpdate
<1> QED BY <1>3, <1>4, <1>5, <1>6, <1>7, <1>8, <1>9, <1>10 DEF Others

\* And every other step.
LEMMA AnswerInvNext ==
    ASSUME ShapeInv, AnswerInv, DialogueNext
    PROVE  AnswerInv'
<1> QueuesOK /\ SessionOK /\ game \in Nat
  BY DEF ShapeInv, ClientOK, RecordOK
<1>0. toServer \in Seq(AnyLine) /\ toClient \in Seq(AnyLine) /\ boxes \in Seq(AnyLine)
  BY DEF QueuesOK
<1>1. CASE ClientStep
  BY <1>1, AnswerInvReads, AnswerInvActs DEF ClientStep
<1>2. ASSUME UNCHANGED <<game, outOfTurn>>,
             me'.playing =>
                /\ me.playing
                /\ me'.round = me.round /\ me'.waiting = me.waiting /\ me'.voted = me.voted,
             NoMore(toServer', toServer, RoundKinds), NoMore(toClient', toClient, RoundKinds),
             On(boxes') \subseteq On(boxes),
             \/ shown' = shown /\ screen' = screen
             \/ shown' = NoRound /\ screen' \notin {"InGame", "RoundEnd"}
      PROVE  AnswerInv'
  BY <1>2, AnswerKept
<1>3. CASE ClientRestarts
  <2>1. NoMore(toServer', toServer, RoundKinds) /\ NoMore(toClient', toClient, RoundKinds)
    BY <1>0, <1>3, PrefixNoMore DEF ClientRestarts
  <2>2. On(boxes') = {}
    BY <1>3, OnEmpty DEF ClientRestarts, Started
  <2> QED BY <1>2, <1>3, <2>1, <2>2 DEF ClientRestarts, Started
<1>4. CASE ConnectionBreaks
  <2>1. NoMore(toServer', toServer, RoundKinds) /\ NoMore(toClient', toClient, RoundKinds)
    BY <1>0, <1>4, PrefixNoMore DEF ConnectionBreaks
  <2> QED BY <1>2, <1>4, <2>1 DEF ConnectionBreaks, windowVars, recordVars
<1>5. CASE ServerCloses
  <2>1. NoMore(toServer', toServer, RoundKinds) /\ NoMore(toClient', toClient, RoundKinds)
    BY <1>0, <1>5, PrefixNoMore DEF ServerCloses
  <2> QED BY <1>2, <1>5, <2>1, GiveUpFields DEF ServerCloses, windowVars
<1>6. CASE client_mark_disconnected
  BY <1>2, <1>6, SameNoMore, CutFields DEF client_mark_disconnected, clientVars, netVars, windowVars
<1>7. CASE client_disconnect
  BY <1>2, <1>7, SameNoMore, GiveUpFields DEF client_disconnect, clientVars, netVars, windowVars
<1> QED
  BY <1>1, <1>3, <1>4, <1>5, <1>6, <1>7, AnswerInvServer, AnswerInvOthers DEF DialogueNext

\* In every reachable state what is about the game of the user is about its round,
\* unless a vote was counted or a session resumed out of turn.
THEOREM AnswerIsInvariant == DialogueSpec => []AnswerInv
<1>1. DialogueInit => AnswerInv
  <2> SUFFICES ASSUME DialogueInit PROVE AnswerInv
    OBVIOUS
  <2>1. On(toServer) = {} /\ On(toClient) = {} /\ On(boxes) = {}
    BY OnEmpty DEF DialogueInit, ClientInit
  <2>2. PastGames /\ ~me.playing
    BY <2>1 DEF DialogueInit, ClientInit, SessionInit, NoSession, NoRound, PastGames
  <2> QED BY <2>2 DEF AnswerInv
<1>2. ShapeInv /\ AnswerInv /\ [DialogueNext]_dialogueVars => AnswerInv'
  <2>1. AnswerInv /\ UNCHANGED dialogueVars => AnswerInv'
    BY DEF AnswerInv, PastGames, RoundInv, OfGame, OnScreen, VoteSent, dialogueVars, clientVars,
           netVars, windowVars, recordVars
  <2> QED BY <2>1, AnswerInvNext
<1> QED BY <1>1, <1>2, ShapeIsInvariant, PTL DEF DialogueSpec

\* An answer that the server takes in the game it was given for is an answer to
\* the round being played, however many lines are on their way and whichever
\* question stands open: the protocol sends no round with it.
THEOREM AnswersInTime == DialogueSpec => []AnswerInTime
<1>1. ShapeInv /\ AnswerInv => AnswerInTime
  <2> SUFFICES ASSUME ShapeInv, AnswerInv, toServer # <<>>, Head(toServer).cmd = "SUBMIT",
                      me.playing, ToldTag[1] = game, ~outOfTurn
               PROVE  ToldTag = Now
    BY DEF AnswerInTime, CanSubmit
  <2>1. toServer \in Seq(AnyLine)
    BY DEF ShapeInv, ClientOK, QueuesOK
  <2>2. PICK h \in AnyLine : h = Head(toServer) /\ h \in On(toServer)
    BY <2>1, TailOn
  <2>3. h.cmd = "SUBMIT" /\ h.tag \in RoundTag /\ h.tag[1] = game
    BY <2>2, TagOf DEF RoundKinds, ToldTag
  <2>4. h.tag[2] = me.round
    BY <2>2, <2>3 DEF AnswerInv, RoundInv, OfGame, RoundKinds
  <2>5. h.tag = <<game, me.round>>
    BY <2>3, <2>4 DEF RoundTag
  <2> QED BY <2>2, <2>5 DEF ToldTag, Now
<1> QED BY <1>1, ShapeIsInvariant, AnswerIsInvariant, PTL
=============================================================================
