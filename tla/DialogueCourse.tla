--------------------------- MODULE DialogueCourse ---------------------------
(***************************************************************************)
(* Proofs about Dialogue, continued: how the client and the server keep    *)
(* together on where the user is.  While the user has a seat, the client   *)
(* knows it, is about to be told, or is about to resume it; while the user *)
(* is in the lobby, what the client does not know yet is on its way. What  *)
(* is read last then puts the client on the right screen.                  *)
(***************************************************************************)
EXTENDS DialogueProofs

Only(q, kinds)        == \A l \in On(q) : l.cmd \in kinds
OwnSeat(q, kinds)     == \A l \in On(q) : l.cmd \in kinds => l.tag = <<seat>>
\* After a line of the first kinds, none of the others.
Never(q, kinds, then) == \A a, b : Before(q, a, b) /\ a.cmd \in kinds => b.cmd \notin then
\* Before each line of the kinds, one of the first.
Leads(q, first, kinds) ==
    \A j \in DOMAIN q : q[j].cmd \in kinds => \E i \in DOMAIN q : i < j /\ q[i].cmd \in first

-----------------------------------------------------------------------------
\* Of a queue with such a line, what is added later is led.
LEMMA ConcatLeads ==
    ASSUME NEW q \in Seq(AnyLine), NEW w \in Seq(AnyLine), NEW first, NEW kinds,
           Has(q, first), Leads(q, first, kinds), NEW p, p = q \o w
    PROVE  Leads(p, first, kinds)
<1>1. /\ Len(q) \in Nat /\ Len(w) \in Nat
      /\ DOMAIN p = 1 .. Len(q) + Len(w) /\ DOMAIN q = 1 .. Len(q)
      /\ \A i \in 1 .. Len(q) : p[i] = q[i]
  BY ConcatProperties, LenProperties
<1>2. PICK k \in 1 .. Len(q) : q[k].cmd \in first
  BY <1>1 DEF Has, On
<1>3. ASSUME NEW j \in 1 .. Len(q) + Len(w), p[j].cmd \in kinds
      PROVE  \E i \in 1 .. Len(q) + Len(w) : i < j /\ p[i].cmd \in first
  <2>1. CASE j <= Len(q)
    <3>1. j \in 1 .. Len(q) /\ q[j].cmd \in kinds
      BY <1>1, <1>3, <2>1
    <3>2. PICK i \in 1 .. Len(q) : i < j /\ q[i].cmd \in first
      BY <1>1, <3>1 DEF Leads
    <3> QED BY <1>1, <3>2
  <2>2. CASE ~(j <= Len(q))
    BY <1>1, <1>2, <2>2
  <2> QED BY <2>1, <2>2
<1> QED BY <1>1, <1>3 DEF Leads

\* The first line of a queue is led by none.
LEMMA TailLeads ==
    ASSUME NEW q \in Seq(AnyLine), q # <<>>, NEW p, p = Tail(q), NEW first, NEW kinds,
           Leads(q, first, kinds)
    PROVE  /\ Head(q).cmd \notin kinds
           /\ Head(q).cmd \notin first => Leads(p, first, kinds)
<1>1. /\ Len(q) \in Nat /\ Len(q) >= 1
      /\ DOMAIN q = 1 .. Len(q) /\ DOMAIN p = 1 .. Len(q) - 1
      /\ \A i \in 1 .. Len(q) - 1 : p[i] = q[i + 1]
      /\ Head(q) = q[1]
  BY HeadTailProperties, LenProperties
<1>2. q[1].cmd \notin kinds
  BY <1>1 DEF Leads
<1>3. ASSUME q[1].cmd \notin first, NEW j \in 1 .. Len(q) - 1, p[j].cmd \in kinds
      PROVE  \E i \in 1 .. Len(q) - 1 : i < j /\ p[i].cmd \in first
  <2>1. j + 1 \in 1 .. Len(q) /\ q[j + 1].cmd \in kinds
    BY <1>1, <1>3
  <2>2. PICK i \in 1 .. Len(q) : i < j + 1 /\ q[i].cmd \in first
    BY <1>1, <2>1 DEF Leads
  <2>3. i # 1
    BY <1>3, <2>2
  <2>4. i - 1 \in 1 .. Len(q) - 1 /\ i - 1 < j /\ p[i - 1] = q[i]
    BY <1>1, <2>2, <2>3
  <2> QED BY <2>2, <2>4
<1> QED BY <1>1, <1>2, <1>3 DEF Leads

\* Where there are none of the kinds, all are led.
LEMMA NoneLeads ==
    ASSUME NEW q, NEW first, NEW kinds, ~Has(q, kinds)
    PROVE  Leads(q, first, kinds)
BY DEF Has, On, Leads

\* A line that the client reads.
LEMMA HeardLeads ==
    ASSUME QueuesOK, NEW cmd, Reads(cmd), NEW first, NEW kinds, Leads(toClient, first, kinds)
    PROVE  cmd \notin kinds /\ (cmd \notin first => Leads(toClient', first, kinds))
BY TailLeads DEF Reads, QueuesOK

\* A line that the server handles.
LEMMA TakenLeads ==
    ASSUME QueuesOK, NEW cmd, Serve(cmd), NEW first, NEW kinds, Leads(toServer, first, kinds)
    PROVE  cmd \notin kinds /\ (cmd \notin first => Leads(toServer', first, kinds))
BY TailLeads DEF Serve, QueuesOK

\* A line that the client sends.
LEMMA SentLeads ==
    ASSUME QueuesOK, NEW cmd, NEW tag, Line(cmd, tag) \in AnyLine, sendCommand(cmd, tag),
           NEW first, NEW kinds, Has(toServer, first), Leads(toServer, first, kinds)
    PROVE  Leads(toServer', first, kinds)
<1>1. PICK x \in AnyLine : x = Line(cmd, tag)
  OBVIOUS
<1>2. PICK w : w = <<x>>
  OBVIOUS
<1>3. w \in Seq(AnyLine) /\ toServer \in Seq(AnyLine)
  BY <1>2, OneLine DEF QueuesOK
<1>4. toServer' = toServer \/ toServer' = Append(toServer, x)
  BY <1>1 DEF sendCommand
<1>5. Append(toServer, x) = toServer \o w
  BY <1>2, <1>3, AppendIsConcat
<1> QED BY <1>3, <1>4, <1>5, ConcatLeads

-----------------------------------------------------------------------------
(***************************************************************************)
(* What the server says over a connection that is up.                      *)
(***************************************************************************)

\* New lines come to the client, in the order of these pairs.
Grows(new, pairs) ==
    \E w \in Seq(AnyLine) :
       /\ toClient' = toClient \o w
       /\ On(w) = new
       /\ \A a, b : Before(w, a, b) <=> <<a, b>> \in pairs

\* What that does to the queue.
LEMMA Grown ==
    ASSUME QueuesOK, NEW new, NEW pairs, Grows(new, pairs)
    PROVE  /\ On(toClient') = On(toClient) \cup new
           /\ \A a, b : Before(toClient', a, b) <=> \/ Before(toClient, a, b)
                                                    \/ a \in On(toClient) /\ b \in new
                                                    \/ <<a, b>> \in pairs
           /\ \A first, kinds : Has(toClient, first) /\ Leads(toClient, first, kinds)
                                  => Leads(toClient', first, kinds)
<1>1. toClient \in Seq(AnyLine)
  BY DEF QueuesOK
<1>2. PICK w \in Seq(AnyLine) : /\ toClient' = toClient \o w
                                /\ On(w) = new
                                /\ \A a, b : Before(w, a, b) <=> <<a, b>> \in pairs
  BY DEF Grows
<1>3. /\ On(toClient') = On(toClient) \cup On(w)
      /\ \A a, b : Before(toClient', a, b) <=> \/ Before(toClient, a, b)
                                               \/ a \in On(toClient) /\ b \in On(w)
                                               \/ Before(w, a, b)
  BY <1>1, <1>2, ConcatOn
<1>4. \A first, kinds : Has(toClient, first) /\ Leads(toClient, first, kinds)
                          => Leads(toClient', first, kinds)
  BY <1>1, <1>2, ConcatLeads
<1> QED BY <1>2, <1>3, <1>4

Says(x)        == Grows({x}, {})
SaysBoth(x, y) == Grows({x, y}, {<<x, y>>})
\* The first of three lines is said or not.
SaysThree(t, x, y, z) ==
    Grows({y, z} \cup (IF t THEN {x} ELSE {}),
          {<<y, z>>} \cup (IF t THEN {<<x, y>>, <<x, z>>} ELSE {}))
\* The first of two lines is said or not.
SaysPerhaps(t, x, y) ==
    Grows({y} \cup (IF t THEN {x} ELSE {}), IF t THEN {<<x, y>>} ELSE {})

\* One line.
LEMMA SaysOK ==
    ASSUME NEW x \in AnyLine, conn = "up", Reply(<<x>>)
    PROVE  Says(x)
<1>1. PICK w : w = <<x>>
  OBVIOUS
<1>2. w \in Seq(AnyLine) /\ On(w) = {x} /\ \A a, b : ~Before(w, a, b)
  BY <1>1, OneLine
<1>3. toClient' = toClient \o w
  BY <1>1 DEF Reply
<1> QED BY <1>2, <1>3 DEF Says, Grows

\* Two lines.
LEMMA SaysBothOK ==
    ASSUME NEW x \in AnyLine, NEW y \in AnyLine, conn = "up", Reply(<<x, y>>)
    PROVE  SaysBoth(x, y)
<1>1. PICK w : w = <<x, y>>
  OBVIOUS
<1>2. w \in Seq(AnyLine) /\ On(w) = {x, y} /\ \A a, b : Before(w, a, b) <=> a = x /\ b = y
  BY <1>1, TwoLines
<1>3. toClient' = toClient \o w
  BY <1>1 DEF Reply
<1> QED BY <1>2, <1>3 DEF SaysBoth, Grows

\* Two lines or three.
LEMMA SaysThreeOK ==
    ASSUME NEW x \in AnyLine, NEW y \in AnyLine, NEW z \in AnyLine, NEW t \in BOOLEAN,
           conn = "up", Reply((IF t THEN <<x>> ELSE <<>>) \o <<y, z>>)
    PROVE  SaysThree(t, x, y, z)
<1>1. PICK s : s = <<y, z>>
  OBVIOUS
<1>2. s \in Seq(AnyLine) /\ On(s) = {y, z} /\ \A a, b : Before(s, a, b) <=> a = y /\ b = z
  BY <1>1, TwoLines
<1>3. PICK w : w = (IF t THEN <<x>> ELSE <<>>) \o s
  OBVIOUS
<1>4. (t => w = <<x>> \o s) /\ (~t => w = <<>> \o s)
  BY <1>3
<1>5. /\ w \in Seq(AnyLine)
      /\ \A l : l \in On(w) <=> l \in On(s) \/ (t /\ l = x)
      /\ \A a, b : Before(w, a, b) <=> Before(s, a, b) \/ (t /\ a = x /\ b \in On(s))
  BY <1>2, <1>4, PerhapsFirst
<1>6. toClient' = toClient \o w
  BY <1>1, <1>3 DEF Reply
<1>7. On(w) = {y, z} \cup (IF t THEN {x} ELSE {})
  BY <1>2, <1>5
<1>8. \A a, b : Before(w, a, b) <=>
                  <<a, b>> \in {<<y, z>>} \cup (IF t THEN {<<x, y>>, <<x, z>>} ELSE {})
  BY <1>2, <1>5
<1> QED BY <1>5, <1>6, <1>7, <1>8 DEF SaysThree, Grows

\* One line or two.
LEMMA SaysPerhapsOK ==
    ASSUME NEW x \in AnyLine, NEW y \in AnyLine, NEW t \in BOOLEAN,
           conn = "up", Reply((IF t THEN <<x>> ELSE <<>>) \o <<y>>)
    PROVE  SaysPerhaps(t, x, y)
<1>1. PICK s : s = <<y>>
  OBVIOUS
<1>2. s \in Seq(AnyLine) /\ On(s) = {y} /\ \A a, b : ~Before(s, a, b)
  BY <1>1, OneLine
<1>3. PICK w : w = (IF t THEN <<x>> ELSE <<>>) \o s
  OBVIOUS
<1>4. (t => w = <<x>> \o s) /\ (~t => w = <<>> \o s)
  BY <1>3
<1>5. /\ w \in Seq(AnyLine)
      /\ \A l : l \in On(w) <=> l \in On(s) \/ (t /\ l = x)
      /\ \A a, b : Before(w, a, b) <=> Before(s, a, b) \/ (t /\ a = x /\ b \in On(s))
  BY <1>2, <1>4, PerhapsFirst
<1>6. toClient' = toClient \o w
  BY <1>1, <1>3 DEF Reply
<1>7. On(w) = {y} \cup (IF t THEN {x} ELSE {})
  BY <1>2, <1>5
<1>8. \A a, b : Before(w, a, b) <=> <<a, b>> \in (IF t THEN {<<x, y>>} ELSE {})
  BY <1>2, <1>5
<1> QED BY <1>5, <1>6, <1>7, <1>8 DEF SaysPerhaps, Grows

\* One line more.
LEMMA Said ==
    ASSUME QueuesOK, NEW x, Says(x)
    PROVE  /\ On(toClient') = On(toClient) \cup {x}
           /\ \A a, b : Before(toClient', a, b) <=> \/ Before(toClient, a, b)
                                                    \/ a \in On(toClient) /\ b = x
           /\ \A first, kinds : Has(toClient, first) /\ Leads(toClient, first, kinds)
                                  => Leads(toClient', first, kinds)
<1> DEFINE new == {x}
           pairs == {}
<1>1. Grows(new, pairs)
  BY DEF Says
<1>2. (\A l : l \in new <=> l = x) /\ (\A a, b : <<a, b>> \notin pairs)
  OBVIOUS
<1> HIDE DEF new, pairs
<1>3. /\ On(toClient') = On(toClient) \cup new
      /\ \A a, b : Before(toClient', a, b) <=> \/ Before(toClient, a, b)
                                               \/ a \in On(toClient) /\ b \in new
                                               \/ <<a, b>> \in pairs
      /\ \A first, kinds : Has(toClient, first) /\ Leads(toClient, first, kinds)
                             => Leads(toClient', first, kinds)
  BY <1>1, Grown
<1> QED BY <1>2, <1>3

\* Two lines more.
LEMMA SaidBoth ==
    ASSUME QueuesOK, NEW x, NEW y, SaysBoth(x, y)
    PROVE  /\ On(toClient') = On(toClient) \cup {x, y}
           /\ \A a, b : Before(toClient', a, b) <=> \/ Before(toClient, a, b)
                                                    \/ a \in On(toClient) /\ b \in {x, y}
                                                    \/ a = x /\ b = y
           /\ \A first, kinds : Has(toClient, first) /\ Leads(toClient, first, kinds)
                                  => Leads(toClient', first, kinds)
<1> DEFINE new == {x, y}
           pairs == {<<x, y>>}
<1>1. Grows(new, pairs)
  BY DEF SaysBoth
<1>2. new = {x, y} /\ (\A a, b : <<a, b>> \in pairs <=> a = x /\ b = y)
  OBVIOUS
<1> HIDE DEF new, pairs
<1>3. /\ On(toClient') = On(toClient) \cup new
      /\ \A a, b : Before(toClient', a, b) <=> \/ Before(toClient, a, b)
                                               \/ a \in On(toClient) /\ b \in new
                                               \/ <<a, b>> \in pairs
      /\ \A first, kinds : Has(toClient, first) /\ Leads(toClient, first, kinds)
                             => Leads(toClient', first, kinds)
  BY <1>1, Grown
<1> QED BY <1>2, <1>3

\* Two lines more, or three.
LEMMA SaidThree ==
    ASSUME QueuesOK, NEW t \in BOOLEAN, NEW x, NEW y, NEW z, SaysThree(t, x, y, z)
    PROVE  /\ \A l : l \in On(toClient') <=> l \in On(toClient) \cup {y, z} \/ (t /\ l = x)
           /\ \A a, b : Before(toClient', a, b) <=>
                  \/ Before(toClient, a, b)
                  \/ a \in On(toClient) /\ (b \in {y, z} \/ (t /\ b = x))
                  \/ a = y /\ b = z
                  \/ t /\ a = x /\ b \in {y, z}
<1> DEFINE new == {y, z} \cup (IF t THEN {x} ELSE {})
           pairs == {<<y, z>>} \cup (IF t THEN {<<x, y>>, <<x, z>>} ELSE {})
<1>1. Grows(new, pairs)
  BY DEF SaysThree
<1>2. /\ \A l : l \in new <=> l \in {y, z} \/ (t /\ l = x)
      /\ \A a, b : <<a, b>> \in pairs <=> (a = y /\ b = z) \/ (t /\ a = x /\ b \in {y, z})
  OBVIOUS
<1> HIDE DEF new, pairs
<1>3. /\ On(toClient') = On(toClient) \cup new
      /\ \A a, b : Before(toClient', a, b) <=> \/ Before(toClient, a, b)
                                               \/ a \in On(toClient) /\ b \in new
                                               \/ <<a, b>> \in pairs
  BY <1>1, Grown
<1> QED BY <1>2, <1>3

\* One line more, or two.
LEMMA SaidPerhaps ==
    ASSUME QueuesOK, NEW t \in BOOLEAN, NEW x, NEW y, SaysPerhaps(t, x, y)
    PROVE  /\ \A l : l \in On(toClient') <=> l \in On(toClient) \cup {y} \/ (t /\ l = x)
           /\ \A a, b : Before(toClient', a, b) <=>
                  \/ Before(toClient, a, b)
                  \/ a \in On(toClient) /\ (b = y \/ (t /\ b = x))
                  \/ t /\ a = x /\ b = y
           /\ \A first, kinds : Has(toClient, first) /\ Leads(toClient, first, kinds)
                                  => Leads(toClient', first, kinds)
<1> DEFINE new == {y} \cup (IF t THEN {x} ELSE {})
           pairs == IF t THEN {<<x, y>>} ELSE {}
<1>1. Grows(new, pairs)
  BY DEF SaysPerhaps
<1>2. /\ \A l : l \in new <=> l = y \/ (t /\ l = x)
      /\ \A a, b : <<a, b>> \in pairs <=> t /\ a = x /\ b = y
  OBVIOUS
<1> HIDE DEF new, pairs
<1>3. /\ On(toClient') = On(toClient) \cup new
      /\ \A a, b : Before(toClient', a, b) <=> \/ Before(toClient, a, b)
                                               \/ a \in On(toClient) /\ b \in new
                                               \/ <<a, b>> \in pairs
      /\ \A first, kinds : Has(toClient, first) /\ Leads(toClient, first, kinds)
                             => Leads(toClient', first, kinds)
  BY <1>1, Grown
<1> QED BY <1>2, <1>3

SameSession ==
    /\ me'.place = me.place /\ me'.stray = me.stray /\ me'.playing = me.playing
    /\ me'.round = me.round /\ me'.waiting = me.waiting /\ me'.voted = me.voted
SameRecord  == UNCHANGED <<game, seat, misled>>
TurnOf(cmd) == Serve(cmd) \/ Elsewhere

\* The turns of the server, of the other occupants and of the timer, by what is
\* said to the client.
SaysNothing ==
    /\ attached /\ UNCHANGED toClient /\ SameSession /\ SameRecord
    /\ \E cmd : /\ cmd # "LIST_ROOMS" /\ Serve(cmd)
                /\ cmd = "READY_NEXT_ROUND" => ~CanVote
LetsIn ==
    /\ Serve("LOGIN") /\ me.place = "out" /\ me'.place = "lobby"
    /\ ~me'.stray /\ ~me'.playing /\ ~me'.waiting /\ SameRecord
    /\ \E x, y \in AnyLine : x.cmd = "LOGIN_OK" /\ y.cmd = "ROOM_LIST" /\ SaysBoth(x, y)
LetsBack ==
    /\ Serve("LOGIN") /\ ~attached /\ me.place # "out" /\ SameSession
    /\ UNCHANGED <<game, seat>> /\ misled' = (misled \/ me.stray \/ (me.playing /\ me.waiting))
    /\ \E x, y \in AnyLine :
         /\ x.cmd = "RECONNECT_OK" /\ SaysBoth(x, y)
         /\ IF me.playing /\ ~me.stray THEN y.cmd = "GAME_START" /\ y.tag = Now
            ELSE y.cmd = (IF me.place = "room" THEN "ROOM_STATUS" ELSE "ROOM_LIST")
LetsInAgain ==
    /\ Serve("LOGIN") /\ attached /\ me'.place = me.place /\ me'.stray = (me.place = "room")
    /\ me'.playing = me.playing /\ me'.round = me.round
    /\ me'.waiting = me.waiting /\ me'.voted = me.voted
    /\ UNCHANGED <<game, seat>> /\ misled' = (misled \/ me.place = "room")
    /\ \E x, y \in AnyLine : x.cmd = "LOGIN_OK" /\ y.cmd = "ROOM_LIST" /\ SaysBoth(x, y)
Lists ==
    /\ Serve("LIST_ROOMS") /\ attached /\ SameSession /\ SameRecord
    /\ \E x \in AnyLine : x.cmd = "ROOM_LIST" /\ Says(x)
Seats ==
    /\ Serve("SIT") /\ attached /\ me.place = "lobby" /\ me'.place = "room"
    /\ ~me'.stray /\ ~me'.playing
    /\ seat' = seat + 1 /\ UNCHANGED <<game, misled>>
    /\ \E x, y \in AnyLine : x.cmd = "ROOM_STATUS" /\ y.cmd = "ROOM_JOINED" /\ SaysBoth(x, y)
LetsGo ==
    /\ Serve("LEAVE_ROOM") /\ attached /\ me.place = "room" /\ me'.place = "lobby"
    /\ ~me'.stray /\ ~me'.playing /\ ~me'.waiting /\ SameRecord
    /\ \E x, y, z \in AnyLine :
         /\ x.cmd = "GAME_ABORTED" /\ y.cmd = "LEFT_ROOM" /\ y.tag = <<seat>>
         /\ z.cmd = "ROOM_LIST" /\ SaysThree(me.playing, x, y, z)
StartsRound ==
    /\ TurnOf("START") \/ TurnOf("READY_NEXT_ROUND")
    /\ attached /\ me.place = "room" /\ me'.place = "room"
    /\ me'.playing /\ ~me'.waiting /\ ~me'.voted /\ ~me'.stray
    /\ \/ game' = game + 1 /\ me'.round = 1
       \/ game' = game /\ me.playing /\ me.waiting /\ me'.round = me.round + 1
    /\ UNCHANGED <<seat, misled>>
    /\ \E x \in AnyLine : x.cmd = "GAME_START" /\ x.tag = <<game', me'.round>> /\ Says(x)
EndsRound ==
    /\ TurnOf("SUBMIT") /\ attached /\ me.playing /\ ~me.waiting
    /\ me'.place = me.place /\ me'.stray = me.stray /\ me'.playing /\ me'.round = me.round
    /\ me'.waiting /\ ~me'.voted /\ SameRecord
    /\ \E x \in AnyLine : x.cmd = "ROUND_END" /\ x.tag = Now /\ Says(x)
CountsVote ==
    /\ Serve("READY_NEXT_ROUND") /\ attached /\ me.place = "room" /\ me.waiting /\ ~me.voted
    /\ me'.place = me.place /\ me'.stray = me.stray /\ me'.playing = me.playing
    /\ me'.round = me.round /\ me'.waiting /\ me'.voted /\ SameRecord
    /\ \E x \in AnyLine : x.cmd = "WAIT_CONTINUE" /\ Says(x)
EndsGame ==
    /\ TurnOf("SUBMIT") /\ attached /\ me.playing
    /\ me'.place = me.place /\ ~me'.stray /\ ~me'.playing
    /\ me'.waiting = me.waiting /\ me'.voted = me.voted /\ SameRecord
    /\ \E x, y \in AnyLine : x.cmd = "GAME_END" /\ y.cmd = "ROOM_STATUS" /\ SaysBoth(x, y)
TellsOfLeaver ==
    /\ Elsewhere /\ attached /\ me.place = "room" /\ SameSession
    /\ UNCHANGED <<game, seat>> /\ misled' = (misled \/ me.playing)
    /\ \E x, y \in AnyLine :
         /\ x.cmd = "GAME_ABORTED" /\ y.cmd = "ROOM_STATUS"
         /\ SaysPerhaps(me.playing, x, y) \/ (me.playing /\ Says(x))
TellsOfLoss ==
    /\ Elsewhere /\ attached /\ me.place = "room" /\ SameSession /\ SameRecord
    /\ \E x \in AnyLine : x.cmd = "PLAYER_DISCONNECTED" /\ x.tag = <<seat>> /\ Says(x)
TellsStatus ==
    /\ Elsewhere /\ attached /\ me.place = "room" /\ SameSession /\ SameRecord
    /\ \E x \in AnyLine : x.cmd = "ROOM_STATUS" /\ Says(x)

Turns ==
    \/ SaysNothing \/ LetsIn \/ LetsBack \/ LetsInAgain \/ Lists \/ Seats \/ LetsGo
    \/ StartsRound \/ EndsRound \/ CountsVote \/ EndsGame
    \/ TellsOfLeaver \/ TellsOfLoss \/ TellsStatus

\* Lines about nothing in particular.
LEMMA PlainLine ==
    ASSUME NEW c \in PlainKinds
    PROVE  \E x \in AnyLine : x = Line(c, NoRound) /\ x.cmd = c
<1>1. NoRound \in RoundTag
  BY DEF NoRound, RoundTag
<1> QED BY <1>1, MadeLine

\* Two of them.
LEMMA PlainBoth ==
    ASSUME NEW c \in PlainKinds, NEW d \in PlainKinds, conn = "up",
           Reply(<<Line(c, NoRound), Line(d, NoRound)>>)
    PROVE  \E x, y \in AnyLine : x.cmd = c /\ y.cmd = d /\ SaysBoth(x, y)
<1>1. PICK x \in AnyLine : x = Line(c, NoRound) /\ x.cmd = c
  BY PlainLine
<1>2. PICK y \in AnyLine : y = Line(d, NoRound) /\ y.cmd = d
  BY PlainLine
<1>3. Reply(<<x, y>>)
  BY <1>1, <1>2
<1> QED BY <1>1, <1>2, <1>3, SaysBothOK

\* The answer to a user who enters.
LEMMA EntryReply ==
    ASSUME conn = "up", Reply(<<Line("LOGIN_OK", NoRound), RoomList>>)
    PROVE  \E x, y \in AnyLine : x.cmd = "LOGIN_OK" /\ y.cmd = "ROOM_LIST" /\ SaysBoth(x, y)
<1>1. PICK c, d : c = "LOGIN_OK" /\ d = "ROOM_LIST"
  OBVIOUS
<1>2. c \in PlainKinds /\ d \in PlainKinds
  BY <1>1 DEF PlainKinds
<1>3. Reply(<<Line(c, NoRound), Line(d, NoRound)>>)
  BY <1>1 DEF RoomList
<1> QED BY <1>1, <1>2, <1>3, PlainBoth

\* The answer to a user who takes a seat.
LEMMA SeatReply ==
    ASSUME conn = "up", Reply(<<Status, Line("ROOM_JOINED", NoRound)>>)
    PROVE  \E x, y \in AnyLine : x.cmd = "ROOM_STATUS" /\ y.cmd = "ROOM_JOINED" /\ SaysBoth(x, y)
<1>1. PICK c, d : c = "ROOM_STATUS" /\ d = "ROOM_JOINED"
  OBVIOUS
<1>2. c \in PlainKinds /\ d \in PlainKinds
  BY <1>1 DEF PlainKinds
<1>3. Reply(<<Line(c, NoRound), Line(d, NoRound)>>)
  BY <1>1 DEF Status
<1> QED BY <1>1, <1>2, <1>3, PlainBoth

\* What a game that ends is told with.
LEMMA OverReply ==
    ASSUME conn = "up", Reply(GameOverLines)
    PROVE  \E x, y \in AnyLine : x.cmd = "GAME_END" /\ y.cmd = "ROOM_STATUS" /\ SaysBoth(x, y)
<1>1. PICK c, d : c = "GAME_END" /\ d = "ROOM_STATUS"
  OBVIOUS
<1>2. c \in PlainKinds /\ d \in PlainKinds
  BY <1>1 DEF PlainKinds
<1>3. Reply(<<Line(c, NoRound), Line(d, NoRound)>>)
  BY <1>1 DEF GameOverLines, Status
<1> QED BY <1>1, <1>2, <1>3, PlainBoth

\* One of them.
LEMMA PlainOne ==
    ASSUME NEW c \in PlainKinds, conn = "up", Reply(<<Line(c, NoRound)>>)
    PROVE  \E x \in AnyLine : x.cmd = c /\ Says(x)
BY PlainLine, SaysOK

\* What the others do is told while the connection is that of the session.
LEMMA ToldReply ==
    ASSUME RecordOK, attached, NEW s, Told(s)
    PROVE  Reply(s)
BY DEF Told, RecordOK

\* A round that starts is announced.
LEMMA StartAnnounced ==
    ASSUME ShapeInv, conn = "up", attached, GameBegins \/ (Proceed /\ game' = game),
           Reply(<<GameStart>>)
    PROVE  /\ me.place = "room" /\ me'.place = "room"
           /\ me'.playing /\ ~me'.waiting /\ ~me'.voted /\ ~me'.stray
           /\ \/ game' = game + 1 /\ me'.round = 1
              \/ game' = game /\ me.playing /\ me.waiting /\ me'.round = me.round + 1
           /\ \E x \in AnyLine : x.cmd = "GAME_START" /\ x.tag = <<game', me'.round>> /\ Says(x)
<1>1. SessionOK /\ game \in Nat
  BY DEF ShapeInv, RecordOK
<1>2. /\ me.place = "room" /\ me'.place = "room"
      /\ me'.playing /\ ~me'.waiting /\ ~me'.voted /\ ~me'.stray
      /\ \/ game' = game + 1 /\ me'.round = 1
         \/ game' = game /\ me.playing /\ me.waiting /\ me'.round = me.round + 1
      /\ SessionOK' /\ game' \in Nat
  BY <1>1, BeginFields, ProceedFields DEF GameBegins
<1>3. <<game', me'.round>> \in RoundTag
  BY <1>2 DEF SessionOK, Session, RoundTag
<1>4. PICK x \in AnyLine : x = GameStart /\ x.cmd = "GAME_START" /\ x.tag = <<game', me'.round>>
  BY <1>3, MadeLine DEF GameStart, RoundKinds
<1>5. Says(x)
  BY <1>4, SaysOK
<1> QED BY <1>2, <1>4, <1>5

\* So is the end of a round.
LEMMA EndAnnounced ==
    ASSUME ShapeInv, conn = "up", Reply(<<RoundEndLine>>)
    PROVE  \E x \in AnyLine : x.cmd = "ROUND_END" /\ x.tag = Now /\ Says(x)
<1>1. Now \in RoundTag
  BY NowOK DEF ShapeInv
<1>2. PICK x \in AnyLine : x = RoundEndLine /\ x.cmd = "ROUND_END" /\ x.tag = Now
  BY <1>1, MadeLine DEF RoundEndLine, RoundKinds
<1> QED BY <1>2, SaysOK

\* Every handler takes one of the turns.
LEMMA MessageTurns ==
    ASSUME ShapeInv, handle_message, conn = "up", attached'
    PROVE  Turns
<1> SessionOK /\ RecordOK
  BY DEF ShapeInv
<1>1. ASSUME NEW cmd, cmd # "LIST_ROOMS", Serve(cmd), cmd = "READY_NEXT_ROUND" => ~CanVote, Refused
      PROVE  Turns
  BY <1>1 DEF Refused, recordVars, Turns, SaysNothing, SameSession, SameRecord
<1>2. CASE handle_login
  <2>1. Serve("LOGIN")
    BY <1>2 DEF handle_login
  <2>2. CASE Enter /\ Reply(<<Line("LOGIN_OK", NoRound), RoomList>>) /\ SameRecord
    <3>1. \E x, y \in AnyLine : x.cmd = "LOGIN_OK" /\ y.cmd = "ROOM_LIST" /\ SaysBoth(x, y)
      BY <2>2, EntryReply
    <3>2. /\ me.place = "out" /\ me'.place = "lobby"
          /\ ~me'.stray /\ ~me'.playing /\ ~me'.waiting
      BY <2>2, EnterFields
    <3> QED BY <2>1, <2>2, <3>1, <3>2 DEF Turns, LetsIn
  <2>3. CASE Resume /\ Reply(<<Line("RECONNECT_OK", NoRound), FollowUp>>)
             /\ Misled(me.stray \/ (me.playing /\ me.waiting))
             /\ UNCHANGED <<game, seat>>
    <3>1. ~attached /\ SameSession /\ me.place # "out"
      BY <2>3, ResumeFields DEF RecordOK, SameSession, Resume
    <3>2. PICK x \in AnyLine : x = Line("RECONNECT_OK", NoRound) /\ x.cmd = "RECONNECT_OK"
      BY PlainLine DEF PlainKinds
    <3>3. PICK y \in AnyLine :
             /\ y = FollowUp
             /\ IF me.playing /\ ~me.stray THEN y.cmd = "GAME_START" /\ y.tag = Now
                ELSE y.cmd = (IF me.place = "room" THEN "ROOM_STATUS" ELSE "ROOM_LIST")
      <4>1. Now \in RoundTag /\ NoRound \in RoundTag
        BY NowOK DEF ShapeInv, NoRound, RoundTag
      <4>2. CASE me.playing /\ ~me.stray
        BY <4>1, <4>2, MadeLine DEF FollowUp, RoundKinds
      <4>3. CASE ~(me.playing /\ ~me.stray)
        BY <4>1, <4>3, MadeLine DEF FollowUp, PlainKinds, Status, RoomList
      <4> QED BY <4>2, <4>3
    <3>4. SaysBoth(x, y)
      BY <2>3, <3>2, <3>3, SaysBothOK
    <3>5. misled' = (misled \/ me.stray \/ (me.playing /\ me.waiting))
      BY <2>3 DEF Misled
    <3>6. \E u, v \in AnyLine :
             /\ u.cmd = "RECONNECT_OK" /\ SaysBoth(u, v)
             /\ IF me.playing /\ ~me.stray THEN v.cmd = "GAME_START" /\ v.tag = Now
                ELSE v.cmd = (IF me.place = "room" THEN "ROOM_STATUS" ELSE "ROOM_LIST")
      BY <3>2, <3>3, <3>4
    <3> QED BY <2>1, <2>3, <3>1, <3>5, <3>6 DEF Turns, LetsBack
  <2>4. CASE attached /\ Again /\ Reply(<<Line("LOGIN_OK", NoRound), RoomList>>)
             /\ Misled(me.place = "room")
             /\ UNCHANGED <<attached, game, seat, resumed, outOfTurn>>
    <3>1. \E x, y \in AnyLine : x.cmd = "LOGIN_OK" /\ y.cmd = "ROOM_LIST" /\ SaysBoth(x, y)
      BY <2>4, EntryReply
    <3>2. misled' = (misled \/ me.place = "room")
      BY <2>4 DEF Misled
    <3> QED BY <2>1, <2>4, <3>1, <3>2, AgainFields DEF Turns, LetsInAgain
  <2> QED BY <1>1, <1>2, <2>1, <2>2, <2>3, <2>4 DEF handle_login, SameRecord
<1>3. CASE handle_list_rooms
  <2>1. \E x \in AnyLine : x.cmd = "ROOM_LIST" /\ Says(x)
    BY <1>3, PlainOne DEF handle_list_rooms, RoomList, PlainKinds
  <2> QED BY <1>3, <2>1 DEF handle_list_rooms, recordVars, Turns, Lists, SameSession, SameRecord
<1>4. CASE handle_sit
  <2>1. CASE attached /\ Sit /\ seat' = seat + 1
             /\ Reply(<<Status, Line("ROOM_JOINED", NoRound)>>)
             /\ UNCHANGED <<attached, game, resumed, outOfTurn, misled>>
    <3>1. \E x, y \in AnyLine : x.cmd = "ROOM_STATUS" /\ y.cmd = "ROOM_JOINED" /\ SaysBoth(x, y)
      BY <2>1, SeatReply
    <3> QED BY <1>4, <2>1, <3>1, SitFields DEF handle_sit, Turns, Seats
  <2> QED BY <1>1, <1>4, <2>1 DEF handle_sit
<1>5. CASE handle_leave_room
  <2>1. CASE /\ CanLeave /\ Rise /\ UNCHANGED <<attached, recordVars>>
             /\ Reply((IF me.playing THEN <<Line("GAME_ABORTED", NoRound)>> ELSE <<>>)
                        \o <<Line("LEFT_ROOM", <<seat>>), RoomList>>)
    <3>1. PICK x \in AnyLine : x = Line("GAME_ABORTED", NoRound) /\ x.cmd = "GAME_ABORTED"
      BY PlainLine DEF PlainKinds
    <3>2. PICK y \in AnyLine : y = Line("LEFT_ROOM", <<seat>>) /\ y.cmd = "LEFT_ROOM"
                               /\ y.tag = <<seat>>
      BY NowOK, MadeLine DEF SeatKinds
    <3>3. PICK z \in AnyLine : z = RoomList /\ z.cmd = "ROOM_LIST"
      BY PlainLine DEF PlainKinds, RoomList
    <3>4. Reply((IF me.playing THEN <<x>> ELSE <<>>) \o <<y, z>>)
      BY <2>1, <3>1, <3>2, <3>3
    <3>5. me.playing \in BOOLEAN
      BY DEF SessionOK, Session
    <3>6. SaysThree(me.playing, x, y, z)
      BY <3>4, <3>5, SaysThreeOK
    <3>7. /\ me.place = "room" /\ me'.place = "lobby"
          /\ ~me'.stray /\ ~me'.playing /\ ~me'.waiting
      BY <2>1, RiseFields
    <3>8. SameRecord /\ attached
      BY <2>1 DEF recordVars, SameRecord, CanLeave
    <3>9. Serve("LEAVE_ROOM")
      BY <1>5 DEF handle_leave_room
    <3> QED BY <3>1, <3>2, <3>3, <3>6, <3>7, <3>8, <3>9 DEF Turns, LetsGo
  <2> QED BY <1>1, <1>5, <2>1 DEF handle_leave_room
<1>6. ASSUME NEW cmd \in {"START", "READY_NEXT_ROUND"}, Serve(cmd), attached,
             GameBegins \/ (Proceed /\ game' = game), Reply(<<GameStart>>),
             UNCHANGED <<seat, misled>>
      PROVE  Turns
  BY <1>6, StartAnnounced DEF Turns, StartsRound, TurnOf
<1>7. CASE handle_start_game
  BY <1>1, <1>6, <1>7 DEF handle_start_game
<1>8. CASE handle_submit
  <2>1. CASE CanSubmit
    <3>1. Serve("SUBMIT") /\ attached /\ SameRecord
      BY <1>8, <2>1 DEF handle_submit, CanSubmit, recordVars, SameRecord
    <3>2. CASE Answer /\ UNCHANGED toClient
      BY <3>1, <3>2, AnswerFields DEF Turns, SaysNothing, SameSession
    <3>3. CASE Win /\ Reply(<<RoundEndLine>>)
      BY <3>1, <3>3, WinFields, EndAnnounced DEF Turns, EndsRound, TurnOf
    <3>4. CASE Over /\ Reply(GameOverLines)
      <4>1. \E x, y \in AnyLine : x.cmd = "GAME_END" /\ y.cmd = "ROOM_STATUS" /\ SaysBoth(x, y)
        BY <3>4, OverReply
      <4> QED BY <3>1, <3>4, <4>1, OverFields DEF Turns, EndsGame, TurnOf
    <3> QED BY <1>8, <2>1, <3>2, <3>3, <3>4 DEF handle_submit
  <2> QED BY <1>1, <1>8, <2>1 DEF handle_submit
<1>9. CASE handle_ready_next_round
  <2>1. Serve("READY_NEXT_ROUND")
    BY <1>9 DEF handle_ready_next_round
  <2>2. CASE CanVote /\ Vote /\ CountsFor(game) /\ Reply(<<Line("WAIT_CONTINUE", NoRound)>>)
             /\ UNCHANGED <<attached, seat, resumed, misled>>
    <3>1. \E x \in AnyLine : x.cmd = "WAIT_CONTINUE" /\ Says(x)
      BY <2>2, PlainOne DEF PlainKinds
    <3>2. attached /\ me.place = "room" /\ SameRecord
      BY <2>2 DEF CanVote, CountsFor, SameRecord
    <3> QED BY <2>1, <2>2, <3>1, <3>2, VoteFields DEF Turns, CountsVote
  <2> QED
    BY <1>1, <1>6, <1>9, <2>1, <2>2 DEF handle_ready_next_round, CanVote, CountsFor
<1> QED BY <1>2, <1>3, <1>4, <1>5, <1>7, <1>8, <1>9 DEF handle_message

\* So do the other occupants and the timer.
LEMMA OthersTurns ==
    ASSUME ShapeInv, Others, conn = "up", attached'
    PROVE  Turns
<1> SessionOK /\ RecordOK
  BY DEF ShapeInv
<1>1. Elsewhere /\ attached
  BY DEF Others, OthersStart, OthersAnswer, OthersVote, GameOver, OthersLeave, OthersRemoved,
         OthersLost, StatusUpdate, Elsewhere
<1>2. UNCHANGED seat
  BY <1>1 DEF Elsewhere
<1>3. CASE OthersStart
  <2>1. GameBegins /\ Reply(<<GameStart>>) /\ UNCHANGED misled
    BY <1>1, <1>3, ToldReply DEF OthersStart
  <2> QED BY <1>1, <1>2, <2>1, StartAnnounced DEF Turns, StartsRound, TurnOf
<1>4. CASE OthersAnswer
  <2>1. Win /\ Reply(<<RoundEndLine>>) /\ SameRecord
    BY <1>1, <1>2, <1>4, ToldReply DEF OthersAnswer, SameRecord
  <2> QED BY <1>1, <2>1, WinFields, EndAnnounced DEF Turns, EndsRound, TurnOf
<1>5. CASE OthersVote
  <2>1. Proceed /\ Reply(<<GameStart>>) /\ UNCHANGED <<game, misled>>
    BY <1>1, <1>5, ToldReply DEF OthersVote
  <2> QED BY <1>1, <1>2, <2>1, StartAnnounced DEF Turns, StartsRound, TurnOf
<1>6. CASE GameOver
  <2>1. Over /\ Reply(GameOverLines) /\ SameRecord
    BY <1>1, <1>2, <1>6, ToldReply DEF GameOver, SameRecord
  <2>2. \E x, y \in AnyLine : x.cmd = "GAME_END" /\ y.cmd = "ROOM_STATUS" /\ SaysBoth(x, y)
    BY <2>1, OverReply
  <2> QED BY <1>1, <2>1, <2>2, OverFields DEF Turns, EndsGame, TurnOf
<1>7. CASE OthersLeave
  <2>1. PICK x \in AnyLine : x = Line("GAME_ABORTED", NoRound) /\ x.cmd = "GAME_ABORTED"
    BY PlainLine DEF PlainKinds
  <2>2. PICK y \in AnyLine : y = Status /\ y.cmd = "ROOM_STATUS"
    BY PlainLine DEF PlainKinds, Status
  <2>3. Reply((IF me.playing THEN <<x>> ELSE <<>>) \o <<y>>)
    BY <1>1, <1>7, <2>1, <2>2, ToldReply DEF OthersLeave
  <2>4. me.playing \in BOOLEAN
    BY DEF SessionOK, Session
  <2>5. SaysPerhaps(me.playing, x, y)
    BY <2>3, <2>4, SaysPerhapsOK
  <2>6. UNCHANGED <<me, game>> /\ me.place = "room" /\ misled' = (misled \/ me.playing)
    BY <1>7 DEF OthersLeave, Misled
  <2> QED BY <1>1, <1>2, <2>1, <2>2, <2>5, <2>6 DEF Turns, TellsOfLeaver, SameSession
<1>10. CASE OthersRemoved
  <2>1. PICK x \in AnyLine : x = Line("GAME_ABORTED", NoRound) /\ x.cmd = "GAME_ABORTED"
    BY PlainLine DEF PlainKinds
  <2>2. PICK y \in AnyLine : y.cmd = "ROOM_STATUS"
    BY PlainLine DEF PlainKinds
  <2>3. Reply(<<x>>)
    BY <1>1, <1>10, <2>1, ToldReply DEF OthersRemoved
  <2>4. /\ UNCHANGED <<me, game>> /\ me.place = "room"
        /\ me.playing /\ misled' = (misled \/ me.playing)
    BY <1>10 DEF OthersRemoved, Misled
  <2> QED BY <1>1, <1>2, <2>1, <2>2, <2>3, <2>4, SaysOK DEF Turns, TellsOfLeaver, SameSession
<1>8. CASE OthersLost
  <2>1. PICK x \in AnyLine : x = Line("PLAYER_DISCONNECTED", <<seat>>) /\ x.tag = <<seat>>
                             /\ x.cmd = "PLAYER_DISCONNECTED"
    BY NowOK, MadeLine DEF SeatKinds
  <2>2. Reply(<<x>>)
    BY <1>1, <1>8, <2>1, ToldReply DEF OthersLost
  <2> QED BY <1>1, <1>2, <1>8, <2>1, <2>2, SaysOK
          DEF OthersLost, Turns, TellsOfLoss, SameSession, SameRecord
<1>9. CASE StatusUpdate
  <2>1. \E x \in AnyLine : x.cmd = "ROOM_STATUS" /\ Says(x)
    BY <1>1, <1>9, ToldReply, PlainOne DEF StatusUpdate, Status, PlainKinds
  <2> QED BY <1>1, <1>2, <1>9, <2>1
          DEF StatusUpdate, Turns, TellsStatus, SameSession, SameRecord
<1> QED BY <1>3, <1>4, <1>5, <1>6, <1>7, <1>8, <1>9, <1>10 DEF Others

-----------------------------------------------------------------------------
(***************************************************************************)
(* Lines on their way to the client.                                       *)
(***************************************************************************)

IsLeft(l)  == l.cmd = "LEFT_ROOM" /\ l.tag = <<seat>>
IsStart(l) == l.cmd = "GAME_START" /\ l.tag = Now

\* Before the server has read a LOGIN over the connection.
Unserved ==
    /\ toClient = <<>> /\ boxes = <<>> /\ screen = "Login"
    /\ Only(toServer, {"LOGIN"})

\* No line is about a round to come.
RoundsPast ==
    \A l \in On(toClient) : l.cmd \in {"GAME_START", "ROUND_END"} =>
       /\ l.tag[2] >= 1
       /\ me.playing /\ l.tag[1] = game => l.tag[2] <= me.round

\* Once the user has been told to have left the last seat, the lobby is all that
\* is spoken of.
LeftFits ==
    /\ \A l \in On(toClient) : l.cmd = "LEFT_ROOM" => l.tag[1] <= seat
    /\ \A l \in On(toClient) : IsLeft(l) => me.place = "lobby"
    /\ \A a, b : Before(toClient, a, b) /\ IsLeft(a) => b.cmd \in {"ROOM_LIST", "LOGIN_OK"}

\* Once the current round has been announced, the user keeps the seat and the
\* round; a seat whose state is the lobby's has been told so after that.
StartFits ==
    /\ \A a, b : Before(toClient, a, b) /\ IsStart(a) =>
         /\ b.cmd \notin {"LEFT_ROOM", "ROOM_JOINED", "RECONNECT_OK", "GAME_START", "GAME_END"}
         /\ b.cmd = "PLAYER_DISCONNECTED" => b.tag = <<seat>>
    /\ \A l \in On(toClient) : IsStart(l) /\ me.stray =>
         \E b : Before(toClient, l, b) /\ b.cmd = "LOGIN_OK"

LinesFit == RoundsPast /\ LeftFits /\ StartFits

WireInv ==
    /\ conn = "up" => isConnected
    /\ conn = "up" => IF attached THEN LinesFit ELSE Unserved
    /\ ~attached /\ ~Only(toServer, {"LOGIN"}) => me.place = "out"

\* Lines that go on with what is so.
LEMMA LinesGrow ==
    ASSUME ShapeInv, LinesFit, NEW new, NEW pairs, Grows(new, pairs), UNCHANGED <<seat, game>>,
           me'.playing = me.playing, me'.round = me.round, me'.place = me.place,
           \A x \in new :
              /\ x.cmd \notin {"LEFT_ROOM", "ROOM_JOINED", "RECONNECT_OK", "GAME_START",
                               "GAME_END"}
              /\ x.cmd = "PLAYER_DISCONNECTED" => x.tag = <<seat>>
              /\ x.cmd = "ROUND_END" => me.playing /\ x.tag = Now
              /\ me.place = "lobby" => x.cmd \in {"ROOM_LIST", "LOGIN_OK"},
           me'.stray => me.stray \/ \E x \in new : x.cmd = "LOGIN_OK",
           \A a, b : <<a, b>> \in pairs => a \in new /\ b \in new
    PROVE  LinesFit'
<1> QueuesOK /\ SessionOK /\ RecordOK
  BY DEF ShapeInv, ClientOK
<1>1. /\ On(toClient') = On(toClient) \cup new
      /\ \A a, b : Before(toClient', a, b) <=> \/ Before(toClient, a, b)
                                               \/ a \in On(toClient) /\ b \in new
                                               \/ <<a, b>> \in pairs
  BY Grown
<1>2. Now' = Now
  BY DEF Now
<1>3. (\A l : IsLeft(l)' <=> IsLeft(l)) /\ (\A l : IsStart(l)' <=> IsStart(l))
  BY <1>2 DEF IsLeft, IsStart
<1>4. RoundsPast'
  <2>1. me.round \in Nat /\ (me.playing => me.round >= 1) /\ Now[1] = game /\ Now[2] = me.round
    BY DEF SessionOK, Session, Now
  <2>2. \A x \in new : x.cmd \in {"GAME_START", "ROUND_END"} =>
           x.tag[2] >= 1 /\ x.tag[2] <= me.round
    BY <2>1
  <2> QED BY <1>1, <2>2 DEF LinesFit, RoundsPast
<1>5. LeftFits'
  BY <1>1, <1>3 DEF LinesFit, LeftFits, IsLeft
<1>6. StartFits'
  <2>1. \A x \in new : ~IsStart(x)
    BY DEF IsStart
  <2>2. \A a, b : Before(toClient', a, b) /\ IsStart(a) =>
           /\ b.cmd \notin {"LEFT_ROOM", "ROOM_JOINED", "RECONNECT_OK", "GAME_START", "GAME_END"}
           /\ b.cmd = "PLAYER_DISCONNECTED" => b.tag = <<seat>>
    BY <1>1, <2>1 DEF LinesFit, StartFits
  <2>3. ASSUME NEW l \in On(toClient'), IsStart(l), me'.stray
        PROVE  \E b : Before(toClient', l, b) /\ b.cmd = "LOGIN_OK"
    <3>1. l \in On(toClient)
      BY <1>1, <2>1, <2>3
    <3>2. CASE me.stray
      BY <1>1, <2>3, <3>1, <3>2 DEF LinesFit, StartFits
    <3>3. CASE \E x \in new : x.cmd = "LOGIN_OK"
      BY <1>1, <3>1, <3>3
    <3> QED BY <2>3, <3>2, <3>3
  <2> QED BY <1>3, <2>2, <2>3 DEF StartFits
<1> QED BY <1>4, <1>5, <1>6 DEF LinesFit

\* Where neither the last seat was left nor the current round announced.
LEMMA LinesAnew ==
    ASSUME RoundsPast', \A l \in On(toClient') : ~IsStart(l)' /\ ~IsLeft(l)',
           \A l \in On(toClient') : l.cmd = "LEFT_ROOM" => l.tag[1] <= seat'
    PROVE  LinesFit'
BY BeforeOn DEF LinesFit, LeftFits, StartFits

\* Whoever is given the connection finds nothing on it.
LEMMA UnservedOn ==
    ASSUME Unserved
    PROVE  /\ On(toClient) = {} /\ On(boxes) = {} /\ screen = "Login" /\ boxes = <<>>
           /\ toClient = <<>> /\ (\A a, b : ~Before(toClient, a, b)) /\ Only(toServer, {"LOGIN"})
BY OnEmpty DEF Unserved

\* The server's turns keep to that.
LEMMA LinesFitTurns ==
    ASSUME ShapeInv, ShapeInv', PastGames, WireInv, Turns, conn = "up"
    PROVE  LinesFit'
<1> /\ QueuesOK /\ SessionOK /\ SessionOK' /\ RecordOK /\ game \in Nat /\ seat \in Nat
    /\ seat' \in Nat
  BY DEF ShapeInv, ClientOK, RecordOK
<1>0. /\ \A l \in On(toClient) : l.cmd \in {"GAME_START", "ROUND_END"} => l.tag \in RoundTag
      /\ \A l \in On(toClient) : l.cmd = "LEFT_ROOM" => l.tag \in SeatTag
  <2>1. On(toClient) \subseteq AnyLine
    BY ElementOfSeq DEF On, QueuesOK
  <2> QED BY <2>1, TagOf DEF RoundKinds, SeatKinds
<1>a. me.round \in Nat /\ me'.round \in Nat /\ (~me'.playing => me'.round = 0)
  BY DEF SessionOK, Session
<1>1. attached => LinesFit
  BY DEF WireInv
<1>2. ~attached => On(toClient) = {}
  BY UnservedOn DEF WireInv
<1>b. ASSUME ~me'.playing, \A l \in On(toClient') : l.cmd = "GAME_START" => l.tag[2] >= 1
      PROVE  \A l \in On(toClient') : ~IsStart(l)'
  BY <1>a, <1>b DEF IsStart, Now
<1>3. CASE SaysNothing
  <2>1. UNCHANGED <<toClient, Now, seat, game>>
    BY <1>3 DEF SaysNothing, SameSession, SameRecord, Now
  <2>2. (\A l : IsLeft(l)' <=> IsLeft(l)) /\ (\A l : IsStart(l)' <=> IsStart(l))
    BY <2>1 DEF IsLeft, IsStart
  <2> QED BY <1>1, <1>3, <2>1, <2>2
          DEF SaysNothing, SameSession, LinesFit, RoundsPast, LeftFits, StartFits
<1>4. CASE LetsIn
  <2>1. ~attached
    BY <1>4 DEF LetsIn, RecordOK, SessionOK
  <2>2. PICK x, y \in AnyLine : x.cmd = "LOGIN_OK" /\ y.cmd = "ROOM_LIST" /\ SaysBoth(x, y)
    BY <1>4 DEF LetsIn
  <2>3. On(toClient') = {x, y}
    BY <1>2, <2>1, <2>2, SaidBoth
  <2> QED BY <2>2, <2>3, LinesAnew DEF RoundsPast, IsStart, IsLeft
<1>5. CASE LetsBack
  <2>1. ~attached
    BY <1>5 DEF LetsBack
  <2>2. PICK x, y \in AnyLine :
           /\ x.cmd = "RECONNECT_OK" /\ SaysBoth(x, y)
           /\ IF me.playing /\ ~me.stray THEN y.cmd = "GAME_START" /\ y.tag = Now
              ELSE y.cmd = (IF me.place = "room" THEN "ROOM_STATUS" ELSE "ROOM_LIST")
    BY <1>5 DEF LetsBack
  <2>3. /\ On(toClient') = {x, y}
        /\ \A a, b : Before(toClient', a, b) => a = x /\ b = y
    <3>1. /\ On(toClient') = On(toClient) \cup {x, y}
          /\ \A a, b : Before(toClient', a, b) <=> \/ Before(toClient, a, b)
                                                   \/ a \in On(toClient) /\ b \in {x, y}
                                                   \/ a = x /\ b = y
      BY <2>2, SaidBoth
    <3> QED BY <1>2, <2>1, <3>1, BeforeOn
  <2>4. Now' = Now /\ SameSession /\ UNCHANGED <<game, seat>>
    BY <1>5 DEF LetsBack, SameSession, Now
  <2>5. RoundsPast'
    <3>1. CASE me.playing /\ ~me.stray
      <4>1. y.tag[1] = game /\ y.tag[2] = me.round /\ me.round >= 1
        BY <1>a, <2>2, <3>1 DEF Now, SessionOK
      <4> QED BY <1>a, <2>2, <2>3, <2>4, <3>1, <4>1 DEF RoundsPast, SameSession
    <3>2. CASE ~(me.playing /\ ~me.stray)
      BY <2>2, <2>3, <3>2 DEF RoundsPast
    <3> QED BY <3>1, <3>2
  <2>6. LeftFits'
    BY <2>2, <2>3 DEF LeftFits, IsLeft
  <2>7. StartFits'
    BY <2>2, <2>3, <2>4 DEF StartFits, IsStart, SameSession
  <2> QED BY <2>5, <2>6, <2>7 DEF LinesFit
<1>6. CASE LetsInAgain
  <2>1. PICK x, y \in AnyLine : x.cmd = "LOGIN_OK" /\ y.cmd = "ROOM_LIST" /\ SaysBoth(x, y)
    BY <1>6 DEF LetsInAgain
  <2> QED BY <1>1, <1>6, <2>1, LinesGrow DEF LetsInAgain, SaysBoth
<1>7. CASE Lists
  <2>1. PICK x \in AnyLine : x.cmd = "ROOM_LIST" /\ Says(x)
    BY <1>7 DEF Lists
  <2> QED BY <1>1, <1>7, <2>1, LinesGrow DEF Lists, Says, SameSession, SameRecord
<1>8. CASE Seats
  <2>1. PICK x, y \in AnyLine :
           x.cmd = "ROOM_STATUS" /\ y.cmd = "ROOM_JOINED" /\ SaysBoth(x, y)
    BY <1>8 DEF Seats
  <2>2. On(toClient') = On(toClient) \cup {x, y}
    BY <2>1, SaidBoth
  <2>3. LinesFit /\ ~me'.playing /\ seat' = seat + 1
    BY <1>1, <1>8 DEF Seats
  <2>4. RoundsPast'
    BY <2>1, <2>2, <2>3 DEF LinesFit, RoundsPast
  <2>5. \A l \in On(toClient') : ~IsStart(l)'
    BY <1>b, <2>3, <2>4 DEF RoundsPast
  <2>6. \A l \in On(toClient') : l.cmd = "LEFT_ROOM" => l.tag \in SeatTag /\ l.tag[1] <= seat
    BY <1>0, <2>1, <2>2, <2>3 DEF LinesFit, LeftFits
  <2>7. \A l \in On(toClient') : ~IsLeft(l)' /\ (l.cmd = "LEFT_ROOM" => l.tag[1] <= seat')
    BY <2>3, <2>6 DEF IsLeft, SeatTag
  <2> QED BY <2>4, <2>5, <2>7, LinesAnew
<1>9. CASE LetsGo
  <2>1. PICK x, y, z \in AnyLine :
           /\ x.cmd = "GAME_ABORTED" /\ y.cmd = "LEFT_ROOM" /\ y.tag = <<seat>>
           /\ z.cmd = "ROOM_LIST" /\ SaysThree(me.playing, x, y, z)
    BY <1>9 DEF LetsGo
  <2>2. /\ On(toClient') \subseteq On(toClient) \cup {x, y, z}
        /\ \A a, b : Before(toClient', a, b) => \/ Before(toClient, a, b)
                                                \/ a \in On(toClient)
                                                \/ a = y /\ b = z
                                                \/ a = x
    <3>1. me.playing \in BOOLEAN
      BY DEF SessionOK, Session
    <3> QED BY <2>1, <3>1, SaidThree
  <2>3. LinesFit /\ ~me'.playing /\ me.place = "room" /\ me'.place = "lobby" /\ seat' = seat
    BY <1>1, <1>9 DEF LetsGo, SameRecord
  <2>4. RoundsPast'
    BY <2>1, <2>2, <2>3 DEF LinesFit, RoundsPast
  <2>5. \A l \in On(toClient') : ~IsStart(l)'
    BY <1>b, <2>3, <2>4 DEF RoundsPast
  <2>6. StartFits'
    BY <2>5, BeforeOn DEF StartFits
  <2>7. \A l \in On(toClient) : ~IsLeft(l)
    BY <2>3 DEF LinesFit, LeftFits
  <2>8. ~IsLeft(x) /\ \A l : IsLeft(l)' <=> IsLeft(l)
    BY <2>1, <2>3 DEF IsLeft
  <2>9. \A l \in On(toClient') : l.cmd = "LEFT_ROOM" => l.tag[1] <= seat
    BY <2>1, <2>2, <2>3 DEF LinesFit, LeftFits
  <2>10. \A a, b : Before(toClient', a, b) /\ IsLeft(a) => b.cmd \in {"ROOM_LIST", "LOGIN_OK"}
    BY <2>1, <2>2, <2>7, <2>8, BeforeOn
  <2>11. LeftFits'
    BY <2>3, <2>8, <2>9, <2>10 DEF LeftFits
  <2> QED BY <2>4, <2>6, <2>11 DEF LinesFit
<1>10. CASE StartsRound
  <2>1. PICK x \in AnyLine :
           x.cmd = "GAME_START" /\ x.tag = <<game', me'.round>> /\ Says(x)
    BY <1>10 DEF StartsRound
  <2>2. /\ On(toClient') = On(toClient) \cup {x}
        /\ \A a, b : Before(toClient', a, b) => a \in On(toClient)
    <3>1. /\ On(toClient') = On(toClient) \cup {x}
          /\ \A a, b : Before(toClient', a, b) <=> \/ Before(toClient, a, b)
                                                   \/ a \in On(toClient) /\ b = x
      BY <2>1, Said
    <3> QED BY <3>1, BeforeOn
  <2>3. /\ LinesFit /\ me.place = "room" /\ ~me'.stray /\ seat' = seat
        /\ \/ game' = game + 1 /\ me'.round = 1
           \/ game' = game /\ me.playing /\ me'.round = me.round + 1
    BY <1>1, <1>10 DEF StartsRound
  <2>4. \A l \in On(toClient) : l.cmd \in {"GAME_START", "ROUND_END"} =>
           /\ l.tag[1] \in Nat /\ l.tag[2] \in Nat /\ l.tag[1] <= game
           /\ l.tag[2] >= 1 /\ (me.playing /\ l.tag[1] = game => l.tag[2] <= me.round)
    BY <1>0, <2>3 DEF LinesFit, RoundsPast, PastGames, RoundTag, RoundKinds
  <2>5. x.tag[1] = game' /\ x.tag[2] = me'.round /\ me'.round >= 1
    BY <1>a, <2>1, <2>3
  <2>6. RoundsPast'
    <3>1. ASSUME NEW l \in On(toClient), l.cmd \in {"GAME_START", "ROUND_END"}
          PROVE  l.tag[2] >= 1 /\ (l.tag[1] = game' => l.tag[2] <= me'.round)
      BY <1>a, <2>3, <2>4, <3>1
    <3> QED BY <1>a, <2>2, <2>5, <3>1 DEF RoundsPast
  <2>7. ASSUME NEW l \in On(toClient) PROVE ~IsStart(l)'
    <3>1. ~(l.cmd = "GAME_START" /\ l.tag[1] = game' /\ l.tag[2] = me'.round)
      BY <1>a, <2>3, <2>4
    <3> QED BY <3>1 DEF IsStart, Now
  <2>8. StartFits'
    BY <2>2, <2>3, <2>7 DEF StartFits
  <2>9. \A l \in On(toClient) : ~IsLeft(l)'
    BY <2>3 DEF LinesFit, LeftFits, IsLeft
  <2>10. LeftFits'
    BY <2>1, <2>2, <2>3, <2>9 DEF LeftFits, LinesFit, IsLeft
  <2> QED BY <2>6, <2>8, <2>10 DEF LinesFit
<1>11. CASE EndsRound
  <2>1. PICK x \in AnyLine : x.cmd = "ROUND_END" /\ x.tag = Now /\ Says(x)
    BY <1>11 DEF EndsRound
  <2>2. me.place = "room"
    BY <1>11 DEF EndsRound, SessionOK
  <2> QED BY <1>1, <1>11, <2>1, <2>2, LinesGrow DEF EndsRound, Says, SameRecord
<1>12. CASE CountsVote
  <2>1. PICK x \in AnyLine : x.cmd = "WAIT_CONTINUE" /\ Says(x)
    BY <1>12 DEF CountsVote
  <2> QED BY <1>1, <1>12, <2>1, LinesGrow DEF CountsVote, Says, SameRecord
<1>13. CASE EndsGame
  <2>1. PICK x, y \in AnyLine : x.cmd = "GAME_END" /\ y.cmd = "ROOM_STATUS" /\ SaysBoth(x, y)
    BY <1>13 DEF EndsGame
  <2>2. On(toClient') = On(toClient) \cup {x, y}
    BY <2>1, SaidBoth
  <2>3. LinesFit /\ ~me'.playing /\ me.place = "room" /\ seat' = seat
    BY <1>1, <1>13 DEF EndsGame, SameRecord, SessionOK
  <2>4. RoundsPast'
    BY <2>1, <2>2, <2>3 DEF LinesFit, RoundsPast
  <2>5. \A l \in On(toClient') : ~IsStart(l)'
    BY <1>b, <2>3, <2>4 DEF RoundsPast
  <2>6. \A l \in On(toClient') : ~IsLeft(l)' /\ (l.cmd = "LEFT_ROOM" => l.tag[1] <= seat')
    BY <2>1, <2>2, <2>3 DEF LinesFit, LeftFits, IsLeft
  <2> QED BY <2>4, <2>5, <2>6, LinesAnew
<1>14. CASE TellsOfLeaver
  <2>1. PICK x, y \in AnyLine :
           /\ x.cmd = "GAME_ABORTED" /\ y.cmd = "ROOM_STATUS"
           /\ SaysPerhaps(me.playing, x, y) \/ Says(x)
    BY <1>14 DEF TellsOfLeaver
  <2>2. CASE SaysPerhaps(me.playing, x, y)
    <3> DEFINE new   == {y} \cup (IF me.playing THEN {x} ELSE {})
               pairs == IF me.playing THEN {<<x, y>>} ELSE {}
    <3>1. Grows(new, pairs)
      BY <2>2 DEF SaysPerhaps
    <3>2. new \subseteq {x, y} /\ \A a, b : <<a, b>> \in pairs => a \in new /\ b \in new
      OBVIOUS
    <3> HIDE DEF new, pairs
    <3> QED BY <1>1, <1>14, <2>1, <3>1, <3>2, LinesGrow DEF TellsOfLeaver, SameSession
  <2>3. CASE Says(x)
    BY <1>1, <1>14, <2>1, <2>3, LinesGrow DEF TellsOfLeaver, Says, SameSession
  <2> QED BY <2>1, <2>2, <2>3
<1>15. CASE TellsOfLoss
  <2>1. PICK x \in AnyLine : x.cmd = "PLAYER_DISCONNECTED" /\ x.tag = <<seat>> /\ Says(x)
    BY <1>15 DEF TellsOfLoss
  <2> QED BY <1>1, <1>15, <2>1, LinesGrow DEF TellsOfLoss, Says, SameSession, SameRecord
<1>16. CASE TellsStatus
  <2>1. PICK x \in AnyLine : x.cmd = "ROOM_STATUS" /\ Says(x)
    BY <1>16 DEF TellsStatus
  <2> QED BY <1>1, <1>16, <2>1, LinesGrow DEF TellsStatus, Says, SameSession, SameRecord
<1> QED
  BY <1>3, <1>4, <1>5, <1>6, <1>7, <1>8, <1>9, <1>10, <1>11, <1>12, <1>13, <1>14, <1>15, <1>16
     DEF Turns
\* The client reads a line, or none.
LEMMA LinesFitRead ==
    ASSUME QueuesOK, LinesFit, UNCHANGED <<me, game, seat>>,
           toClient' = toClient \/ \E cmd : Reads(cmd)
    PROVE  LinesFit'
<1>1. (\A l : IsLeft(l)' <=> IsLeft(l)) /\ (\A l : IsStart(l)' <=> IsStart(l))
  BY DEF IsLeft, IsStart, Now
<1>2. CASE toClient' = toClient
  BY <1>1, <1>2 DEF LinesFit, RoundsPast, LeftFits, StartFits
<1>3. CASE \E cmd : Reads(cmd)
  <2>1. PICK h \in AnyLine :
           /\ On(toClient) = On(toClient') \cup {h}
           /\ \A a, b : Before(toClient, a, b) <=> \/ Before(toClient', a, b)
                                                   \/ a = h /\ b \in On(toClient')
    BY <1>3, Heard
  <2>2. RoundsPast'
    BY <2>1 DEF LinesFit, RoundsPast
  <2>3. LeftFits'
    BY <1>1, <2>1 DEF LinesFit, LeftFits
  <2>4. StartFits'
    <3>1. ASSUME NEW l \in On(toClient'), IsStart(l), me.stray
          PROVE  \E b : Before(toClient', l, b) /\ b.cmd = "LOGIN_OK"
      <4>1. PICK b : Before(toClient, l, b) /\ b.cmd = "LOGIN_OK"
        BY <2>1, <3>1 DEF LinesFit, StartFits
      <4>2. l # h
        BY <2>1, <3>1 DEF LinesFit, StartFits, IsStart
      <4> QED BY <2>1, <4>1, <4>2
    <3> QED BY <1>1, <2>1, <3>1 DEF LinesFit, StartFits
  <2> QED BY <2>2, <2>3, <2>4 DEF LinesFit
<1> QED BY <1>2, <1>3

\* A step of the client connects it, or happens on a connection that is up, or
\* leaves what has been sent as it is.
LEMMA ClientConnection ==
    ASSUME ClientStep
    PROVE  /\ UNCHANGED <<me, game, seat>>
           /\ \/ Connects /\ onConnectClicked /\ ~attached'
              \/ /\ conn # "up" /\ conn' # "up" /\ toServer' = toServer /\ ~Connects
                 /\ conn' = conn \/ conn' = "none"
              \/ /\ conn = "up" /\ conn' = "up" /\ isConnected' = isConnected /\ ~Connects
                 /\ toClient' = toClient \/ \E cmd : Reads(cmd)
<1>1. UNCHANGED <<me, game, seat>> /\ attached' = (attached /\ ~Connects)
  BY DEF ClientStep
<1>2. CASE HandleLine
  BY <1>1, <1>2
     DEF HandleLine, onLoginSuccessful, onReconnectSuccessful, onRoomListReceived,
         onRoomStatusUpdated, onRoomJoined, onLeftRoom, onGameStarted, onGameEnded, onRoundEnded,
         onWaitingForContinue, onGameAborted, onPlayerDisconnected, onDisconnected, ReadError,
         windowVars, transitionToLobby, sendCommand, Connects
<1>3. CASE CloseBox
  BY <1>1, <1>3
     DEF CloseBox, LobbyAfterBox, ReconnectingAfterBox, LoginAfterBox, Answered, netVars,
         transitionToLobby, sendCommand, Connects
<1>4. CASE UserActs(seat)
  BY <1>1, <1>4
     DEF UserActs, onConnectClicked, onLoginClicked, SitClicked, StartClicked, Sends,
         onLeaveRoomClicked, onSubmitClicked, onBackToRoomClicked, onContinueClicked, netVars,
         windowVars, sendCommand, Connects
<1> QED BY <1>2, <1>3, <1>4 DEF ClientStep

\* Over a connection that is up and not yet served, the user can only log in.
LEMMA UnservedClient ==
    ASSUME QueuesOK, Unserved, ClientStep, conn = "up"
    PROVE  Unserved'
<1>1. toClient = <<>> /\ boxes = <<>> /\ screen = "Login" /\ Only(toServer, {"LOGIN"})
  BY DEF Unserved
<1>2. ~HandleLine
  BY <1>1
     DEF HandleLine, onLoginSuccessful, onReconnectSuccessful, onRoomListReceived,
         onRoomStatusUpdated, onRoomJoined, onLeftRoom, onGameStarted, onGameEnded, onRoundEnded,
         onWaitingForContinue, onGameAborted, onPlayerDisconnected, onDisconnected, ReadError,
         Reads
<1>3. ~CloseBox
  BY <1>1
     DEF CloseBox, LobbyAfterBox, ReconnectingAfterBox, LoginAfterBox, Answered, Closes
<1>4. onLoginClicked
  BY <1>1, <1>2, <1>3
     DEF ClientStep, UserActs, onConnectClicked, SitClicked, StartClicked, Sends,
         onLeaveRoomClicked, onSubmitClicked, onBackToRoomClicked, onContinueClicked, Clicks
<1>5. sendCommand("LOGIN", NoRound) /\ UNCHANGED <<toClient, boxes, screen>>
  BY <1>4 DEF onLoginClicked, Sends, windowVars
<1>6. PICK x \in AnyLine : x = Line("LOGIN", NoRound) /\ x.cmd = "LOGIN"
  BY PlainLine DEF PlainKinds
<1>7. On(toServer') \subseteq On(toServer) \cup {x}
  BY <1>5, <1>6, Sent
<1> QED BY <1>1, <1>5, <1>6, <1>7 DEF Unserved, Only

\* Steps of the client.
LEMMA WireInvClient ==
    ASSUME ShapeInv, WireInv, ClientStep
    PROVE  WireInv'
<1> QueuesOK /\ RecordOK /\ (conn = "none" => toClient = <<>>)
  BY DEF ShapeInv, ClientOK
<1>1. CASE Connects /\ onConnectClicked /\ ~attached'
  <2>1. Unserved'
    BY <1>1, OnEmpty DEF Connects, onConnectClicked, Clicks, UserFree, Unserved, Only
  <2> QED BY <1>1, <2>1 DEF WireInv, Unserved, onConnectClicked
<1>2. CASE /\ conn # "up" /\ conn' # "up" /\ toServer' = toServer /\ ~Connects
  BY <1>2 DEF WireInv, ClientStep, Only
<1>3. CASE /\ conn = "up" /\ conn' = "up" /\ isConnected' = isConnected /\ ~Connects
           /\ toClient' = toClient \/ \E cmd : Reads(cmd)
  <2>1. attached' = attached /\ UNCHANGED <<me, game, seat>>
    BY <1>3 DEF ClientStep, RecordOK
  <2>2. attached => LinesFit'
    BY <1>3, <2>1, LinesFitRead DEF WireInv
  <2>3. ~attached => Unserved'
    BY <1>3, UnservedClient DEF WireInv
  <2> QED BY <1>3, <2>1, <2>2, <2>3 DEF WireInv, Unserved
<1> QED BY <1>1, <1>2, <1>3, ClientConnection

\* A session that is not the client's stays so, unless it logs in; it is told
\* nothing.
LEMMA NotServed ==
    ASSUME ShapeInv, handle_message \/ Others, ~attached'
    PROVE  /\ ~attached /\ me'.place = me.place
           /\ Others \/ \E cmd : Serve(cmd)
           /\ Others \/ Serve("LOGIN") => UNCHANGED toClient
           /\ Others => UNCHANGED toServer
           /\ UNCHANGED <<conn, windowVars, seat>>
<1> SessionOK /\ RecordOK
  BY DEF ShapeInv
<1>1. CASE Others
  <2>1. Elsewhere /\ ~attached
    BY <1>1 DEF Others, OthersStart, OthersAnswer, OthersVote, GameOver, OthersLeave, OthersRemoved,
                OthersLost, StatusUpdate, Elsewhere
  <2>2. me'.place = me.place
    BY <1>1, BeginFields, WinFields, ProceedFields, OverFields
       DEF Others, OthersStart, OthersAnswer, OthersVote, GameOver, OthersLeave, OthersRemoved,
           OthersLost, StatusUpdate, GameBegins
  <2>3. UNCHANGED toClient
    BY <1>1, <2>1 DEF Others, OthersStart, OthersAnswer, OthersVote, GameOver, OthersLeave,
                      OthersRemoved, OthersLost, StatusUpdate, Told
  <2> QED BY <1>1, <2>1, <2>2, <2>3 DEF Elsewhere
<1>2. CASE handle_message
  <2>1. PICK cmd : Serve(cmd)
    BY <1>2, ServedBy
  <2>2. UNCHANGED <<conn, windowVars>>
    BY <2>1 DEF Serve
  <2>3. ~attached /\ me' = me /\ seat' = seat
    BY <1>2 DEF handle_message, handle_login, handle_list_rooms, handle_sit, handle_leave_room,
                handle_start_game, handle_submit, handle_ready_next_round, Refused, recordVars,
                CanLeave, CanSubmit, CanVote
  <2>4. Serve("LOGIN") => UNCHANGED toClient
    <3>1. Serve("LOGIN") => handle_login
      BY <1>2 DEF handle_message, handle_list_rooms, handle_sit, handle_leave_room,
                  handle_start_game, handle_submit, handle_ready_next_round, Serve
    <3> QED BY <2>3, <3>1 DEF handle_login, Refused
  <2>5. Others => UNCHANGED <<toServer, toClient>>
    BY <2>1, <2>3 DEF Others, OthersStart, OthersAnswer, OthersVote, GameOver, OthersLeave,
                      OthersRemoved, OthersLost, StatusUpdate, Told, Elsewhere
  <2> QED BY <2>1, <2>2, <2>3, <2>4, <2>5
<1> QED BY <1>1, <1>2
\* Steps of the server, the other occupants and the timer.
LEMMA WireInvServer ==
    ASSUME ShapeInv, ShapeInv', PastGames, WireInv, handle_message \/ Others
    PROVE  WireInv'
<1> QueuesOK /\ RecordOK
  BY DEF ShapeInv, ClientOK
<1>1. UNCHANGED <<conn, windowVars>>
  <2>1. handle_message => UNCHANGED <<conn, windowVars>>
    BY ServedBy DEF Serve
  <2>2. Others => UNCHANGED <<conn, windowVars>>
    BY DEF Others, OthersStart, OthersAnswer, OthersVote, GameOver, OthersLeave, OthersRemoved,
           OthersLost, StatusUpdate, Elsewhere
  <2> QED BY <2>1, <2>2
<1>2. ASSUME conn = "up", attached' PROVE LinesFit'
  BY <1>2, MessageTurns, OthersTurns, LinesFitTurns
<1>3. ASSUME ~attached'
      PROVE  /\ Only(toServer', {"LOGIN"}) \/ me'.place = "out"
             /\ conn = "up" => Unserved'
  <2>1. /\ ~attached /\ me'.place = me.place
        /\ Others \/ \E cmd : Serve(cmd)
        /\ Others \/ Serve("LOGIN") => UNCHANGED toClient
        /\ Others => UNCHANGED toServer
    BY <1>3, NotServed
  <2>2. On(toServer') \subseteq On(toServer)
    BY <2>1, Taken
  <2>3. ASSUME NEW cmd, Serve(cmd), Only(toServer, {"LOGIN"}) PROVE cmd = "LOGIN"
    BY <2>3, Taken DEF Only
  <2> QED BY <1>1, <2>1, <2>2, <2>3 DEF WireInv, Unserved, Only, windowVars
<1> QED BY <1>1, <1>2, <1>3 DEF WireInv, windowVars

\* Every step.
LEMMA WireInvNext ==
    ASSUME ShapeInv, ShapeInv', PastGames, WireInv, DialogueNext
    PROVE  WireInv'
<1> QueuesOK /\ RecordOK /\ SessionOK
  BY DEF ShapeInv, ClientOK
<1>1. ASSUME conn' # "up", On(toServer') \subseteq On(toServer),
             ~attached' => me'.place = "out" \/ (~attached /\ me'.place = me.place)
      PROVE  WireInv'
  BY <1>1 DEF WireInv, Only
<1>2. CASE ClientRestarts
  <2>1. On(toServer') \subseteq On(toServer)
    BY <1>2, PrefixOn DEF ClientRestarts, QueuesOK
  <2> QED BY <1>1, <1>2, <2>1 DEF ClientRestarts
<1>3. CASE ConnectionBreaks
  <2>1. On(toServer') \subseteq On(toServer)
    BY <1>3, PrefixOn DEF ConnectionBreaks, QueuesOK
  <2> QED BY <1>1, <1>3, <2>1 DEF ConnectionBreaks, recordVars
<1>4. CASE ServerCloses
  <2>1. On(toServer') \subseteq On(toServer)
    BY <1>4, OnEmpty DEF ServerCloses
  <2>2. me'.place = "out" \/ (~attached /\ me'.place = me.place)
    BY <1>4, GiveUpFields DEF ServerCloses
  <2> QED BY <1>1, <1>4, <2>1, <2>2 DEF ServerCloses
<1>5. CASE client_mark_disconnected
  <2>1. /\ UNCHANGED <<conn, toServer, toClient, isConnected, boxes, screen>> /\ ~attached'
        /\ me.place # "out" /\ (attached => conn # "up" /\ toServer = <<>>)
    BY <1>5 DEF client_mark_disconnected, clientVars, netVars, windowVars, Cut
  <2>2. Only(toServer, {"LOGIN"})
    BY <2>1, OnEmpty DEF WireInv, Only
  <2>3. /\ conn = "up" => Unserved /\ isConnected
        /\ Unserved => Unserved'
    BY <2>1 DEF WireInv, Unserved, Only
  <2> QED BY <2>1, <2>2, <2>3 DEF WireInv, Only
<1>6. CASE client_disconnect
  <2>1. /\ UNCHANGED <<conn, toServer, toClient, isConnected, boxes, screen>> /\ ~attached'
        /\ (attached => conn # "up") /\ me'.place = "out"
    BY <1>6, GiveUpFields DEF client_disconnect, clientVars, netVars, windowVars
  <2> QED BY <2>1 DEF WireInv, Unserved, Only
<1> QED
  BY <1>2, <1>3, <1>4, <1>5, <1>6, WireInvClient, WireInvServer DEF DialogueNext

\* Lines to the client keep to what was said before, and a connection that has
\* not been served carries no more than the wish to log in.
THEOREM WireIsInvariant == DialogueSpec => []WireInv
<1>1. DialogueInit => WireInv
  <2> SUFFICES ASSUME DialogueInit PROVE WireInv
    OBVIOUS
  <2>1. On(toServer) = {}
    BY OnEmpty DEF DialogueInit, ClientInit
  <2> QED BY <2>1 DEF DialogueInit, ClientInit, WireInv, Only
<1>2. ShapeInv /\ ShapeInv' /\ AnswerInv /\ WireInv /\ [DialogueNext]_dialogueVars => WireInv'
  <2>1. WireInv /\ UNCHANGED dialogueVars => WireInv'
    BY DEF WireInv, LinesFit, RoundsPast, LeftFits, StartFits, IsLeft, IsStart, Now, Unserved,
           Only, dialogueVars, clientVars, netVars, windowVars, recordVars
  <2>2. AnswerInv => PastGames
    BY DEF AnswerInv
  <2> QED BY <2>1, <2>2, WireInvNext
<1> QED BY <1>1, <1>2, ShapeIsInvariant, AnswerIsInvariant, PTL DEF DialogueSpec
-----------------------------------------------------------------------------
(***************************************************************************)
(* The course of the client while it is not misled.                        *)
(***************************************************************************)

SeatScreens == {"Room", "InGame", "Result", "RoundEnd", "Voted"}
SeatLines   == {"PLAYER_DISCONNECTED", "GAME_START", "GAME_END", "ROUND_END", "GAME_ABORTED",
                "ROOM_STATUS"}

\* The user has the seat and sees it: nothing takes the client elsewhere, and
\* whether to leave is asked of this seat.
Known ==
    /\ screen \in SeatScreens /\ ~isReconnecting
    /\ ~Has(toClient, {"LEFT_ROOM", "ROOM_JOINED", "LOGIN_OK", "GAME_ABORTED", "RECONNECT_OK"})
    /\ ~Has(boxes, {"welcome", "aborted", "back"})
    /\ OwnSeat(boxes, {"leave", "away"}) /\ OwnSeat(toClient, {"PLAYER_DISCONNECTED"})
    /\ OwnSeat(toServer, {"LEAVE_ROOM"})
    /\ Never(toServer, {"LEAVE_ROOM"}, {"SIT", "LOGIN"})
    /\ ~(Has(toServer, {"LOGIN"}) /\ Has(toServer, {"SIT"}))

\* The user has taken the seat, and is about to be told.
Joining ==
    /\ screen = "Lobby"
    /\ Has(toClient, {"ROOM_JOINED"})
    /\ Never(toClient, {"ROOM_JOINED"}, {"ROOM_JOINED", "LEFT_ROOM", "LOGIN_OK"})
    /\ ~Has(toClient, {"GAME_ABORTED", "RECONNECT_OK"})
    /\ Never(toClient, {"PLAYER_DISCONNECTED", "GAME_START", "GAME_END", "ROUND_END"},
             {"ROOM_JOINED"})
    /\ OwnSeat(toClient, {"PLAYER_DISCONNECTED"})
    /\ ~Has(boxes, {"leave", "away", "aborted", "back"})
    /\ ~Has(toServer, {"LEAVE_ROOM", "LOGIN"})
    /\ isReconnecting => Leads(toClient, {"ROOM_LIST"}, {"ROOM_JOINED", "ROOM_STATUS"})

\* The user has come back to the seat, and is about to be told.
Resuming ==
    /\ screen = "Login"
    /\ Only(toServer, {"LOGIN"}) /\ Only(boxes, {"back"})
    /\ Only(toClient, {"RECONNECT_OK", "ROOM_STATUS", "GAME_START", "GAME_END", "ROUND_END",
                       "WAIT_CONTINUE", "PLAYER_DISCONNECTED"})
    /\ OwnSeat(toClient, {"PLAYER_DISCONNECTED"})
    /\ \A a, b : Before(toClient, a, b) => b.cmd # "RECONNECT_OK"
    /\ Has(toClient, {"ROOM_STATUS", "GAME_START"})
    /\ Leads(toClient, {"ROOM_STATUS", "GAME_START"},
             {"GAME_END", "ROUND_END", "WAIT_CONTINUE", "PLAYER_DISCONNECTED"})
    /\ isReconnecting \/ Has(boxes, {"back"}) \/ Has(toClient, {"RECONNECT_OK"})

SeatCourse == Known \/ Joining \/ Resuming

\* The user is in the lobby.  SIT is sent from the lobby, with no question open
\* and none answered after it.
LobbySent ==
    /\ Never(toServer, {"SIT"}, {"LEAVE_ROOM"})
    /\ Never(toServer, {"LEAVE_ROOM"}, {"LOGIN"})
    /\ Has(toServer, {"SIT"}) => screen = "Lobby" /\ ~Has(boxes, {"leave", "away", "aborted"})
    /\ Has(toServer, {"LOGIN"}) => screen \notin SeatScreens /\ ~Has(toClient, {"LEFT_ROOM"})

\* From the login screen there is a way to the lobby.
LobbyDoor ==
    screen = "Login" =>
      /\ ~Has(toClient, {"LEFT_ROOM"}) /\ ~Has(boxes, {"leave", "away", "submit", "aborted"})
      /\ Only(toServer, {"LOGIN"})
      /\ \/ Has(toClient, {"LOGIN_OK"}) \/ Has(boxes, {"welcome"})
         \/ /\ Has(toClient, {"ROOM_LIST"})
            /\ isReconnecting \/ Has(toClient, {"RECONNECT_OK"}) \/ Has(boxes, {"back"})

\* A client that takes the next list of rooms for the end of the reconnection
\* gets it before it is told of another seat.
LobbyBack ==
    /\ Has(toClient, {"RECONNECT_OK"}) \/ Has(boxes, {"back"}) =>
         /\ screen = "Login" /\ ~Has(boxes, {"welcome"})
         /\ Leads(toClient, {"ROOM_LIST"}, {"LOGIN_OK"})
    /\ \A a, b : Before(toClient, a, b) => b.cmd # "RECONNECT_OK"
    /\ isReconnecting =>
         \/ Has(toClient, {"ROOM_LIST"})
         \/ Has(toServer, {"LIST_ROOMS"}) /\ Leads(toServer, {"LIST_ROOMS"}, {"SIT"})

\* From the screens of a seat, LEFT_ROOM leads to the lobby, and what is told of
\* the seat comes before that.
LobbyLeft ==
    /\ screen \in SeatScreens =>
         /\ Has(toClient, {"LEFT_ROOM"}) /\ ~isReconnecting
         /\ ~Has(boxes, {"welcome"}) /\ ~Has(toClient, {"LOGIN_OK"})
    /\ screen \notin SeatScreens \/ Has(boxes, {"aborted"}) => ~Has(toClient, SeatLines)
    /\ ~Has(toClient, {"ROOM_JOINED"}) /\ OwnSeat(toClient, {"LEFT_ROOM"})
    /\ Never(toClient, {"GAME_ABORTED"}, SeatLines \cup {"LOGIN_OK"})

LobbyCourse == LobbySent /\ LobbyDoor /\ LobbyBack /\ LobbyLeft

\* Over a connection that is lost, what is still to be read asks to leave no seat
\* but the one the user has.
LeavesFit ==
    /\ attached /\ me.place = "room" =>
         OwnSeat(toServer, {"LEAVE_ROOM"}) /\ Never(toServer, {"LEAVE_ROOM"}, {"SIT"})
    /\ (attached /\ me.place = "lobby") \/ Has(toServer, {"LOGIN"}) =>
         Never(toServer, {"SIT"}, {"LEAVE_ROOM"})

CourseFits ==
    /\ ~me.stray
    /\ me.place = "room" => SeatCourse
    /\ me.place = "lobby" => LobbyCourse

CourseInv ==
    ~misled => IF conn = "up" THEN attached => CourseFits ELSE LeavesFit

-----------------------------------------------------------------------------
\* The window keeps to the seat, and nothing comes that takes it elsewhere.
LEMMA KnownKept ==
    ASSUME Known, UNCHANGED seat, screen' \in SeatScreens, ~isReconnecting',
           \A l \in On(toClient') : l \in On(toClient) \/
              /\ l.cmd \notin {"LEFT_ROOM", "ROOM_JOINED", "LOGIN_OK", "GAME_ABORTED",
                               "RECONNECT_OK"}
              /\ l.cmd = "PLAYER_DISCONNECTED" => l.tag = <<seat>>,
           \A l \in On(boxes') : l \in On(boxes) \/
              /\ l.cmd \notin {"welcome", "aborted", "back"}
              /\ l.cmd \in {"leave", "away"} => l.tag = <<seat>>,
           \A l \in On(toServer') : l \in On(toServer) \/
              /\ l.cmd \notin {"SIT", "LOGIN"}
              /\ l.cmd = "LEAVE_ROOM" => l.tag = <<seat>>,
           \A a, b : Before(toServer', a, b) =>
              Before(toServer, a, b) \/ b.cmd \notin {"SIT", "LOGIN"}
    PROVE  Known'
<1>1. /\ ~Has(toClient', {"LEFT_ROOM", "ROOM_JOINED", "LOGIN_OK", "GAME_ABORTED", "RECONNECT_OK"})
      /\ OwnSeat(toClient, {"PLAYER_DISCONNECTED"})'
  BY DEF Known, Has, OwnSeat
<1>2. /\ ~Has(boxes', {"welcome", "aborted", "back"})
      /\ OwnSeat(boxes, {"leave", "away"})'
  BY DEF Known, Has, OwnSeat
<1>3. /\ OwnSeat(toServer, {"LEAVE_ROOM"})'
      /\ Never(toServer', {"LEAVE_ROOM"}, {"SIT", "LOGIN"})
      /\ ~(Has(toServer', {"LOGIN"}) /\ Has(toServer', {"SIT"}))
  BY DEF Known, Has, OwnSeat, Never
<1> QED BY <1>1, <1>2, <1>3 DEF Known, OwnSeat
\* The user is still about to be told of the seat taken.
LEMMA JoiningKept ==
    ASSUME Joining, UNCHANGED seat, screen' = "Lobby", Has(toClient', {"ROOM_JOINED"}),
           \A l \in On(toClient') : l \in On(toClient) \/
              /\ l.cmd \notin {"GAME_ABORTED", "RECONNECT_OK"}
              /\ l.cmd = "PLAYER_DISCONNECTED" => l.tag = <<seat>>,
           \A a, b : Before(toClient', a, b) =>
              Before(toClient, a, b) \/ b.cmd \notin {"ROOM_JOINED", "LEFT_ROOM", "LOGIN_OK"},
           \A l \in On(boxes') :
              l \in On(boxes) \/ l.cmd \notin {"leave", "away", "aborted", "back"},
           \A l \in On(toServer') : l \in On(toServer) \/ l.cmd \notin {"LEAVE_ROOM", "LOGIN"},
           isReconnecting' =>
              /\ isReconnecting
              /\ Leads(toClient, {"ROOM_LIST"}, {"ROOM_JOINED", "ROOM_STATUS"})
                   => Leads(toClient', {"ROOM_LIST"}, {"ROOM_JOINED", "ROOM_STATUS"})
    PROVE  Joining'
<1>1. /\ ~Has(toClient', {"GAME_ABORTED", "RECONNECT_OK"})
      /\ OwnSeat(toClient, {"PLAYER_DISCONNECTED"})'
  BY DEF Joining, Has, OwnSeat
<1>2. Never(toClient', {"ROOM_JOINED"}, {"ROOM_JOINED", "LEFT_ROOM", "LOGIN_OK"})
  BY DEF Joining, Never
<1>3. Never(toClient', {"PLAYER_DISCONNECTED", "GAME_START", "GAME_END", "ROUND_END"},
            {"ROOM_JOINED"})
  BY DEF Joining, Never
<1>4. /\ ~Has(boxes', {"leave", "away", "aborted", "back"})
      /\ ~Has(toServer', {"LEAVE_ROOM", "LOGIN"})
  BY DEF Joining, Has
<1> QED BY <1>1, <1>2, <1>3, <1>4 DEF Joining, OwnSeat

\* The user is still about to be told of the seat resumed.
LEMMA ResumingKept ==
    ASSUME Resuming, UNCHANGED seat, screen' = "Login",
           \A l \in On(toServer') : l \in On(toServer) \/ l.cmd = "LOGIN",
           \A l \in On(boxes') : l \in On(boxes) \/ l.cmd = "back",
           \A l \in On(toClient') : l \in On(toClient) \/
              /\ l.cmd \in {"ROOM_STATUS", "GAME_START", "GAME_END", "ROUND_END", "WAIT_CONTINUE",
                            "PLAYER_DISCONNECTED"}
              /\ l.cmd = "PLAYER_DISCONNECTED" => l.tag = <<seat>>,
           \A a, b : Before(toClient', a, b) => Before(toClient, a, b) \/ b.cmd # "RECONNECT_OK",
           Has(toClient', {"ROOM_STATUS", "GAME_START"}),
           Leads(toClient', {"ROOM_STATUS", "GAME_START"},
                 {"GAME_END", "ROUND_END", "WAIT_CONTINUE", "PLAYER_DISCONNECTED"}),
           isReconnecting' \/ Has(boxes', {"back"}) \/ Has(toClient', {"RECONNECT_OK"})
    PROVE  Resuming'
<1>1. Only(toServer', {"LOGIN"}) /\ Only(boxes', {"back"})
  BY DEF Resuming, Only
<1>2. /\ Only(toClient', {"RECONNECT_OK", "ROOM_STATUS", "GAME_START", "GAME_END", "ROUND_END",
                          "WAIT_CONTINUE", "PLAYER_DISCONNECTED"})
      /\ OwnSeat(toClient, {"PLAYER_DISCONNECTED"})'
  BY DEF Resuming, Only, OwnSeat
<1>3. \A a, b : Before(toClient', a, b) => b.cmd # "RECONNECT_OK"
  BY DEF Resuming
<1> QED BY <1>1, <1>2, <1>3 DEF Resuming, OwnSeat

\* What is led is led by something.
LEMMA LeadsHas ==
    ASSUME NEW q, NEW first, NEW kinds, Leads(q, first, kinds), NEW c \in kinds, Has(q, {c})
    PROVE  Has(q, first)
BY DEF Leads, Has, On

\* A line that is read: what was behind it is left.
LEMMA HeardOff ==
    ASSUME QueuesOK, NEW cmd, Reads(cmd)
    PROVE  /\ toClient' # toClient /\ toClient # <<>> /\ Head(toClient).cmd = cmd
           /\ \E h \in AnyLine :
                /\ h.cmd = cmd /\ h.tag = LineTag /\ h \in On(toClient)
                /\ \A l \in On(toClient') : Before(toClient, h, l)
                /\ \A l : l \in On(toClient) <=> l \in On(toClient') \/ l = h
           /\ \A l \in On(toClient') : l \in On(toClient)
           /\ \A a, b : Before(toClient', a, b) => Before(toClient, a, b)
           /\ \A kinds : cmd \notin kinds /\ Has(toClient, kinds) => Has(toClient', kinds)
<1>1. PICK h \in AnyLine :
         /\ h = Head(toClient) /\ h.cmd = cmd /\ h.tag = LineTag
         /\ On(toClient) = On(toClient') \cup {h}
         /\ \A a, b : Before(toClient, a, b) <=> \/ Before(toClient', a, b)
                                                 \/ a = h /\ b \in On(toClient')
  BY Heard
<1>2. toClient \in Seq(AnyLine) /\ toClient # <<>> /\ toClient' = Tail(toClient)
  BY DEF QueuesOK, Reads
<1>3. Len(toClient) \in Nat /\ Len(toClient') = Len(toClient) - 1
  BY <1>2, HeadTailProperties, LenProperties
<1>4. toClient' # toClient
  BY <1>3
<1>5. \A kinds : cmd \notin kinds /\ Has(toClient, kinds) => Has(toClient', kinds)
  BY <1>1 DEF Has
<1> QED BY <1>1, <1>2, <1>4, <1>5

\* A line without a tag is sent over a connection that is up.
LEMMA SentOn ==
    ASSUME QueuesOK, conn = "up", isConnected, NEW cmd, NEW tag,
           Line(cmd, tag) \in AnyLine, Line(cmd, tag).cmd = cmd, Line(cmd, tag).tag = tag,
           sendCommand(cmd, tag)
    PROVE  /\ \A l \in On(toServer') : l \in On(toServer) \/ (l.cmd = cmd /\ l.tag = tag)
           /\ \A a, b : Before(toServer', a, b) =>
                Before(toServer, a, b) \/ (a \in On(toServer) /\ b.cmd = cmd)
           /\ \A l \in On(toServer) : l \in On(toServer')
           /\ \E l \in On(toServer') : l.cmd = cmd
<1>1. PICK x \in AnyLine : x = Line(cmd, tag) /\ x.cmd = cmd /\ x.tag = tag
  OBVIOUS
<1>2. /\ On(toServer') = On(toServer) \cup {x}
      /\ \A a, b : Before(toServer', a, b) <=> \/ Before(toServer, a, b)
                                               \/ a \in On(toServer) /\ b = x
  BY <1>1, Sent
<1> QED BY <1>1, <1>2

\* A line about nothing in particular is sent.
LEMMA PlainSent ==
    ASSUME QueuesOK, conn = "up", isConnected, NEW cmd \in PlainKinds, sendCommand(cmd, NoRound)
    PROVE  /\ \A l \in On(toServer') : l \in On(toServer) \/ l.cmd = cmd
           /\ \A a, b : Before(toServer', a, b) =>
                Before(toServer, a, b) \/ (a \in On(toServer) /\ b.cmd = cmd)
           /\ \A l \in On(toServer) : l \in On(toServer')
           /\ \E l \in On(toServer') : l.cmd = cmd
           /\ Has(toServer, {"LIST_ROOMS"}) /\ Leads(toServer, {"LIST_ROOMS"}, {"SIT"})
                => Leads(toServer', {"LIST_ROOMS"}, {"SIT"})
<1>1. /\ Line(cmd, NoRound) \in AnyLine /\ Line(cmd, NoRound).cmd = cmd
      /\ Line(cmd, NoRound).tag = NoRound
  BY MadeLine DEF NoRound, RoundTag
<1> QED BY <1>1, SentOn, SentLeads

\* A box about nothing in particular is opened.
LEMMA PlainOpened ==
    ASSUME QueuesOK, NEW kind \in PlainKinds, Open(kind, NoRound)
    PROVE  /\ \A l \in On(boxes') : l \in On(boxes) \/ l.cmd = kind
           /\ \A l \in On(boxes) : l \in On(boxes')
           /\ \E l \in On(boxes') : l.cmd = kind
<1>1. PICK x \in AnyLine : x = Line(kind, NoRound) /\ x.cmd = kind
  BY PlainLine
<1>2. On(boxes') = On(boxes) \cup {x}
  BY <1>1, Opened
<1> QED BY <1>1, <1>2

\* A box about a seat or a round is opened.
LEMMA TaggedOpened ==
    ASSUME QueuesOK, NEW kind, NEW tag, Open(kind, tag),
           (kind \in SeatKinds /\ tag \in SeatTag) \/ (kind \in RoundKinds /\ tag \in RoundTag)
    PROVE  /\ \A l \in On(boxes') : l \in On(boxes) \/ (l.cmd = kind /\ l.tag = tag)
           /\ \A l \in On(boxes) : l \in On(boxes')
<1>1. PICK x \in AnyLine : x = Line(kind, tag) /\ x.cmd = kind /\ x.tag = tag
  BY MadeLine
<1>2. On(boxes') = On(boxes) \cup {x}
  BY <1>1, Opened
<1> QED BY <1>1, <1>2

\* The newest box is closed.
LEMMA ShutOff ==
    ASSUME QueuesOK, NEW kinds, Closes(kinds)
    PROVE  /\ \A l \in On(boxes') : l \in On(boxes)
           /\ \E b \in AnyLine : /\ b \in On(boxes) /\ b.cmd \in kinds
                                 /\ b = boxes[Len(boxes)]
                                 /\ \A l \in On(boxes) : l \in On(boxes') \/ l = b
BY Closed

\* The answer to a question is sent, or not.
LEMMA AnswerSent ==
    ASSUME QueuesOK, conn = "up", isConnected, NEW kinds, NEW cmd, Answered(kinds, cmd),
           \/ kinds = {"away", "leave"} /\ cmd = "LEAVE_ROOM"
           \/ kinds = {"submit"} /\ cmd = "SUBMIT"
    PROVE  /\ \E b \in On(boxes) :
                /\ b.cmd \in kinds
                /\ \A l \in On(toServer') : l \in On(toServer) \/ (l.cmd = cmd /\ l.tag = b.tag)
           /\ \A a, b : Before(toServer', a, b) =>
                Before(toServer, a, b) \/ (a \in On(toServer) /\ b.cmd = cmd)
           /\ \A l \in On(toServer) : l \in On(toServer')
           /\ \A l \in On(boxes') : l \in On(boxes)
           /\ Has(toServer, {"LIST_ROOMS"}) /\ Leads(toServer, {"LIST_ROOMS"}, {"SIT"})
                => Leads(toServer', {"LIST_ROOMS"}, {"SIT"})
           /\ UNCHANGED <<conn, toClient, isConnected, isReconnecting, screen, shown>>
<1>0. \/ kinds \subseteq SeatKinds /\ cmd \in SeatKinds
      \/ kinds \subseteq RoundKinds /\ cmd \in RoundKinds
  BY DEF SeatKinds, RoundKinds
<1>1. Closes(kinds) /\ UNCHANGED <<conn, toClient, isConnected, isReconnecting, screen, shown>>
  BY DEF Answered
<1>2. /\ \A l \in On(boxes') : l \in On(boxes)
      /\ \E b \in AnyLine : b \in On(boxes) /\ b.cmd \in kinds /\ b = boxes[Len(boxes)]
  BY <1>1, ShutOff
<1>3. PICK b \in AnyLine : b \in On(boxes) /\ b.cmd \in kinds /\ b = boxes[Len(boxes)]
  BY <1>2
<1>4. PICK t : t = b.tag
  OBVIOUS
<1>5. Line(cmd, t) \in AnyLine /\ Line(cmd, t).cmd = cmd /\ Line(cmd, t).tag = t
  BY <1>0, <1>3, <1>4, TagOf, MadeLine
<1>6. sendCommand(cmd, t) \/ UNCHANGED toServer
  BY <1>3, <1>4 DEF Answered
<1>7. CASE sendCommand(cmd, t)
  <2>1. /\ \A l \in On(toServer') : l \in On(toServer) \/ (l.cmd = cmd /\ l.tag = t)
        /\ \A a, c : Before(toServer', a, c) =>
             Before(toServer, a, c) \/ (a \in On(toServer) /\ c.cmd = cmd)
        /\ \A l \in On(toServer) : l \in On(toServer')
    BY <1>5, <1>7, SentOn
  <2>2. Has(toServer, {"LIST_ROOMS"}) /\ Leads(toServer, {"LIST_ROOMS"}, {"SIT"})
          => Leads(toServer', {"LIST_ROOMS"}, {"SIT"})
    BY <1>5, <1>7, SentLeads
  <2> QED BY <1>1, <1>2, <1>3, <1>4, <2>1, <2>2
<1>8. CASE UNCHANGED toServer
  BY <1>1, <1>2, <1>3, <1>8
<1> QED BY <1>6, <1>7, <1>8
-----------------------------------------------------------------------------
\* No box of a lost connection is open while the client has one, and nothing of
\* the server is put in place under another box.
Attentive == ~Has(boxes, {"lost"}) /\ ~PlacedUnderBox

\* Underneath is about the boxes that are there.
LEMMA UnderneathHas ==
    ASSUME NEW kinds
    PROVE  Underneath(kinds) <=> Has(boxes, kinds)
BY DEF Underneath, Has, On

\* The client that shows the seat does so until it is told to have left it.
LEMMA KnownClient ==
    ASSUME ShapeInv, Known, Attentive, conn = "up", conn' = "up", isConnected, UNCHANGED seat,
           HandleLine \/ CloseBox \/ UserActs(seat)
    PROVE  Known'
<1> QueuesOK /\ RecordOK /\ (conn = "up" => conn \notin {"none", "eof", "rst"})
  BY DEF ShapeInv, ClientOK
<1>a. /\ screen \in SeatScreens /\ ~isReconnecting /\ screen \notin {"Login", "Lobby"}
      /\ ~Has(boxes, {"welcome", "aborted", "back"}) /\ ~Has(boxes, {"lost"})
      /\ OwnSeat(boxes, {"leave", "away"}) /\ OwnSeat(toClient, {"PLAYER_DISCONNECTED"})
  BY DEF Known, Attentive, SeatScreens
<1>1. CASE HandleLine
  <2>1. ASSUME NEW cmd, Reads(cmd)
        PROVE  /\ cmd \notin {"LEFT_ROOM", "ROOM_JOINED", "LOGIN_OK", "GAME_ABORTED",
                              "RECONNECT_OK"}
               /\ cmd = "PLAYER_DISCONNECTED" => LineTag = <<seat>>
               /\ \A l \in On(toClient') : l \in On(toClient)
    <3>1. /\ \A l \in On(toClient') : l \in On(toClient)
          /\ \E h \in On(toClient) : h.cmd = cmd /\ h.tag = LineTag
      BY <2>1, HeardOff
    <3> QED BY <1>a, <3>1 DEF Known, Has, OwnSeat
  <2>2. CASE onLoginSuccessful \/ onReconnectSuccessful \/ onRoomJoined \/ onLeftRoom
             \/ onGameAborted
    BY <2>1, <2>2
       DEF onLoginSuccessful, onReconnectSuccessful, onRoomJoined, onLeftRoom, onGameAborted
  <2>3. CASE onRoomListReceived
    BY <1>a, <2>1, <2>3, KnownKept DEF onRoomListReceived
  <2>4. CASE onRoomStatusUpdated
    BY <1>a, <2>1, <2>4, KnownKept DEF onRoomStatusUpdated
  <2>5. CASE onGameStarted
    BY <1>a, <2>1, <2>5, KnownKept DEF onGameStarted, Show, SeatScreens
  <2>6. CASE onGameEnded
    BY <1>a, <2>1, <2>6, KnownKept DEF onGameEnded, Show, SeatScreens
  <2>7. CASE onRoundEnded
    BY <1>a, <2>1, <2>7, KnownKept DEF onRoundEnded, Show, SeatScreens
  <2>8. CASE onWaitingForContinue
    BY <1>a, <2>1, <2>8, KnownKept DEF onWaitingForContinue, Show, SeatScreens
  <2>9. CASE onPlayerDisconnected
    <3>1. \A l \in On(boxes') : l \in On(boxes) \/ (l.cmd = "away" /\ l.tag = <<seat>>)
      BY <2>1, <2>9, NowOK, TaggedOpened DEF onPlayerDisconnected, SeatKinds, ShapeInv
    <3> QED BY <1>a, <2>1, <2>9, <3>1, KnownKept DEF onPlayerDisconnected
  <2> QED
    BY <1>1, <2>2, <2>3, <2>4, <2>5, <2>6, <2>7, <2>8, <2>9
       DEF HandleLine, onDisconnected, ReadError
<1>2. CASE CloseBox
  <2>1. ASSUME NEW kinds, Closes(kinds), kinds \subseteq {"welcome", "aborted", "back", "lost"}
        PROVE  FALSE
    BY <1>a, <2>1, ShutOff DEF Has
  <2>2. CASE Answered({"away", "leave"}, "LEAVE_ROOM")
    <3>1. \E b \in On(boxes) :
             /\ b.cmd \in {"away", "leave"}
             /\ \A l \in On(toServer') :
                  l \in On(toServer) \/ (l.cmd = "LEAVE_ROOM" /\ l.tag = b.tag)
      BY <2>2, AnswerSent
    <3>2. /\ \A a, b : Before(toServer', a, b) =>
               Before(toServer, a, b) \/ (a \in On(toServer) /\ b.cmd = "LEAVE_ROOM")
          /\ \A l \in On(boxes') : l \in On(boxes)
          /\ UNCHANGED <<conn, toClient, isConnected, isReconnecting, screen, shown>>
      BY <2>2, AnswerSent
    <3>3. \A l \in On(toServer') : l \in On(toServer) \/ (l.cmd = "LEAVE_ROOM" /\ l.tag = <<seat>>)
      BY <1>a, <3>1 DEF OwnSeat
    <3> QED BY <1>a, <3>2, <3>3, KnownKept
  <2>3. CASE Answered({"submit"}, "SUBMIT")
    <3>1. \E b \in On(boxes) :
             /\ b.cmd \in {"submit"}
             /\ \A l \in On(toServer') : l \in On(toServer) \/ (l.cmd = "SUBMIT" /\ l.tag = b.tag)
      BY <2>3, AnswerSent
    <3>2. /\ \A a, b : Before(toServer', a, b) =>
               Before(toServer, a, b) \/ (a \in On(toServer) /\ b.cmd = "SUBMIT")
          /\ \A l \in On(boxes') : l \in On(boxes)
          /\ UNCHANGED <<conn, toClient, isConnected, isReconnecting, screen, shown>>
      BY <2>3, AnswerSent
    <3> QED BY <1>a, <3>1, <3>2, KnownKept
  <2> QED
    BY <1>2, <2>1, <2>2, <2>3
       DEF CloseBox, LobbyAfterBox, ReconnectingAfterBox, LoginAfterBox
<1>3. CASE UserActs(seat)
  <2>1. CASE StartClicked
    <3>1. sendCommand("START", NoRound) /\ UNCHANGED <<toClient, boxes, isReconnecting, screen>>
      BY <2>1 DEF StartClicked, Sends, windowVars
    <3>2. /\ \A l \in On(toServer') : l \in On(toServer) \/ l.cmd = "START"
          /\ \A a, b : Before(toServer', a, b) =>
               Before(toServer, a, b) \/ (a \in On(toServer) /\ b.cmd = "START")
      BY <3>1, PlainSent DEF PlainKinds
    <3> QED BY <1>a, <3>1, <3>2, KnownKept
  <2>2. CASE onLeaveRoomClicked(seat)
    <3>1. \A l \in On(boxes') : l \in On(boxes) \/ (l.cmd = "leave" /\ l.tag = <<seat>>)
      BY <2>2, NowOK, TaggedOpened DEF onLeaveRoomClicked, SeatKinds, ShapeInv
    <3> QED BY <1>a, <2>2, <3>1, KnownKept DEF onLeaveRoomClicked, netVars
  <2>3. CASE onSubmitClicked
    <3>1. \A l \in On(boxes') : l \in On(boxes) \/ l.cmd = "submit"
      BY <2>3, TaggedOpened DEF onSubmitClicked, RoundKinds, ShapeInv, ClientOK
    <3> QED BY <1>a, <2>3, <3>1, KnownKept DEF onSubmitClicked, netVars
  <2>4. CASE onBackToRoomClicked
    BY <1>a, <2>4, KnownKept DEF onBackToRoomClicked, netVars, Show, SeatScreens
  <2>5. CASE onContinueClicked
    <3>1. Line("READY_NEXT_ROUND", shown) \in AnyLine
          /\ Line("READY_NEXT_ROUND", shown).cmd = "READY_NEXT_ROUND"
          /\ Line("READY_NEXT_ROUND", shown).tag = shown
      BY MadeLine DEF RoundKinds, ShapeInv, ClientOK
    <3>2. /\ \A l \in On(toServer') : l \in On(toServer) \/ l.cmd = "READY_NEXT_ROUND"
          /\ \A a, b : Before(toServer', a, b) =>
               Before(toServer, a, b) \/ (a \in On(toServer) /\ b.cmd = "READY_NEXT_ROUND")
      BY <2>5, <3>1, SentOn DEF onContinueClicked
    <3> QED BY <1>a, <2>5, <3>2, KnownKept DEF onContinueClicked, Show, SeatScreens
  <2> QED
    BY <1>3, <1>a, <2>1, <2>2, <2>3, <2>4, <2>5
       DEF UserActs, onConnectClicked, onLoginClicked, SitClicked, Sends, Clicks
<1> QED BY <1>1, <1>2, <1>3

\* The client that is about to be told of the seat it has taken.
LEMMA JoiningClient ==
    ASSUME ShapeInv, Joining, Attentive, conn = "up", conn' = "up", isConnected, UNCHANGED seat,
           HandleLine \/ CloseBox \/ UserActs(seat)
    PROVE  SeatCourse'
<1> QueuesOK /\ RecordOK /\ (conn = "up" => conn \notin {"none", "eof", "rst"})
  BY DEF ShapeInv, ClientOK
<1>a. /\ screen = "Lobby" /\ Has(toClient, {"ROOM_JOINED"})
      /\ ~Has(boxes, {"leave", "away", "aborted", "back"}) /\ ~Has(boxes, {"lost"})
      /\ ~Has(toServer, {"LEAVE_ROOM", "LOGIN"})
  BY DEF Joining, Attentive
<1>b. ASSUME NEW cmd \in {"LIST_ROOMS", "SIT", "SUBMIT"},
             \A l \in On(toServer') : l \in On(toServer) \/ l.cmd = cmd
      PROVE  \A l \in On(toServer') : l \in On(toServer) \/ l.cmd \notin {"LEAVE_ROOM", "LOGIN"}
  BY <1>b
<1>1. CASE HandleLine
  <2>1. ASSUME NEW cmd, Reads(cmd)
        PROVE  /\ toClient' # toClient /\ toClient # <<>> /\ Head(toClient).cmd = cmd
               /\ cmd \notin {"GAME_ABORTED", "RECONNECT_OK"}
               /\ cmd \notin {"PLAYER_DISCONNECTED", "GAME_START", "GAME_END", "ROUND_END"}
               /\ cmd = "ROOM_JOINED" =>
                    ~Has(toClient', {"ROOM_JOINED", "LEFT_ROOM", "LOGIN_OK"})
               /\ cmd # "ROOM_JOINED" => Has(toClient', {"ROOM_JOINED"})
               /\ \A l \in On(toClient') : l \in On(toClient)
               /\ \A a, b : Before(toClient', a, b) => Before(toClient, a, b)
               /\ isReconnecting =>
                    /\ cmd \notin {"ROOM_JOINED", "ROOM_STATUS"}
                    /\ cmd # "ROOM_LIST" =>
                         Leads(toClient', {"ROOM_LIST"}, {"ROOM_JOINED", "ROOM_STATUS"})
    <3>1. /\ toClient' # toClient /\ toClient # <<>> /\ Head(toClient).cmd = cmd
          /\ \E h \in On(toClient) : /\ h.cmd = cmd
                                     /\ \A l \in On(toClient') : Before(toClient, h, l)
                                     /\ \A l : l \in On(toClient) <=> l \in On(toClient') \/ l = h
          /\ \A l \in On(toClient') : l \in On(toClient)
          /\ \A a, b : Before(toClient', a, b) => Before(toClient, a, b)
      BY <2>1, HeardOff
    <3>2. isReconnecting =>
             /\ cmd \notin {"ROOM_JOINED", "ROOM_STATUS"}
             /\ cmd # "ROOM_LIST" =>
                  Leads(toClient', {"ROOM_LIST"}, {"ROOM_JOINED", "ROOM_STATUS"})
      BY <2>1, HeardLeads DEF Joining
    <3>3. PICK h \in On(toClient) : /\ h.cmd = cmd
                                    /\ \A l \in On(toClient') : Before(toClient, h, l)
                                    /\ \A l : l \in On(toClient) <=> l \in On(toClient') \/ l = h
      BY <3>1
    <3>4. cmd \notin {"GAME_ABORTED", "RECONNECT_OK"}
      BY <3>3 DEF Joining, Has
    <3>5. cmd = "ROOM_JOINED" => ~Has(toClient', {"ROOM_JOINED", "LEFT_ROOM", "LOGIN_OK"})
      BY <3>3 DEF Joining, Has, Never
    <3>6. cmd # "ROOM_JOINED" => Has(toClient', {"ROOM_JOINED"})
      BY <1>a, <3>3 DEF Has
    <3>7. cmd \notin {"PLAYER_DISCONNECTED", "GAME_START", "GAME_END", "ROUND_END"}
      BY <3>3, <3>6 DEF Joining, Has, Never
    <3> QED BY <3>1, <3>2, <3>4, <3>5, <3>6, <3>7
  <2>2. ASSUME transitionToLobby
        PROVE  /\ screen' = "Lobby"
               /\ \A l \in On(toServer') :
                    l \in On(toServer) \/ l.cmd \notin {"LEAVE_ROOM", "LOGIN"}
    BY <1>b, <2>2, PlainSent DEF transitionToLobby, Show, PlainKinds
  <2>3. CASE onLoginSuccessful
    <3>1. \A l \in On(boxes') : l \in On(boxes) \/ l.cmd = "welcome"
      BY <2>3, PlainOpened DEF onLoginSuccessful, PlainKinds
    <3> QED BY <1>a, <2>1, <2>3, <3>1, JoiningKept DEF onLoginSuccessful, SeatCourse
  <2>4. CASE onRoomListReceived
    <3>1. /\ screen' = "Lobby"
          /\ \A l \in On(toServer') : l \in On(toServer) \/ l.cmd \notin {"LEAVE_ROOM", "LOGIN"}
      BY <1>a, <2>2, <2>4 DEF onRoomListReceived
    <3> QED BY <1>a, <2>1, <2>4, <3>1, JoiningKept DEF onRoomListReceived, SeatCourse
  <2>5. CASE onRoomStatusUpdated
    BY <1>a, <2>1, <2>5, JoiningKept DEF onRoomStatusUpdated, SeatCourse
  <2>6. CASE onRoomJoined
    <3>1. ~isReconnecting /\ ~isReconnecting' /\ screen' = "Room"
      BY <2>1, <2>6 DEF onRoomJoined, Show
    <3>2. ~Has(boxes, {"welcome", "aborted"})
      BY <1>a, <2>1, <2>6, <3>1, UnderneathHas DEF Attentive, PlacedUnderBox, onRoomJoined
    <3>3. ~Has(toClient', {"LEFT_ROOM", "ROOM_JOINED", "LOGIN_OK", "GAME_ABORTED", "RECONNECT_OK"})
      BY <2>1, <2>6 DEF onRoomJoined, Joining, Has
    <3>4. /\ ~Has(boxes', {"welcome", "aborted", "back"}) /\ OwnSeat(boxes, {"leave", "away"})'
          /\ OwnSeat(toClient, {"PLAYER_DISCONNECTED"})'
      BY <1>a, <2>1, <2>6, <3>2 DEF onRoomJoined, Has, OwnSeat, Joining
    <3>5. /\ OwnSeat(toServer, {"LEAVE_ROOM"})'
          /\ Never(toServer', {"LEAVE_ROOM"}, {"SIT", "LOGIN"})
          /\ ~Has(toServer', {"LOGIN"})
      BY <1>a, <2>6, BeforeOn DEF onRoomJoined, Has, OwnSeat, Never
    <3> QED BY <3>1, <3>3, <3>4, <3>5 DEF Known, SeatCourse, SeatScreens
  <2>7. CASE onLeftRoom
    BY <1>a, <2>1, <2>2, <2>7, JoiningKept DEF onLeftRoom, SeatCourse
  <2>8. CASE onWaitingForContinue
    BY <1>a, <2>1, <2>8, JoiningKept DEF onWaitingForContinue, SeatCourse
  <2>9. CASE onReconnectSuccessful \/ onGameStarted \/ onGameEnded \/ onRoundEnded
             \/ onGameAborted \/ onPlayerDisconnected
    BY <2>1, <2>9 DEF onReconnectSuccessful, onGameStarted, onGameEnded, onRoundEnded,
                      onGameAborted, onPlayerDisconnected
  <2> QED
    BY <1>1, <2>3, <2>4, <2>5, <2>6, <2>7, <2>8, <2>9
       DEF HandleLine, onDisconnected, ReadError
<1>2. CASE CloseBox
  <2>1. ASSUME NEW kinds, Closes(kinds)
        PROVE  /\ \A l \in On(boxes') : l \in On(boxes)
               /\ Has(boxes, kinds)
    BY <2>1, ShutOff DEF Has
  <2>2. CASE LobbyAfterBox
    <3>1. \A l \in On(toServer') : l \in On(toServer) \/ l.cmd = "LIST_ROOMS"
      BY <2>2, PlainSent DEF LobbyAfterBox, transitionToLobby, PlainKinds
    <3>2. screen' = "Lobby" /\ UNCHANGED <<toClient, isReconnecting>>
      BY <2>2 DEF LobbyAfterBox, transitionToLobby, Show
    <3> QED BY <1>a, <2>1, <2>2, <3>1, <3>2, JoiningKept DEF LobbyAfterBox, SeatCourse
  <2>3. CASE Answered({"submit"}, "SUBMIT")
    <3>1. \E b \in On(boxes) :
             /\ b.cmd \in {"submit"}
             /\ \A l \in On(toServer') : l \in On(toServer) \/ (l.cmd = "SUBMIT" /\ l.tag = b.tag)
      BY <2>3, AnswerSent
    <3>2. /\ \A l \in On(boxes') : l \in On(boxes)
          /\ UNCHANGED <<conn, toClient, isConnected, isReconnecting, screen, shown>>
      BY <2>3, AnswerSent
    <3> QED BY <1>a, <3>1, <3>2, JoiningKept DEF SeatCourse
  <2>4. ~Closes({"back"}) /\ ~Closes({"lost"}) /\ ~Closes({"away", "leave"})
    BY <1>a, <2>1 DEF Has
  <2> QED
    BY <1>2, <2>2, <2>3, <2>4 DEF CloseBox, ReconnectingAfterBox, LoginAfterBox, Answered
<1>3. CASE UserActs(seat)
  <2>1. SitClicked
    BY <1>3, <1>a
       DEF UserActs, onConnectClicked, onLoginClicked, StartClicked, Sends, Clicks,
           onLeaveRoomClicked, onSubmitClicked, onBackToRoomClicked, onContinueClicked
  <2>2. sendCommand("SIT", NoRound) /\ UNCHANGED <<toClient, boxes, isReconnecting, screen>>
    BY <2>1 DEF SitClicked, Sends, windowVars
  <2>3. \A l \in On(toServer') : l \in On(toServer) \/ l.cmd = "SIT"
    BY <2>2, PlainSent DEF PlainKinds
  <2> QED BY <1>a, <2>2, <2>3, JoiningKept DEF SeatCourse
<1> QED BY <1>1, <1>2, <1>3
\* The client that is about to be told of the seat it has come back to.
LEMMA ResumingClient ==
    ASSUME ShapeInv, Resuming, Attentive, conn = "up", conn' = "up", isConnected, UNCHANGED seat,
           HandleLine \/ CloseBox \/ UserActs(seat)
    PROVE  SeatCourse'
<1> QueuesOK /\ RecordOK /\ (conn = "up" => conn \notin {"none", "eof", "rst"})
  BY DEF ShapeInv, ClientOK
<1> DEFINE told == {"ROOM_STATUS", "GAME_START"}
           next == {"GAME_END", "ROUND_END", "WAIT_CONTINUE", "PLAYER_DISCONNECTED"}
<1>a. /\ screen = "Login" /\ Only(toServer, {"LOGIN"}) /\ Only(boxes, {"back"})
      /\ OwnSeat(toClient, {"PLAYER_DISCONNECTED"})
      /\ Has(toClient, told) /\ Leads(toClient, told, next)
      /\ isReconnecting \/ Has(boxes, {"back"}) \/ Has(toClient, {"RECONNECT_OK"})
  BY DEF Resuming
<1>1. CASE HandleLine
  <2>1. ASSUME NEW cmd, Reads(cmd)
        PROVE  /\ toClient' # toClient /\ toClient # <<>> /\ Head(toClient).cmd = cmd
               /\ cmd \in {"RECONNECT_OK", "ROOM_STATUS", "GAME_START"}
               /\ ~Has(toClient', {"RECONNECT_OK"})
               /\ cmd # "RECONNECT_OK" => ~Has(toClient, {"RECONNECT_OK"})
               /\ cmd = "RECONNECT_OK" => Has(toClient', told) /\ Leads(toClient', told, next)
               /\ \A l \in On(toClient') : l \in On(toClient)
               /\ \A a, b : Before(toClient', a, b) => Before(toClient, a, b)
    <3>1. /\ toClient' # toClient /\ toClient # <<>> /\ Head(toClient).cmd = cmd
          /\ \E h \in On(toClient) : /\ h.cmd = cmd
                                     /\ \A l \in On(toClient') : Before(toClient, h, l)
                                     /\ \A l : l \in On(toClient) <=> l \in On(toClient') \/ l = h
          /\ \A l \in On(toClient') : l \in On(toClient)
          /\ \A a, b : Before(toClient', a, b) => Before(toClient, a, b)
      BY <2>1, HeardOff
    <3>2. PICK h \in On(toClient) : /\ h.cmd = cmd
                                    /\ \A l \in On(toClient') : Before(toClient, h, l)
                                    /\ \A l : l \in On(toClient) <=> l \in On(toClient') \/ l = h
      BY <3>1
    <3>3. ~Has(toClient', {"RECONNECT_OK"})
      BY <3>2 DEF Has, Resuming
    <3>4. cmd # "RECONNECT_OK" => ~Has(toClient, {"RECONNECT_OK"})
      BY <3>2, <3>3 DEF Has
    <3>5. cmd \notin next /\ (cmd \notin told => Leads(toClient', told, next))
      <4> HIDE DEF told, next
      <4> QED BY <1>a, <2>1, HeardLeads
    <3>6. cmd \in {"RECONNECT_OK", "ROOM_STATUS", "GAME_START"}
      BY <3>2, <3>5 DEF Resuming, Only
    <3>7. cmd = "RECONNECT_OK" => Has(toClient', told)
      BY <1>a, <3>2 DEF Has
    <3> QED BY <3>1, <3>3, <3>4, <3>5, <3>6, <3>7
  <2>2. CASE onReconnectSuccessful
    <3>1. /\ \A l \in On(boxes') : l \in On(boxes) \/ l.cmd = "back"
          /\ \E l \in On(boxes') : l.cmd = "back"
      BY <2>2, PlainOpened DEF onReconnectSuccessful, PlainKinds
    <3>2. Has(boxes', {"back"})
      BY <3>1 DEF Has
    <3> QED BY <1>a, <2>1, <2>2, <3>1, <3>2, ResumingKept DEF onReconnectSuccessful, SeatCourse
  <2>3. ASSUME NEW cmd \in told, Reads(cmd), screen' \in SeatScreens,
               isReconnecting => ~isReconnecting',
               UNCHANGED <<boxes, toServer>>
        PROVE  SeatCourse'
    <3>1. ~Has(boxes, {"back"})
      BY <2>1, <2>3, UnderneathHas DEF Attentive, PlacedUnderBox, Handled
    <3>2. ~Has(toClient', {"LEFT_ROOM", "ROOM_JOINED", "LOGIN_OK", "GAME_ABORTED", "RECONNECT_OK"})
      BY <2>1, <2>3 DEF Resuming, Only, Has
    <3>3. ~isReconnecting'
      BY <1>a, <2>1, <2>3, <3>1
    <3>4. /\ ~Has(boxes', {"welcome", "aborted", "back"}) /\ OwnSeat(boxes, {"leave", "away"})'
          /\ OwnSeat(toClient, {"PLAYER_DISCONNECTED"})'
      BY <1>a, <2>1, <2>3, <3>1 DEF Has, OwnSeat, Only
    <3>5. /\ OwnSeat(toServer, {"LEAVE_ROOM"})'
          /\ Never(toServer', {"LEAVE_ROOM"}, {"SIT", "LOGIN"})
          /\ ~Has(toServer', {"SIT"})
      BY <1>a, <2>3, BeforeOn DEF Has, OwnSeat, Never, Only
    <3> QED BY <2>3, <3>2, <3>3, <3>4, <3>5 DEF Known, SeatCourse
  <2>4. CASE onRoomStatusUpdated
    <3>1. Reads("ROOM_STATUS") /\ UNCHANGED <<boxes, toServer>>
      BY <2>4 DEF onRoomStatusUpdated
    <3>2. ~Has(boxes, {"back"})
      BY <2>1, <3>1, UnderneathHas DEF Attentive, PlacedUnderBox, Handled
    <3>3. isReconnecting
      BY <1>a, <2>1, <3>1, <3>2
    <3> QED BY <2>3, <2>4, <3>1, <3>3 DEF onRoomStatusUpdated, Show, SeatScreens
  <2>5. CASE onGameStarted
    BY <2>3, <2>5 DEF onGameStarted, Show, SeatScreens
  <2>6. /\ ~Reads("LOGIN_OK") /\ ~Reads("ROOM_LIST") /\ ~Reads("ROOM_JOINED")
        /\ ~Reads("LEFT_ROOM") /\ ~Reads("GAME_END") /\ ~Reads("ROUND_END")
        /\ ~Reads("WAIT_CONTINUE") /\ ~Reads("GAME_ABORTED") /\ ~Reads("PLAYER_DISCONNECTED")
    <3>1. \A cmd : Reads(cmd) => cmd \in {"RECONNECT_OK", "ROOM_STATUS", "GAME_START"}
      BY <2>1
    <3> QED BY <3>1
  <2> QED
    BY <1>1, <2>2, <2>4, <2>5, <2>6
       DEF HandleLine, onLoginSuccessful, onRoomListReceived, onRoomJoined, onLeftRoom,
           onGameEnded, onRoundEnded, onWaitingForContinue, onGameAborted, onPlayerDisconnected,
           onDisconnected, ReadError
<1>2. CASE CloseBox
  <2>1. ASSUME NEW kinds, Closes(kinds)
        PROVE  "back" \in kinds /\ \A l \in On(boxes') : l \in On(boxes)
    BY <1>a, <2>1, ShutOff DEF Only
  <2>2. ReconnectingAfterBox
    <3>1. \A kinds : Closes(kinds) => "back" \in kinds
      BY <2>1
    <3>2. /\ ~Closes({"welcome", "aborted"}) /\ ~Closes({"lost"})
          /\ ~Closes({"away", "leave"}) /\ ~Closes({"submit"})
      BY <3>1
    <3> QED BY <1>2, <3>2 DEF CloseBox, LobbyAfterBox, LoginAfterBox, Answered
  <2> QED BY <1>a, <2>1, <2>2, ResumingKept DEF ReconnectingAfterBox, netVars, SeatCourse, Resuming
<1>3. CASE UserActs(seat)
  <2>1. onLoginClicked
    BY <1>3, <1>a
       DEF UserActs, onConnectClicked, SitClicked, StartClicked, Sends, Clicks,
           onLeaveRoomClicked, onSubmitClicked, onBackToRoomClicked, onContinueClicked
  <2>2. sendCommand("LOGIN", NoRound) /\ UNCHANGED <<toClient, boxes, isReconnecting, screen>>
    BY <2>1 DEF onLoginClicked, Sends, windowVars
  <2>3. \A l \in On(toServer') : l \in On(toServer) \/ l.cmd = "LOGIN"
    BY <2>2, PlainSent DEF PlainKinds
  <2> QED BY <1>a, <2>2, <2>3, ResumingKept DEF SeatCourse
<1> QED BY <1>1, <1>2, <1>3
-----------------------------------------------------------------------------
\* The user has left the seat, and the client still shows it.
LEMMA LobbySeated ==
    ASSUME LobbyCourse, UNCHANGED seat, screen \in SeatScreens, screen' \in SeatScreens,
           ~isReconnecting',
           \A l \in On(toServer') : l \in On(toServer) \/ l.cmd \notin {"SIT", "LOGIN"},
           \A l \in On(toClient') : l \in On(toClient),
           \A a, b : Before(toClient', a, b) => Before(toClient, a, b),
           Has(toClient', {"LEFT_ROOM"}),
           \A l \in On(boxes') : l \in On(boxes) \/ l.cmd \notin {"welcome", "back"},
           Has(boxes', {"aborted"}) => Has(boxes, {"aborted"}) \/ ~Has(toClient', SeatLines)
    PROVE  LobbyCourse'
<1>a. "Login" \notin SeatScreens /\ "Lobby" \notin SeatScreens
  BY DEF SeatScreens
<1>b. /\ ~Has(toServer, {"SIT"}) /\ ~Has(toServer, {"LOGIN"})
      /\ ~Has(toClient, {"RECONNECT_OK"}) /\ ~Has(boxes, {"back"})
  BY <1>a DEF LobbyCourse, LobbySent, LobbyBack
<1>c. /\ ~Has(toServer', {"SIT"}) /\ ~Has(toServer', {"LOGIN"})
      /\ ~Has(toClient', {"RECONNECT_OK"}) /\ ~Has(boxes', {"back"})
  BY <1>b DEF Has
<1>1. LobbySent'
  BY <1>c, BeforeOn DEF LobbySent, Never, Has
<1>2. LobbyDoor'
  BY <1>a DEF LobbyDoor
<1>3. LobbyBack'
  BY <1>c DEF LobbyCourse, LobbyBack
<1>4. LobbyLeft'
  <2>1. ~Has(boxes', {"welcome"}) /\ ~Has(toClient', {"LOGIN_OK"})
    BY DEF LobbyCourse, LobbyLeft, Has
  <2>2. Has(toClient', SeatLines) => Has(toClient, SeatLines)
    BY DEF Has
  <2>3. ~Has(toClient', {"ROOM_JOINED"}) /\ OwnSeat(toClient, {"LEFT_ROOM"})'
    BY DEF LobbyCourse, LobbyLeft, Has, OwnSeat
  <2>4. Never(toClient', {"GAME_ABORTED"}, SeatLines \cup {"LOGIN_OK"})
    BY DEF LobbyCourse, LobbyLeft, Never
  <2> QED BY <2>1, <2>2, <2>3, <2>4 DEF LobbyCourse, LobbyLeft
<1> QED BY <1>1, <1>2, <1>3, <1>4 DEF LobbyCourse

\* The client comes to the lobby, and asks for the rooms.
LEMMA LobbyReached ==
    ASSUME QueuesOK, conn = "up", isConnected, LobbyCourse, UNCHANGED seat, transitionToLobby,
           \A l \in On(toClient') : l \in On(toClient),
           \A a, b : Before(toClient', a, b) => Before(toClient, a, b),
           \A l \in On(boxes') : l \in On(boxes),
           ~Has(toClient', SeatLines),
           ~Has(toClient', {"RECONNECT_OK"}) /\ ~Has(boxes', {"back"}),
           isReconnecting' =>
              isReconnecting /\ (Has(toClient, {"ROOM_LIST"}) => Has(toClient', {"ROOM_LIST"}))
    PROVE  LobbyCourse'
<1>a. /\ screen' = "Lobby" /\ "Lobby" \notin SeatScreens
      /\ \A l \in On(toServer') : l \in On(toServer) \/ l.cmd = "LIST_ROOMS"
      /\ \A a, b : Before(toServer', a, b) =>
            Before(toServer, a, b) \/ (a \in On(toServer) /\ b.cmd = "LIST_ROOMS")
      /\ \A l \in On(toServer) : l \in On(toServer')
      /\ Has(toServer, {"LIST_ROOMS"}) /\ Leads(toServer, {"LIST_ROOMS"}, {"SIT"})
           => Leads(toServer', {"LIST_ROOMS"}, {"SIT"})
  BY PlainSent DEF transitionToLobby, Show, PlainKinds, SeatScreens
<1>1. LobbySent'
  <2>1. Never(toServer', {"SIT"}, {"LEAVE_ROOM"}) /\ Never(toServer', {"LEAVE_ROOM"}, {"LOGIN"})
    BY <1>a DEF LobbyCourse, LobbySent, Never
  <2>2. /\ Has(toServer', {"SIT"}) => Has(toServer, {"SIT"})
        /\ Has(toServer', {"LOGIN"}) => Has(toServer, {"LOGIN"})
    BY <1>a DEF Has
  <2>3. /\ Has(boxes', {"leave", "away", "aborted"}) => Has(boxes, {"leave", "away", "aborted"})
        /\ Has(toClient', {"LEFT_ROOM"}) => Has(toClient, {"LEFT_ROOM"})
    BY DEF Has
  <2> QED BY <1>a, <2>1, <2>2, <2>3 DEF LobbyCourse, LobbySent
<1>2. LobbyDoor'
  BY <1>a DEF LobbyDoor
<1>3. LobbyBack'
  <2>1. \A a, b : Before(toClient', a, b) => b.cmd # "RECONNECT_OK"
    BY DEF LobbyCourse, LobbyBack
  <2>2. Has(toServer, {"LIST_ROOMS"}) => Has(toServer', {"LIST_ROOMS"})
    BY <1>a DEF Has
  <2> QED BY <1>a, <2>1, <2>2 DEF LobbyCourse, LobbyBack
<1>4. LobbyLeft'
  <2>1. ~Has(toClient', {"ROOM_JOINED"}) /\ OwnSeat(toClient, {"LEFT_ROOM"})'
    BY DEF LobbyCourse, LobbyLeft, Has, OwnSeat
  <2>2. Never(toClient', {"GAME_ABORTED"}, SeatLines \cup {"LOGIN_OK"})
    BY DEF LobbyCourse, LobbyLeft, Never
  <2> QED BY <1>a, <2>1, <2>2 DEF LobbyLeft
<1> QED BY <1>1, <1>2, <1>3, <1>4 DEF LobbyCourse

\* The client reads a line that leaves the screen and what is sent as they are;
\* away from a seat.
LEMMA LobbyReads ==
    ASSUME LobbyCourse, UNCHANGED <<seat, screen, toServer>>, screen \notin SeatScreens,
           \A l \in On(toClient') : l \in On(toClient),
           \A a, b : Before(toClient', a, b) => Before(toClient, a, b),
           \A l \in On(boxes') : l \in On(boxes) \/ l.cmd \in {"welcome", "back"},
           LobbyDoor', LobbyBack'
    PROVE  LobbyCourse'
<1>1. LobbySent'
  <2>1. /\ Has(boxes', {"leave", "away", "aborted"}) => Has(boxes, {"leave", "away", "aborted"})
        /\ Has(toClient', {"LEFT_ROOM"}) => Has(toClient, {"LEFT_ROOM"})
    BY DEF Has
  <2> QED BY <2>1 DEF LobbyCourse, LobbySent
<1>2. LobbyLeft'
  <2>1. ~Has(toClient', {"ROOM_JOINED"}) /\ OwnSeat(toClient, {"LEFT_ROOM"})'
    BY DEF LobbyCourse, LobbyLeft, Has, OwnSeat
  <2>2. Never(toClient', {"GAME_ABORTED"}, SeatLines \cup {"LOGIN_OK"})
    BY DEF LobbyCourse, LobbyLeft, Never
  <2>3. ~Has(toClient', SeatLines)
    BY DEF LobbyCourse, LobbyLeft, Has
  <2> QED BY <2>1, <2>2, <2>3 DEF LobbyLeft
<1> QED BY <1>1, <1>2 DEF LobbyCourse

\* The client sends a line from where it is; SIT and LOGIN only where no box is
\* open.
LEMMA LobbySends ==
    ASSUME LobbyCourse, UNCHANGED <<seat, screen, toClient, isReconnecting>>,
           NEW cmd, cmd \notin {"LOGIN", "SIT"} => screen # "Login",
           cmd = "SIT" => screen = "Lobby" /\ ~Has(boxes, {"leave", "away", "aborted"}),
           cmd = "LOGIN" => screen = "Login",
           cmd = "LEAVE_ROOM" => Has(boxes, {"leave", "away"}),
           \A l \in On(boxes') : l \in On(boxes),
           screen = "Login" => boxes' = boxes,
           \A l \in On(toServer') : l \in On(toServer) \/ l.cmd = cmd,
           \A a, b : Before(toServer', a, b) =>
              Before(toServer, a, b) \/ (a \in On(toServer) /\ b.cmd = cmd),
           \A l \in On(toServer) : l \in On(toServer'),
           Has(toServer, {"LIST_ROOMS"}) /\ Leads(toServer, {"LIST_ROOMS"}, {"SIT"})
             => Leads(toServer', {"LIST_ROOMS"}, {"SIT"})
    PROVE  LobbyCourse'
<1>a. "Login" \notin SeatScreens /\ "Lobby" \notin SeatScreens
  BY DEF SeatScreens
<1>b. \A kinds : Has(boxes', kinds) => Has(boxes, kinds)
  BY DEF Has
<1>1. LobbySent'
  <2>1. cmd = "LEAVE_ROOM" => ~Has(toServer, {"SIT"})
    BY DEF LobbyCourse, LobbySent, Has
  <2>2. cmd = "LOGIN" => ~Has(toServer, {"LEAVE_ROOM"})
    BY DEF LobbyCourse, LobbyDoor, Has, Only
  <2>3. Never(toServer', {"SIT"}, {"LEAVE_ROOM"}) /\ Never(toServer', {"LEAVE_ROOM"}, {"LOGIN"})
    BY <2>1, <2>2 DEF LobbyCourse, LobbySent, Never, Has
  <2>4. /\ Has(toServer', {"SIT"}) => Has(toServer, {"SIT"}) \/ cmd = "SIT"
        /\ Has(toServer', {"LOGIN"}) => Has(toServer, {"LOGIN"}) \/ cmd = "LOGIN"
    BY DEF Has
  <2> QED BY <1>a, <1>b, <2>3, <2>4 DEF LobbyCourse, LobbySent, LobbyDoor
<1>2. LobbyDoor'
  <2>1. screen = "Login" => Only(toServer', {"LOGIN"})
    BY DEF LobbyCourse, LobbyDoor, Only
  <2> QED BY <1>b, <2>1 DEF LobbyCourse, LobbyDoor
<1>3. LobbyBack'
  <2>1. Has(toServer, {"LIST_ROOMS"}) => Has(toServer', {"LIST_ROOMS"})
    BY DEF Has
  <2> QED BY <1>b, <2>1 DEF LobbyCourse, LobbyBack
<1>4. LobbyLeft'
  BY <1>b DEF LobbyCourse, LobbyLeft, OwnSeat
<1> QED BY <1>1, <1>2, <1>3, <1>4 DEF LobbyCourse
\* The client of a user in the lobby goes on to be told so.
LEMMA LobbyClient ==
    ASSUME ShapeInv, LinesFit, LobbyCourse, Attentive, conn = "up", conn' = "up", isConnected,
           UNCHANGED seat, HandleLine \/ CloseBox \/ UserActs(seat)
    PROVE  LobbyCourse'
<1> QueuesOK /\ RecordOK /\ (conn = "up" => conn \notin {"none", "eof", "rst"})
  BY DEF ShapeInv, ClientOK
<1>a. /\ "Login" \notin SeatScreens /\ "Lobby" \notin SeatScreens
      /\ ~Has(boxes, {"lost"})
  BY DEF SeatScreens, Attentive
<1>b. ASSUME screen \in SeatScreens
      PROVE  /\ ~isReconnecting /\ Has(toClient, {"LEFT_ROOM"}) /\ ~Has(toClient, {"LOGIN_OK"})
             /\ ~Has(boxes, {"welcome"})
             /\ ~Has(toClient, {"RECONNECT_OK"}) /\ ~Has(boxes, {"back"})
  BY <1>a, <1>b DEF LobbyCourse, LobbyLeft, LobbyBack
<1>c. screen \notin SeatScreens => ~Has(toClient, SeatLines)
  BY DEF LobbyCourse, LobbyLeft
<1>1. CASE HandleLine
  <2>1. ASSUME NEW cmd, Reads(cmd)
        PROVE  /\ toClient' # toClient /\ toClient # <<>> /\ Head(toClient).cmd = cmd
               /\ Has(toClient, {cmd})
               /\ \A l \in On(toClient') : l \in On(toClient)
               /\ \A a, b : Before(toClient', a, b) => Before(toClient, a, b)
               /\ \A kinds : cmd \notin kinds /\ Has(toClient, kinds) => Has(toClient', kinds)
               /\ ~Has(toClient', {"RECONNECT_OK"})
               /\ cmd \in SeatLines => screen \in SeatScreens
    <3>1. /\ toClient' # toClient /\ toClient # <<>> /\ Head(toClient).cmd = cmd
          /\ \A l \in On(toClient') : l \in On(toClient)
          /\ \A a, b : Before(toClient', a, b) => Before(toClient, a, b)
          /\ \A kinds : cmd \notin kinds /\ Has(toClient, kinds) => Has(toClient', kinds)
      BY <2>1, HeardOff
    <3>2. PICK h \in On(toClient) : h.cmd = cmd /\ \A l \in On(toClient') : Before(toClient, h, l)
      BY <2>1, HeardOff
    <3>3. ~Has(toClient', {"RECONNECT_OK"})
      BY <3>2 DEF Has, LobbyCourse, LobbyBack
    <3>4. Has(toClient, {cmd}) /\ (cmd \in SeatLines => Has(toClient, SeatLines))
      BY <3>2 DEF Has
    <3> QED BY <1>c, <3>1, <3>3, <3>4
  \* Lines that are read at a seat, after which the screen is one of the seat's.
  <2>2. ASSUME NEW cmd, Reads(cmd), cmd # "LEFT_ROOM", screen \in SeatScreens,
               screen' \in SeatScreens, isReconnecting' = isReconnecting \/ isReconnecting' = FALSE,
               UNCHANGED toServer,
               \A l \in On(boxes') : l \in On(boxes) \/ l.cmd \notin {"welcome", "back"},
               Has(boxes', {"aborted"}) => Has(boxes, {"aborted"}) \/ ~Has(toClient', SeatLines)
        PROVE  LobbyCourse'
    <3>0. Has(toClient', {"LEFT_ROOM"})
      <4>1. Has(toClient, {"LEFT_ROOM"}) /\ cmd \notin {"LEFT_ROOM"}
        BY <1>b, <2>2
      <4>2. \A kinds : cmd \notin kinds /\ Has(toClient, kinds) => Has(toClient', kinds)
        BY <2>1, <2>2
      <4> QED BY <4>1, <4>2
    <3>1. ~isReconnecting' /\ Has(toClient', {"LEFT_ROOM"})
      BY <1>b, <2>2, <3>0
    <3>2. /\ \A l \in On(toClient') : l \in On(toClient)
          /\ \A a, b : Before(toClient', a, b) => Before(toClient, a, b)
      BY <2>1, <2>2
    <3> QED BY <2>2, <3>1, <3>2, LobbySeated
  <2>3. CASE onLoginSuccessful
    <3>1. Reads("LOGIN_OK") /\ UNCHANGED <<toServer, screen, isReconnecting>>
      BY <2>3 DEF onLoginSuccessful
    <3>2. screen \notin SeatScreens
      BY <1>b, <2>1, <3>1
    <3>3. /\ \A l \in On(boxes') : l \in On(boxes) \/ l.cmd = "welcome"
          /\ \E l \in On(boxes') : l.cmd = "welcome"
      BY <2>3, PlainOpened DEF onLoginSuccessful, PlainKinds
    <3>4. ~Has(toClient, {"RECONNECT_OK"}) /\ ~Has(boxes, {"back"})
      <4>1. Leads(toClient, {"ROOM_LIST"}, {"LOGIN_OK"}) => "LOGIN_OK" \notin {"LOGIN_OK"}
        BY <3>1, HeardLeads
      <4> QED BY <4>1 DEF LobbyCourse, LobbyBack
    <3>5. LobbyDoor'
      <4>1. Has(boxes', {"welcome"})
        BY <3>3 DEF Has
      <4>2. Has(boxes', {"leave", "away", "submit", "aborted"})
              => Has(boxes, {"leave", "away", "submit", "aborted"})
        BY <3>3 DEF Has
      <4>3. Has(toClient', {"LEFT_ROOM"}) => Has(toClient, {"LEFT_ROOM"})
        BY <2>1, <3>1 DEF Has
      <4> QED BY <3>1, <4>1, <4>2, <4>3 DEF LobbyCourse, LobbyDoor
    <3>6. LobbyBack'
      <4>1. ~Has(boxes', {"back"})
        BY <3>3, <3>4 DEF Has
      <4>2. Has(toClient, {"ROOM_LIST"}) => Has(toClient', {"ROOM_LIST"})
        BY <2>1, <3>1
      <4>3. \A a, b : Before(toClient', a, b) => b.cmd # "RECONNECT_OK"
        BY <2>1, <3>1 DEF LobbyCourse, LobbyBack
      <4> QED BY <2>1, <3>1, <4>1, <4>2, <4>3 DEF LobbyCourse, LobbyBack
    <3> QED BY <2>1, <3>1, <3>2, <3>3, <3>5, <3>6, LobbyReads
  <2>4. CASE onReconnectSuccessful
    <3>1. Reads("RECONNECT_OK") /\ UNCHANGED <<toServer, screen, isReconnecting>>
      BY <2>4 DEF onReconnectSuccessful
    <3>2. /\ screen = "Login" /\ ~Has(boxes, {"welcome"})
          /\ Leads(toClient, {"ROOM_LIST"}, {"LOGIN_OK"})
      BY <2>1, <3>1 DEF LobbyCourse, LobbyBack
    <3>3. /\ \A l \in On(boxes') : l \in On(boxes) \/ l.cmd = "back"
          /\ \E l \in On(boxes') : l.cmd = "back"
      BY <2>4, PlainOpened DEF onReconnectSuccessful, PlainKinds
    <3>4. Has(boxes', {"back"}) /\ ~Has(boxes', {"welcome"})
      BY <3>2, <3>3 DEF Has
    <3>5. /\ Has(toClient, {"ROOM_LIST"}) => Has(toClient', {"ROOM_LIST"})
          /\ Has(toClient, {"LOGIN_OK"}) => Has(toClient', {"LOGIN_OK"})
      BY <2>1, <3>1
    <3>6. LobbyDoor'
      <4>1. Has(boxes', {"leave", "away", "submit", "aborted"})
              => Has(boxes, {"leave", "away", "submit", "aborted"})
        BY <3>3 DEF Has
      <4>2. Has(toClient', {"LEFT_ROOM"}) => Has(toClient, {"LEFT_ROOM"})
        BY <2>1, <3>1 DEF Has
      <4> QED BY <3>1, <3>2, <3>4, <3>5, <4>1, <4>2 DEF LobbyCourse, LobbyDoor
    <3>7. LobbyBack'
      <4>1. Leads(toClient', {"ROOM_LIST"}, {"LOGIN_OK"})
        BY <3>1, <3>2, HeardLeads
      <4>2. \A a, b : Before(toClient', a, b) => b.cmd # "RECONNECT_OK"
        BY <2>1, <3>1 DEF LobbyCourse, LobbyBack
      <4> QED BY <3>1, <3>2, <3>4, <3>5, <4>1, <4>2 DEF LobbyCourse, LobbyBack
    <3> QED BY <1>a, <2>1, <3>1, <3>2, <3>3, <3>6, <3>7, LobbyReads
  <2>5. CASE onRoomListReceived
    <3>1. Reads("ROOM_LIST") /\ isReconnecting' = FALSE /\ UNCHANGED boxes
      BY <2>5 DEF onRoomListReceived
    <3>2. ~Has(boxes, {"back"})
      BY <2>1, <3>1, UnderneathHas DEF Attentive, PlacedUnderBox, Handled
    <3>3. CASE isReconnecting
      <4>1. ~Has(toClient', SeatLines)
        BY <1>b, <1>c, <2>1, <3>1, <3>3 DEF Has
      <4> QED BY <2>1, <2>5, <3>1, <3>2, <3>3, <4>1, LobbyReached DEF onRoomListReceived
    <3>4. CASE ~isReconnecting /\ screen \in SeatScreens
      BY <2>2, <2>5, <3>1, <3>4 DEF onRoomListReceived
    <3>5. CASE ~isReconnecting /\ screen \notin SeatScreens
      <4>1. UNCHANGED <<toServer, screen>>
        BY <2>5, <3>5 DEF onRoomListReceived
      <4>2. ~Has(toClient', {"RECONNECT_OK"}) /\ ~Has(toClient, {"RECONNECT_OK"})
        <5>1. PICK h \in On(toClient) :
                 /\ h.cmd = "ROOM_LIST"
                 /\ \A l : l \in On(toClient) <=> l \in On(toClient') \/ l = h
          BY <3>1, HeardOff
        <5> QED BY <2>1, <3>1, <5>1 DEF Has
      <4>3. LobbyDoor'
        <5>1. Has(toClient, {"LOGIN_OK"}) => Has(toClient', {"LOGIN_OK"})
          BY <2>1, <3>1
        <5>2. Has(toClient', {"LEFT_ROOM"}) => Has(toClient, {"LEFT_ROOM"})
          BY <2>1, <3>1 DEF Has
        <5> QED BY <3>1, <3>2, <3>5, <4>1, <4>2, <5>1, <5>2 DEF LobbyCourse, LobbyDoor
      <4>4. LobbyBack'
        BY <2>1, <3>1, <3>2, <4>2 DEF LobbyCourse, LobbyBack
      <4> QED BY <2>1, <3>1, <3>5, <4>1, <4>3, <4>4, LobbyReads
    <3> QED BY <3>3, <3>4, <3>5
  <2>6. CASE onRoomStatusUpdated
    <3>1. screen \in SeatScreens
      BY <2>1, <2>6 DEF onRoomStatusUpdated, SeatLines
    <3> QED BY <1>b, <2>2, <2>6, <3>1 DEF onRoomStatusUpdated
  <2>7. CASE onRoomJoined
    BY <2>1, <2>7 DEF onRoomJoined, LobbyCourse, LobbyLeft
  <2>8. CASE onLeftRoom
    <3>1. Reads("LEFT_ROOM") /\ transitionToLobby /\ UNCHANGED <<isReconnecting, boxes>>
      BY <2>8 DEF onLeftRoom
    <3>2. PICK h \in On(toClient) :
             h.cmd = "LEFT_ROOM" /\ \A l \in On(toClient') : Before(toClient, h, l)
      BY <3>1, HeardOff
    <3>3. IsLeft(h)
      BY <3>2 DEF LobbyCourse, LobbyLeft, OwnSeat, IsLeft
    <3>4. ~Has(toClient', SeatLines) /\ ~Has(toClient', {"RECONNECT_OK"})
      BY <3>2, <3>3 DEF LinesFit, LeftFits, Has, SeatLines
    <3>5. ~Has(boxes', {"back"})
      BY <2>1, <3>1 DEF LobbyCourse, LobbyBack, LobbyDoor
    <3>6. Has(toClient, {"ROOM_LIST"}) => Has(toClient', {"ROOM_LIST"})
      BY <2>1, <3>1
    <3> QED BY <2>1, <3>1, <3>4, <3>5, <3>6, LobbyReached
  <2>9. CASE onGameStarted
    <3>1. screen \in SeatScreens
      BY <2>1, <2>9 DEF onGameStarted, SeatLines
    <3> QED BY <2>2, <2>9, <3>1 DEF onGameStarted, Show, SeatScreens
  <2>10. CASE onGameEnded
    <3>1. screen \in SeatScreens
      BY <2>1, <2>10 DEF onGameEnded, SeatLines
    <3> QED BY <2>2, <2>10, <3>1 DEF onGameEnded, Show, SeatScreens
  <2>11. CASE onRoundEnded
    <3>1. screen \in SeatScreens
      BY <2>1, <2>11 DEF onRoundEnded, SeatLines
    <3> QED BY <2>2, <2>11, <3>1 DEF onRoundEnded, Show, SeatScreens
  <2>12. CASE onWaitingForContinue
    <3>1. Reads("WAIT_CONTINUE") /\ UNCHANGED <<toServer, boxes, isReconnecting>>
      BY <2>12 DEF onWaitingForContinue
    <3>2. CASE screen \in SeatScreens
      <4>1. screen' \in SeatScreens
        BY <2>12, <3>2 DEF onWaitingForContinue, Show, SeatScreens
      <4> QED BY <2>2, <3>1, <3>2, <4>1
    <3>3. CASE screen \notin SeatScreens
      <4>1. UNCHANGED screen
        BY <2>12, <3>3 DEF onWaitingForContinue, SeatScreens
      <4>2. \A kinds : "WAIT_CONTINUE" \notin kinds =>
                           (Has(toClient', kinds) <=> Has(toClient, kinds))
        BY <2>1, <3>1 DEF Has
      <4>3. LobbyDoor'
        BY <3>1, <4>1, <4>2 DEF LobbyCourse, LobbyDoor
      <4>4. LobbyBack'
        <5>1. Leads(toClient, {"ROOM_LIST"}, {"LOGIN_OK"})
                => Leads(toClient', {"ROOM_LIST"}, {"LOGIN_OK"})
          BY <3>1, HeardLeads
        <5>2. \A a, b : Before(toClient', a, b) => b.cmd # "RECONNECT_OK"
          BY <2>1, <3>1 DEF LobbyCourse, LobbyBack
        <5> QED BY <3>1, <4>1, <4>2, <5>1, <5>2 DEF LobbyCourse, LobbyBack
      <4> QED BY <2>1, <3>1, <3>3, <4>1, <4>3, <4>4, LobbyReads
    <3> QED BY <3>2, <3>3
  <2>13. CASE onGameAborted
    <3>1. Reads("GAME_ABORTED") /\ UNCHANGED <<toServer, screen, isReconnecting>>
      BY <2>13 DEF onGameAborted
    <3>2. screen \in SeatScreens
      BY <2>1, <3>1 DEF SeatLines
    <3>3. PICK h \in On(toClient) :
             h.cmd = "GAME_ABORTED" /\ \A l \in On(toClient') : Before(toClient, h, l)
      BY <3>1, HeardOff
    <3>4. ~Has(toClient', SeatLines)
      BY <3>3 DEF LobbyCourse, LobbyLeft, Never, Has
    <3>5. \A l \in On(boxes') : l \in On(boxes) \/ l.cmd = "aborted"
      BY <2>13, PlainOpened DEF onGameAborted, PlainKinds
    <3> QED BY <2>2, <3>1, <3>2, <3>4, <3>5
  <2>14. CASE onPlayerDisconnected
    <3>1. Reads("PLAYER_DISCONNECTED") /\ UNCHANGED <<toServer, screen, isReconnecting>>
      BY <2>14 DEF onPlayerDisconnected
    <3>2. screen \in SeatScreens
      BY <2>1, <3>1 DEF SeatLines
    <3>3. LineTag \in SeatTag
      <4>1. PICK h \in AnyLine : h.cmd = "PLAYER_DISCONNECTED" /\ h.tag = LineTag
        BY <3>1, HeardOff
      <4> QED BY <4>1, TagOf DEF SeatKinds
    <3>4. \A l \in On(boxes') : l \in On(boxes) \/ l.cmd = "away"
      BY <2>14, <3>3, TaggedOpened DEF onPlayerDisconnected, SeatKinds
    <3>5. Has(boxes', {"aborted"}) => Has(boxes, {"aborted"})
      BY <3>4 DEF Has
    <3> QED BY <2>2, <3>1, <3>2, <3>4, <3>5
  <2> QED
    BY <1>1, <2>3, <2>4, <2>5, <2>6, <2>7, <2>8, <2>9, <2>10, <2>11, <2>12, <2>13, <2>14
       DEF HandleLine, onDisconnected, ReadError
<1>2. CASE CloseBox
  <2>1. ASSUME NEW kinds, Closes(kinds)
        PROVE  /\ \A l \in On(boxes') : l \in On(boxes)
               /\ Has(boxes, kinds)
    BY <2>1, ShutOff DEF Has
  <2>2. CASE LobbyAfterBox
    <3>1. /\ Closes({"welcome", "aborted"}) /\ transitionToLobby
          /\ UNCHANGED <<toClient, isReconnecting>>
      BY <2>2 DEF LobbyAfterBox
    <3>2. \/ Has(boxes, {"welcome"}) \/ Has(boxes, {"aborted"})
      BY <2>1, <3>1 DEF Has
    <3>3. ~Has(toClient, SeatLines)
      BY <1>b, <1>c, <3>2 DEF LobbyCourse, LobbyLeft
    <3>4. ~Has(toClient, {"RECONNECT_OK"}) /\ ~Has(boxes, {"back"})
      <4>1. Has(boxes, {"aborted"}) => Has(boxes, {"leave", "away", "submit", "aborted"})
        BY DEF Has
      <4> QED BY <3>2, <4>1 DEF LobbyCourse, LobbyBack, LobbyDoor
    <3>5. ~Has(boxes', {"back"})
      BY <2>1, <3>1, <3>4 DEF Has
    <3> QED BY <2>1, <3>1, <3>3, <3>4, <3>5, LobbyReached
  <2>3. CASE ReconnectingAfterBox
    <3>1. /\ Closes({"back"}) /\ isReconnecting' = TRUE /\ UNCHANGED <<toClient, toServer, screen>>
      BY <2>3 DEF ReconnectingAfterBox, netVars
    <3>2. /\ screen = "Login" /\ ~Has(boxes, {"welcome"})
          /\ Leads(toClient, {"ROOM_LIST"}, {"LOGIN_OK"})
      BY <2>1, <3>1 DEF LobbyCourse, LobbyBack
    <3>3. Has(toClient, {"ROOM_LIST"})
      <4>1. Has(toClient, {"LOGIN_OK"}) => Has(toClient, {"ROOM_LIST"})
        BY <3>2, LeadsHas
      <4> QED BY <3>2, <4>1 DEF LobbyCourse, LobbyDoor
    <3>4. \A kinds : Has(boxes', kinds) => Has(boxes, kinds)
      BY <2>1, <3>1 DEF Has
    <3>5. LobbyDoor'
      BY <3>1, <3>3, <3>4 DEF LobbyCourse, LobbyDoor
    <3>6. LobbyBack'
      BY <3>1, <3>2, <3>3, <3>4 DEF LobbyCourse, LobbyBack
    <3> QED BY <1>a, <2>1, <3>1, <3>2, <3>5, <3>6, LobbyReads
  <2>4. CASE LoginAfterBox
    BY <1>a, <2>1, <2>4 DEF LoginAfterBox
  <2>5. ASSUME NEW kinds, NEW cmd \in {"LEAVE_ROOM", "SUBMIT"}, Answered(kinds, cmd),
               \/ kinds = {"away", "leave"} /\ cmd = "LEAVE_ROOM"
               \/ kinds = {"submit"} /\ cmd = "SUBMIT"
        PROVE  LobbyCourse'
    <3>1. \E b \in On(boxes) :
             /\ b.cmd \in kinds
             /\ \A l \in On(toServer') : l \in On(toServer) \/ (l.cmd = cmd /\ l.tag = b.tag)
      BY <2>5, AnswerSent
    <3>2. /\ \A a, b : Before(toServer', a, b) =>
               Before(toServer, a, b) \/ (a \in On(toServer) /\ b.cmd = cmd)
          /\ \A l \in On(toServer) : l \in On(toServer')
          /\ \A l \in On(boxes') : l \in On(boxes)
          /\ Has(toServer, {"LIST_ROOMS"}) /\ Leads(toServer, {"LIST_ROOMS"}, {"SIT"})
               => Leads(toServer', {"LIST_ROOMS"}, {"SIT"})
          /\ UNCHANGED <<conn, toClient, isConnected, isReconnecting, screen, shown>>
      BY <2>5, AnswerSent
    <3>3. /\ Has(boxes, kinds)
          /\ \A l \in On(toServer') : l \in On(toServer) \/ l.cmd = cmd
      BY <3>1 DEF Has
    <3>4. /\ cmd = "LEAVE_ROOM" => Has(boxes, {"leave", "away"})
          /\ Has(boxes, {"leave", "away", "submit", "aborted"})
      BY <2>5, <3>3 DEF Has
    <3>5. screen # "Login"
      BY <3>4 DEF LobbyCourse, LobbyDoor
    <3> QED BY <2>5, <3>2, <3>3, <3>4, <3>5, LobbySends
  <2>6. CASE Answered({"away", "leave"}, "LEAVE_ROOM")
    BY <2>5, <2>6
  <2>7. CASE Answered({"submit"}, "SUBMIT")
    BY <2>5, <2>7
  <2> QED BY <1>2, <2>2, <2>3, <2>4, <2>6, <2>7 DEF CloseBox
<1>3. CASE UserActs(seat)
  <2>1. ASSUME NEW s, NEW cmd \in {"LOGIN", "SIT", "START"}, Sends(s, cmd),
               \/ s = "Login" /\ cmd = "LOGIN"
               \/ s = "Lobby" /\ cmd = "SIT"
               \/ s = "Room" /\ cmd = "START"
        PROVE  LobbyCourse'
    <3>1. /\ sendCommand(cmd, NoRound) /\ screen = s /\ ~Has(boxes, {"leave", "away", "aborted"})
          /\ UNCHANGED <<toClient, boxes, isReconnecting, screen>>
      BY <2>1, OnEmpty DEF Sends, Clicks, UserFree, Has, windowVars
    <3>2. cmd \in PlainKinds
      BY DEF PlainKinds
    <3>3. /\ \A l \in On(toServer') : l \in On(toServer) \/ l.cmd = cmd
          /\ \A a, b : Before(toServer', a, b) =>
               Before(toServer, a, b) \/ (a \in On(toServer) /\ b.cmd = cmd)
          /\ \A l \in On(toServer) : l \in On(toServer')
          /\ Has(toServer, {"LIST_ROOMS"}) /\ Leads(toServer, {"LIST_ROOMS"}, {"SIT"})
               => Leads(toServer', {"LIST_ROOMS"}, {"SIT"})
      BY <3>1, <3>2, PlainSent
    <3> QED BY <2>1, <3>1, <3>3, LobbySends
  <2>2. CASE onLoginClicked \/ SitClicked \/ StartClicked
    BY <2>1, <2>2 DEF onLoginClicked, SitClicked, StartClicked
  \* At a seat.
  <2>3. ASSUME screen \in SeatScreens, screen' \in SeatScreens,
               UNCHANGED <<toClient, isReconnecting>>,
               \A l \in On(toServer') : l \in On(toServer) \/ l.cmd \notin {"SIT", "LOGIN"},
               \A l \in On(boxes') : l \in On(boxes) \/ l.cmd \notin {"welcome", "back", "aborted"}
        PROVE  LobbyCourse'
    <3>1. ~isReconnecting' /\ Has(toClient', {"LEFT_ROOM"})
      BY <1>b, <2>3
    <3>2. Has(boxes', {"aborted"}) => Has(boxes, {"aborted"})
      BY <2>3 DEF Has
    <3> QED BY <2>3, <3>1, <3>2, LobbySeated
  <2>4. CASE onLeaveRoomClicked(seat)
    <3>1. \A l \in On(boxes') : l \in On(boxes) \/ l.cmd = "leave"
      BY <2>4, NowOK, TaggedOpened DEF onLeaveRoomClicked, SeatKinds, ShapeInv
    <3> QED BY <2>3, <2>4, <3>1 DEF onLeaveRoomClicked, netVars, Clicks, SeatScreens
  <2>5. CASE onSubmitClicked
    <3>1. \A l \in On(boxes') : l \in On(boxes) \/ l.cmd = "submit"
      BY <2>5, TaggedOpened DEF onSubmitClicked, RoundKinds, ShapeInv, ClientOK
    <3> QED BY <2>3, <2>5, <3>1 DEF onSubmitClicked, netVars, Clicks, SeatScreens
  <2>6. CASE onBackToRoomClicked
    BY <2>3, <2>6 DEF onBackToRoomClicked, netVars, Show, Clicks, SeatScreens
  <2>7. CASE onContinueClicked
    <3>1. Line("READY_NEXT_ROUND", shown) \in AnyLine
          /\ Line("READY_NEXT_ROUND", shown).cmd = "READY_NEXT_ROUND"
          /\ Line("READY_NEXT_ROUND", shown).tag = shown
      BY MadeLine DEF RoundKinds, ShapeInv, ClientOK
    <3>2. \A l \in On(toServer') : l \in On(toServer) \/ l.cmd = "READY_NEXT_ROUND"
      BY <2>7, <3>1, SentOn DEF onContinueClicked
    <3> QED BY <2>3, <2>7, <3>2 DEF onContinueClicked, Show, Clicks, SeatScreens
  <2> QED BY <1>3, <2>2, <2>4, <2>5, <2>6, <2>7 DEF UserActs, onConnectClicked
<1> QED BY <1>1, <1>2, <1>3
-----------------------------------------------------------------------------
\* What is read with nothing else pending puts the client right.
LEMMA SetRightFits ==
    ASSUME ShapeInv, LinesFit, SetRight, conn = "up", conn' = "up", isConnected,
           UNCHANGED <<me, game, seat>>, HandleLine \/ CloseBox \/ UserActs(seat)
    PROVE  CourseFits'
<1> QueuesOK /\ SessionOK /\ RecordOK
  BY DEF ShapeInv, ClientOK
<1>a. /\ On(toServer) = {} /\ On(boxes) = {} /\ (\A a, b : ~Before(toServer, a, b))
      /\ toServer = <<>> /\ boxes = <<>>
  BY OnEmpty DEF SetRight
<1>b. \A l \in On(toClient) : l.cmd \notin {"GAME_ABORTED", "LOGIN_OK"}
  BY DEF SetRight, On
<1>c. ~CloseBox /\ (UserActs(seat) => UNCHANGED toClient)
  BY <1>a DEF CloseBox, LobbyAfterBox, ReconnectingAfterBox, LoginAfterBox, Answered, Closes,
              UserActs, onConnectClicked, onLoginClicked, SitClicked, StartClicked, Sends,
              onLeaveRoomClicked, onSubmitClicked, onBackToRoomClicked, onContinueClicked, netVars
<1>d. HandleLine
  BY <1>c DEF SetRight, Handled
<1>1. CASE Handled("LEFT_ROOM") /\ LineTag = <<seat>>
  <2>1. onLeftRoom
    BY <1>d, <1>1
       DEF HandleLine, Handled, onLoginSuccessful, onReconnectSuccessful, onRoomListReceived,
           onRoomStatusUpdated, onRoomJoined, onGameStarted, onGameEnded, onRoundEnded,
           onWaitingForContinue, onGameAborted, onPlayerDisconnected, onDisconnected, ReadError,
           Reads
  <2>2. Reads("LEFT_ROOM") /\ transitionToLobby /\ UNCHANGED <<isReconnecting, boxes>>
    BY <2>1 DEF onLeftRoom
  <2>3. PICK h \in On(toClient) :
           /\ h.cmd = "LEFT_ROOM" /\ h.tag = LineTag
           /\ \A l \in On(toClient') : Before(toClient, h, l)
    BY <2>2, HeardOff
  <2>4. IsLeft(h) /\ me.place = "lobby" /\ ~me.stray
    BY <1>1, <2>3 DEF IsLeft, LinesFit, LeftFits, SessionOK
  <2>5. \A l \in On(toClient') : l.cmd = "ROOM_LIST"
    <3>1. \A l \in On(toClient') : l \in On(toClient)
      BY <2>2, HeardOff
    <3> QED BY <1>b, <2>3, <2>4, <3>1 DEF LinesFit, LeftFits
  <2>6. /\ screen' = "Lobby"
        /\ \A l \in On(toServer') : l.cmd = "LIST_ROOMS"
        /\ \E l \in On(toServer') : l.cmd = "LIST_ROOMS"
    BY <1>a, <2>2, PlainSent DEF transitionToLobby, Show, PlainKinds
  <2>7. LobbySent'
    BY <2>6, BeforeOn DEF LobbySent, Never, Has
  <2>8. LobbyDoor'
    BY <2>6 DEF LobbyDoor
  <2>9. LobbyBack'
    <3>1. ~Has(toClient', {"RECONNECT_OK"}) /\ ~Has(boxes', {"back"})
      BY <1>a, <2>2, <2>5 DEF Has
    <3>2. Has(toServer', {"LIST_ROOMS"}) /\ ~Has(toServer', {"SIT"})
      BY <2>6 DEF Has
    <3>3. Leads(toServer', {"LIST_ROOMS"}, {"SIT"})
      BY <3>2, NoneLeads
    <3>4. \A a, b : Before(toClient', a, b) => b.cmd # "RECONNECT_OK"
      BY <2>5, BeforeOn
    <3> QED BY <3>1, <3>2, <3>3, <3>4 DEF LobbyBack
  <2>10. LobbyLeft'
    BY <2>5, <2>6, BeforeOn DEF LobbyLeft, Has, Never, OwnSeat, SeatScreens, SeatLines
  <2> QED BY <2>4, <2>7, <2>8, <2>9, <2>10 DEF CourseFits, LobbyCourse
<1>2. CASE Handled("GAME_START") /\ LineTag = Now
  <2>1. onGameStarted
    BY <1>d, <1>2
       DEF HandleLine, Handled, onLoginSuccessful, onReconnectSuccessful, onRoomListReceived,
           onRoomStatusUpdated, onRoomJoined, onLeftRoom, onGameEnded, onRoundEnded,
           onWaitingForContinue, onGameAborted, onPlayerDisconnected, onDisconnected, ReadError,
           Reads
  <2>2. /\ Reads("GAME_START") /\ screen' = "InGame" /\ isReconnecting' = FALSE
        /\ UNCHANGED <<toServer, boxes>>
    BY <2>1 DEF onGameStarted, Show
  <2>3. PICK h \in On(toClient) :
           /\ h.cmd = "GAME_START" /\ h.tag = LineTag
           /\ \A l \in On(toClient') : Before(toClient, h, l)
    BY <2>2, HeardOff
  <2>4. IsStart(h)
    BY <1>2, <2>3 DEF IsStart
  <2>5. \A l \in On(toClient') : l \in On(toClient)
    BY <2>2, HeardOff
  <2>6. /\ ~Has(toClient', {"LEFT_ROOM", "ROOM_JOINED", "LOGIN_OK", "GAME_ABORTED", "RECONNECT_OK"})
        /\ OwnSeat(toClient, {"PLAYER_DISCONNECTED"})'
    BY <1>b, <2>3, <2>4, <2>5 DEF LinesFit, StartFits, Has, OwnSeat
  <2>7. me.playing /\ me.place = "room"
    <3>1. h.tag[2] >= 1 /\ h.tag[2] = me.round
      BY <1>2, <2>3 DEF LinesFit, RoundsPast, Now
    <3> QED BY <3>1 DEF SessionOK
  <2>8. ~me.stray
    <3>1. ~\E b : Before(toClient, h, b) /\ b.cmd = "LOGIN_OK"
      BY <1>b, BeforeOn
    <3> QED BY <2>3, <2>4, <3>1 DEF LinesFit, StartFits
  <2>9. Known'
    BY <1>a, <2>2, <2>6, BeforeOn DEF Known, OwnSeat, Never, Has, SeatScreens
  <2> QED BY <2>7, <2>8, <2>9 DEF CourseFits, SeatCourse
<1> QED BY <1>1, <1>2 DEF SetRight

\* Steps of the client over a connection that is up.
LEMMA CourseClient ==
    ASSUME ShapeInv, DoorInv, WireInv, CourseInv, ClientStep, conn = "up"
    PROVE  CourseInv'
<1> RecordOK
  BY DEF ShapeInv
<1>1. /\ UNCHANGED <<me, game, seat>> /\ attached' = attached /\ conn' = "up" /\ isConnected
      /\ HandleLine \/ CloseBox \/ UserActs(seat)
      /\ misled' = (LostUnread \/ PlacedUnderBox \/ (misled /\ ~SetRight))
  BY ClientConnection DEF ClientStep, RecordOK, WireInv, Connects
<1>2. SUFFICES ASSUME ~misled', attached PROVE CourseFits'
  BY <1>1 DEF CourseInv
<1>3. Attentive /\ LinesFit
  BY <1>1, <1>2 DEF Attentive, DoorInv, WireInv
<1>4. CASE misled
  BY <1>1, <1>2, <1>3, <1>4, SetRightFits
<1>5. CASE ~misled
  <2>1. CourseFits
    BY <1>2, <1>5 DEF CourseInv
  <2>2. me.place = "room" => SeatCourse'
    BY <1>1, <1>3, <2>1, KnownClient, JoiningClient, ResumingClient DEF CourseFits, SeatCourse
  <2>3. me.place = "lobby" => LobbyCourse'
    BY <1>1, <1>3, <2>1, LobbyClient DEF CourseFits
  <2> QED BY <1>1, <2>1, <2>2, <2>3 DEF CourseFits
<1> QED BY <1>4, <1>5
-----------------------------------------------------------------------------
\* A turn takes at most a line of the client, and leaves its window.
LEMMA TurnTakes ==
    ASSUME QueuesOK, Turns
    PROVE  /\ UNCHANGED <<isConnected, isReconnecting, screen, shown, boxes>>
           /\ \A l \in On(toServer') : l \in On(toServer)
           /\ \A a, b : Before(toServer', a, b) => Before(toServer, a, b)
           /\ \/ UNCHANGED toServer
              \/ \E h \in On(toServer) : /\ Serve(h.cmd)
                                         /\ \A l \in On(toServer') : Before(toServer, h, l)
                                         /\ \A l \in On(toServer) : l = h \/ l \in On(toServer')
<1>1. Elsewhere \/ \E cmd : Serve(cmd)
  BY DEF Turns, SaysNothing, LetsIn, LetsBack, LetsInAgain, Lists, Seats, LetsGo, StartsRound,
         EndsRound, CountsVote, EndsGame, TellsOfLeaver, TellsOfLoss, TellsStatus, TurnOf
<1>2. CASE Elsewhere
  BY <1>2 DEF Elsewhere, windowVars
<1>3. CASE \E cmd : Serve(cmd)
  <2>1. PICK cmd : Serve(cmd)
    BY <1>3
  <2>2. PICK h \in AnyLine :
           /\ h.cmd = cmd
           /\ On(toServer) = On(toServer') \cup {h}
           /\ \A a, b : Before(toServer, a, b) <=> \/ Before(toServer', a, b)
                                                   \/ a = h /\ b \in On(toServer')
    BY <2>1, Taken
  <2>3. UNCHANGED <<isConnected, isReconnecting, screen, shown, boxes>>
    BY <2>1 DEF Serve, windowVars
  <2> QED BY <2>1, <2>2, <2>3
<1> QED BY <1>1, <1>2, <1>3

\* Lines of these kinds are said to a client whose user keeps the seat.
SeatTalk == {"ROOM_LIST", "ROOM_STATUS", "GAME_START", "GAME_END", "ROUND_END", "WAIT_CONTINUE",
             "PLAYER_DISCONNECTED"}
SeatSays(l) ==
    /\ l.cmd \in SeatTalk
    /\ l.cmd = "PLAYER_DISCONNECTED" => l.tag = <<seat>>
    /\ l.cmd = "ROOM_LIST" => Has(toServer, {"LIST_ROOMS"})
Talks ==
    \/ UNCHANGED toClient
    \/ \E x \in AnyLine : SeatSays(x) /\ Says(x)
    \/ \E x, y \in AnyLine : x.cmd = "GAME_END" /\ y.cmd = "ROOM_STATUS" /\ SaysBoth(x, y)

\* While the user keeps the seat, no more is said than this.
LEMMA SeatTalks ==
    ASSUME ShapeInv, Turns, attached, me.place = "room", me'.place = "room", ~misled'
    PROVE  Talks /\ ~misled /\ (~me.stray => ~me'.stray) /\ UNCHANGED seat
<1> SessionOK /\ QueuesOK
  BY DEF ShapeInv, ClientOK
<1>1. CASE SaysNothing
  BY <1>1 DEF SaysNothing, Talks, SameRecord, SameSession
<1>2. ~LetsIn /\ ~LetsBack /\ ~LetsInAgain /\ ~Seats /\ ~LetsGo
  BY DEF LetsIn, LetsBack, LetsInAgain, Seats, LetsGo
<1>3. CASE Lists
  <2>1. Has(toServer, {"LIST_ROOMS"})
    BY <1>3, Taken DEF Lists, Has
  <2> QED BY <1>3, <2>1 DEF Lists, Talks, SeatTalk, SeatSays, SameRecord, SameSession
<1>4. CASE StartsRound
  BY <1>4 DEF StartsRound, Talks, SeatTalk, SeatSays
<1>5. CASE EndsRound
  BY <1>5 DEF EndsRound, Talks, SeatTalk, SeatSays, SameRecord
<1>6. CASE CountsVote
  BY <1>6 DEF CountsVote, Talks, SeatTalk, SeatSays, SameRecord
<1>7. CASE EndsGame
  BY <1>7 DEF EndsGame, Talks, SameRecord
<1>8. CASE TellsOfLeaver
  <2>1. PICK x, y \in AnyLine :
           /\ x.cmd = "GAME_ABORTED" /\ y.cmd = "ROOM_STATUS"
           /\ SaysPerhaps(me.playing, x, y) \/ (me.playing /\ Says(x))
    BY <1>8 DEF TellsOfLeaver
  <2>2. ~me.playing /\ ~misled /\ SameSession /\ UNCHANGED seat
    BY <1>8 DEF TellsOfLeaver
  <2>3. Says(y)
    <3>1. /\ {y} \cup (IF me.playing THEN {x} ELSE {}) = {y}
          /\ (IF me.playing THEN {<<x, y>>} ELSE {}) = {}
      BY <2>2
    <3> QED BY <2>1, <2>2, <3>1 DEF SaysPerhaps, Says
  <2> QED BY <2>1, <2>2, <2>3 DEF Talks, SeatTalk, SeatSays, SameSession
<1>9. CASE TellsOfLoss
  BY <1>9 DEF TellsOfLoss, Talks, SeatTalk, SeatSays, SameRecord, SameSession
<1>10. CASE TellsStatus
  BY <1>10 DEF TellsStatus, Talks, SeatTalk, SeatSays, SameRecord, SameSession
<1> QED BY <1>1, <1>2, <1>3, <1>4, <1>5, <1>6, <1>7, <1>8, <1>9, <1>10 DEF Turns

\* What that does to the queue.
LEMMA TalkedOf ==
    ASSUME QueuesOK, Talks
    PROVE  /\ \A l \in On(toClient') : l \in On(toClient) \/ SeatSays(l)
           /\ \A l \in On(toClient) : l \in On(toClient')
           /\ \A a, b : Before(toClient', a, b) => Before(toClient, a, b) \/ b.cmd \in SeatTalk
           /\ \A first, kinds : Has(toClient, first) /\ Leads(toClient, first, kinds)
                                  => Leads(toClient', first, kinds)
<1>1. CASE UNCHANGED toClient
  BY <1>1
<1>2. CASE \E x \in AnyLine : SeatSays(x) /\ Says(x)
  <2>1. PICK x \in AnyLine : SeatSays(x) /\ Says(x)
    BY <1>2
  <2>2. /\ On(toClient') = On(toClient) \cup {x}
        /\ \A a, b : Before(toClient', a, b) <=> \/ Before(toClient, a, b)
                                                 \/ a \in On(toClient) /\ b = x
        /\ \A first, kinds : Has(toClient, first) /\ Leads(toClient, first, kinds)
                               => Leads(toClient', first, kinds)
    BY <2>1, Said
  <2> QED BY <2>1, <2>2 DEF SeatSays
<1>3. CASE \E x, y \in AnyLine : x.cmd = "GAME_END" /\ y.cmd = "ROOM_STATUS" /\ SaysBoth(x, y)
  <2>1. PICK x, y \in AnyLine : x.cmd = "GAME_END" /\ y.cmd = "ROOM_STATUS" /\ SaysBoth(x, y)
    BY <1>3
  <2>2. /\ On(toClient') = On(toClient) \cup {x, y}
        /\ \A a, b : Before(toClient', a, b) <=> \/ Before(toClient, a, b)
                                                 \/ a \in On(toClient) /\ b \in {x, y}
                                                 \/ a = x /\ b = y
        /\ \A first, kinds : Has(toClient, first) /\ Leads(toClient, first, kinds)
                               => Leads(toClient', first, kinds)
    BY <2>1, SaidBoth
  <2> QED BY <2>1, <2>2 DEF SeatSays, SeatTalk
<1> QED BY <1>1, <1>2, <1>3 DEF Talks

\* The user keeps the seat: so does the course of the client.
LEMMA SeatKeeps ==
    ASSUME ShapeInv, SeatCourse, Turns, attached, me.place = "room", me'.place = "room", ~misled'
    PROVE  SeatCourse'
<1> QueuesOK
  BY DEF ShapeInv, ClientOK
<1>1. Talks /\ UNCHANGED seat
  BY SeatTalks
<1>2. /\ UNCHANGED <<isReconnecting, screen, boxes>>
      /\ \A l \in On(toServer') : l \in On(toServer)
      /\ \A a, b : Before(toServer', a, b) => Before(toServer, a, b)
  BY TurnTakes
<1>3. /\ \A l \in On(toClient') : l \in On(toClient) \/ SeatSays(l)
      /\ \A l \in On(toClient) : l \in On(toClient')
      /\ \A a, b : Before(toClient', a, b) => Before(toClient, a, b) \/ b.cmd \in SeatTalk
      /\ \A first, kinds : Has(toClient, first) /\ Leads(toClient, first, kinds)
                             => Leads(toClient', first, kinds)
  BY <1>1, TalkedOf
<1>4. CASE Known
  <2>1. \A l \in On(toClient') : l \in On(toClient) \/
           /\ l.cmd \notin {"LEFT_ROOM", "ROOM_JOINED", "LOGIN_OK", "GAME_ABORTED", "RECONNECT_OK"}
           /\ l.cmd = "PLAYER_DISCONNECTED" => l.tag = <<seat>>
    BY <1>3 DEF SeatSays, SeatTalk
  <2>2. screen \in SeatScreens /\ ~isReconnecting
    BY <1>4 DEF Known
  <2> QED BY <1>1, <1>2, <1>4, <2>1, <2>2, KnownKept DEF SeatCourse
<1>5. CASE Joining
  <2>1. screen = "Lobby" /\ Has(toClient, {"ROOM_JOINED"}) /\ Has(toClient', {"ROOM_JOINED"})
    BY <1>3, <1>5 DEF Joining, Has
  <2>2. Leads(toClient, {"ROOM_LIST"}, {"ROOM_JOINED", "ROOM_STATUS"})
          => Leads(toClient', {"ROOM_LIST"}, {"ROOM_JOINED", "ROOM_STATUS"})
    BY <1>3, <2>1, LeadsHas
  <2>3. \A l \in On(toClient') : l \in On(toClient) \/
           /\ l.cmd \notin {"GAME_ABORTED", "RECONNECT_OK"}
           /\ l.cmd = "PLAYER_DISCONNECTED" => l.tag = <<seat>>
    BY <1>3 DEF SeatSays, SeatTalk
  <2>4. \A a, b : Before(toClient', a, b) =>
           Before(toClient, a, b) \/ b.cmd \notin {"ROOM_JOINED", "LEFT_ROOM", "LOGIN_OK"}
    BY <1>3 DEF SeatSays, SeatTalk
  <2> QED BY <1>1, <1>2, <1>5, <2>1, <2>2, <2>3, <2>4, JoiningKept DEF SeatCourse
<1>6. CASE Resuming
  <2> DEFINE told == {"ROOM_STATUS", "GAME_START"}
             next == {"GAME_END", "ROUND_END", "WAIT_CONTINUE", "PLAYER_DISCONNECTED"}
  <2>1. ~Has(toServer, {"LIST_ROOMS"}) /\ screen = "Login"
    BY <1>6 DEF Resuming, Only, Has
  <2>2. \A l \in On(toClient') : l \in On(toClient) \/
           /\ l.cmd \in {"ROOM_STATUS", "GAME_START", "GAME_END", "ROUND_END", "WAIT_CONTINUE",
                         "PLAYER_DISCONNECTED"}
           /\ l.cmd = "PLAYER_DISCONNECTED" => l.tag = <<seat>>
    BY <1>3, <2>1 DEF SeatSays, SeatTalk
  <2>3. Has(toClient', told) /\ Leads(toClient', told, next)
    <3>1. Has(toClient, told) /\ Leads(toClient, told, next)
      BY <1>6 DEF Resuming
    <3> HIDE DEF told, next
    <3> QED BY <1>3, <3>1 DEF Has
  <2>4. isReconnecting' \/ Has(boxes', {"back"}) \/ Has(toClient', {"RECONNECT_OK"})
    BY <1>2, <1>3, <1>6 DEF Resuming, Has
  <2>5. \A a, b : Before(toClient', a, b) => Before(toClient, a, b) \/ b.cmd # "RECONNECT_OK"
    BY <1>3 DEF SeatTalk
  <2>6. /\ \A l \in On(toServer') : l \in On(toServer) \/ l.cmd = "LOGIN"
        /\ \A l \in On(boxes') : l \in On(boxes) \/ l.cmd = "back"
        /\ screen' = "Login"
    BY <1>2, <2>1
  <2> QED BY <1>1, <1>6, <2>2, <2>3, <2>4, <2>5, <2>6, ResumingKept DEF SeatCourse
<1> QED BY <1>4, <1>5, <1>6 DEF SeatCourse
-----------------------------------------------------------------------------
\* The user is let in: the welcome leads to the lobby.
LEMMA LetInFits ==
    ASSUME QueuesOK, Unserved, LetsIn
    PROVE  CourseFits'
<1> "Login" \notin SeatScreens
  BY DEF SeatScreens
<1>1. PICK x, y \in AnyLine : x.cmd = "LOGIN_OK" /\ y.cmd = "ROOM_LIST" /\ SaysBoth(x, y)
  BY DEF LetsIn
<1>2. /\ toClient = <<>> /\ boxes = <<>> /\ screen = "Login" /\ Only(toServer, {"LOGIN"})
      /\ On(toClient) = {} /\ On(boxes) = {} /\ (\A a, b : ~Before(toClient, a, b))
  BY UnservedOn
<1>3. /\ On(toClient') = On(toClient) \cup {x, y}
      /\ \A a, b : Before(toClient', a, b) <=> \/ Before(toClient, a, b)
                                               \/ a \in On(toClient) /\ b \in {x, y}
                                               \/ a = x /\ b = y
  BY <1>1, SaidBoth
<1>4. UNCHANGED <<isReconnecting, screen, boxes>> /\ \A l \in On(toServer') : l \in On(toServer)
  BY TurnTakes DEF Turns
<1>5. On(toClient') = {x, y} /\ \A a, b : Before(toClient', a, b) => b = y
  BY <1>2, <1>3
<1>6. On(boxes') = {} /\ screen' = "Login" /\ Only(toServer', {"LOGIN"})
  BY <1>2, <1>4 DEF Only
<1>7. LobbySent'
  BY <1>1, <1>5, <1>6, BeforeOn DEF LobbySent, Never, Has, Only
<1>8. LobbyDoor'
  BY <1>1, <1>5, <1>6 DEF LobbyDoor, Has
<1>9. LobbyBack'
  BY <1>1, <1>5, <1>6 DEF LobbyBack, Has
<1>10. LobbyLeft'
  BY <1>1, <1>5, <1>6 DEF LobbyLeft, Has, OwnSeat, Never, SeatLines
<1> QED BY <1>7, <1>8, <1>9, <1>10 DEF CourseFits, LobbyCourse, LetsIn

\* The user is let back: to the seat, or to the lobby.
LEMMA LetBackFits ==
    ASSUME QueuesOK, SessionOK, Unserved, LetsBack, ~misled'
    PROVE  CourseFits'
<1> "Login" \notin SeatScreens
  BY DEF SeatScreens
<1>1. PICK x, y \in AnyLine :
         /\ x.cmd = "RECONNECT_OK" /\ SaysBoth(x, y)
         /\ IF me.playing /\ ~me.stray THEN y.cmd = "GAME_START" /\ y.tag = Now
            ELSE y.cmd = (IF me.place = "room" THEN "ROOM_STATUS" ELSE "ROOM_LIST")
  BY DEF LetsBack
<1>2. /\ toClient = <<>> /\ boxes = <<>> /\ screen = "Login" /\ Only(toServer, {"LOGIN"})
      /\ On(toClient) = {} /\ On(boxes) = {} /\ (\A a, b : ~Before(toClient, a, b))
  BY UnservedOn
<1>3. /\ On(toClient') = On(toClient) \cup {x, y}
      /\ \A a, b : Before(toClient', a, b) <=> \/ Before(toClient, a, b)
                                               \/ a \in On(toClient) /\ b \in {x, y}
                                               \/ a = x /\ b = y
  BY <1>1, SaidBoth
<1>4. UNCHANGED <<isReconnecting, screen, boxes>> /\ \A l \in On(toServer') : l \in On(toServer)
  BY TurnTakes DEF Turns
<1>5. On(toClient') = {x, y} /\ \A a, b : Before(toClient', a, b) => b = y
  BY <1>2, <1>3
<1>6. On(boxes') = {} /\ screen' = "Login" /\ Only(toServer', {"LOGIN"})
  BY <1>2, <1>4 DEF Only
<1>7. ~me'.stray /\ me'.place = me.place
  BY DEF LetsBack, SameSession, SessionOK, Session
<1>8. ASSUME me.place = "room" PROVE Resuming'
  <2> DEFINE told == {"ROOM_STATUS", "GAME_START"}
             next == {"GAME_END", "ROUND_END", "WAIT_CONTINUE", "PLAYER_DISCONNECTED"}
  <2>1. y.cmd \in told
    BY <1>1, <1>8
  <2>2. Leads(toClient', told, next)
    <3>1. ~Has(toClient', next)
      BY <1>1, <1>5, <2>1 DEF Has
    <3> HIDE DEF told, next
    <3> QED BY <3>1, NoneLeads
  <2>3. Has(toClient', told) /\ Has(toClient', {"RECONNECT_OK"})
    BY <1>1, <1>5, <2>1 DEF Has
  <2>4. /\ Only(toClient', {"RECONNECT_OK", "ROOM_STATUS", "GAME_START", "GAME_END", "ROUND_END",
                            "WAIT_CONTINUE", "PLAYER_DISCONNECTED"})
        /\ OwnSeat(toClient, {"PLAYER_DISCONNECTED"})'
        /\ \A a, b : Before(toClient', a, b) => b.cmd # "RECONNECT_OK"
    BY <1>1, <1>5, <2>1 DEF Only, OwnSeat
  <2> QED BY <1>6, <2>2, <2>3, <2>4 DEF Resuming, Only
<1>9. ASSUME me.place = "lobby" PROVE LobbyCourse'
  <2>1. y.cmd = "ROOM_LIST"
    BY <1>1, <1>9 DEF SessionOK
  <2>2. LobbySent'
    BY <1>1, <1>5, <1>6, <2>1, BeforeOn DEF LobbySent, Never, Has, Only
  <2>3. LobbyDoor'
    BY <1>1, <1>5, <1>6, <2>1 DEF LobbyDoor, Has
  <2>4. Leads(toClient', {"ROOM_LIST"}, {"LOGIN_OK"})
    BY <1>1, <1>5, <2>1, NoneLeads DEF Has
  <2>5. LobbyBack'
    BY <1>1, <1>5, <1>6, <2>1, <2>4 DEF LobbyBack, Has
  <2>6. LobbyLeft'
    BY <1>1, <1>5, <1>6, <2>1 DEF LobbyLeft, Has, OwnSeat, Never, SeatLines
  <2> QED BY <2>2, <2>3, <2>5, <2>6 DEF LobbyCourse
<1> QED BY <1>7, <1>8, <1>9 DEF CourseFits, SeatCourse

\* The user has left the seat: the client has it to read, and nothing that was
\* asked before is to follow.
LEMMA LetGoFits ==
    ASSUME QueuesOK, SessionOK, SeatCourse, LetsGo
    PROVE  LobbyCourse'
<1> "Login" \notin SeatScreens
  BY DEF SeatScreens
<1>1. PICK x, y, z \in AnyLine :
         /\ x.cmd = "GAME_ABORTED" /\ y.cmd = "LEFT_ROOM" /\ y.tag = <<seat>>
         /\ z.cmd = "ROOM_LIST" /\ SaysThree(me.playing, x, y, z)
  BY DEF LetsGo
<1>2. /\ \A l \in On(toClient') : l \in On(toClient) \/ l = x \/ l = y \/ l = z
      /\ y \in On(toClient')
      /\ \A a, b : Before(toClient', a, b) =>
             a \in On(toClient) \/ (a = y /\ b = z) \/ (a = x /\ b \in {y, z})
  <2>1. me.playing \in BOOLEAN
    BY DEF SessionOK, Session
  <2>2. /\ \A l : l \in On(toClient') <=> l \in On(toClient) \cup {y, z} \/ (me.playing /\ l = x)
        /\ \A a, b : Before(toClient', a, b) <=>
               \/ Before(toClient, a, b)
               \/ a \in On(toClient) /\ (b \in {y, z} \/ (me.playing /\ b = x))
               \/ a = y /\ b = z
               \/ me.playing /\ a = x /\ b \in {y, z}
    BY <1>1, <2>1, SaidThree
  <2> QED BY <2>2, BeforeOn
<1>3. PICK h \in AnyLine :
         /\ h.cmd = "LEAVE_ROOM"
         /\ On(toServer) = On(toServer') \cup {h}
         /\ \A a, b : Before(toServer, a, b) <=> \/ Before(toServer', a, b)
                                                 \/ a = h /\ b \in On(toServer')
  BY Taken DEF LetsGo
<1>4. Known
  BY <1>3 DEF SeatCourse, Joining, Resuming, Has, Only
<1>5. UNCHANGED <<isReconnecting, screen, boxes, seat>>
  BY TurnTakes DEF Turns, LetsGo, SameRecord
<1>6. /\ screen' \in SeatScreens /\ ~isReconnecting' /\ ~Has(boxes', {"welcome", "aborted", "back"})
      /\ ~Has(toClient, {"LEFT_ROOM", "ROOM_JOINED", "LOGIN_OK", "GAME_ABORTED", "RECONNECT_OK"})
      /\ seat' = seat
  BY <1>4, <1>5 DEF Known
<1>7. ~Has(toServer', {"SIT"}) /\ ~Has(toServer', {"LOGIN"})
  BY <1>3, <1>4 DEF Known, Never, Has
<1>8. ~Has(toClient', {"ROOM_JOINED", "LOGIN_OK", "RECONNECT_OK"})
  BY <1>1, <1>2, <1>6 DEF Has
<1>9. LobbySent'
  BY <1>7, BeforeOn DEF LobbySent, Never, Has
<1>10. LobbyDoor'
  BY <1>6 DEF LobbyDoor
<1>11. LobbyBack'
  BY <1>6, <1>8, BeforeOn DEF LobbyBack, Has
<1>12. OwnSeat(toClient, {"LEFT_ROOM"})'
  BY <1>1, <1>2, <1>6 DEF OwnSeat, Has
<1>13. Never(toClient', {"GAME_ABORTED"}, SeatLines \cup {"LOGIN_OK"})
  BY <1>1, <1>2, <1>6 DEF Never, Has, SeatLines
<1>14. LobbyLeft'
  BY <1>1, <1>2, <1>6, <1>8, <1>12, <1>13 DEF LobbyLeft, Has, OwnSeat
<1> QED BY <1>9, <1>10, <1>11, <1>14 DEF LobbyCourse

\* The user has taken a seat: the client, in the lobby, is about to be told.
LEMMA SeatedFits ==
    ASSUME QueuesOK, DoorInv, LobbyCourse, Seats
    PROVE  Joining'
<1> "Lobby" \notin SeatScreens /\ {"GAME_ABORTED", "ROOM_STATUS"} \subseteq SeatLines
    /\ {"PLAYER_DISCONNECTED", "GAME_START", "GAME_END", "ROUND_END"} \subseteq SeatLines
  BY DEF SeatScreens, SeatLines
<1>1. PICK x, y \in AnyLine : x.cmd = "ROOM_STATUS" /\ y.cmd = "ROOM_JOINED" /\ SaysBoth(x, y)
  BY DEF Seats
<1>2. /\ On(toClient') = On(toClient) \cup {x, y}
      /\ \A a, b : Before(toClient', a, b) <=> \/ Before(toClient, a, b)
                                               \/ a \in On(toClient) /\ b \in {x, y}
                                               \/ a = x /\ b = y
      /\ \A first, kinds : Has(toClient, first) /\ Leads(toClient, first, kinds)
                             => Leads(toClient', first, kinds)
  BY <1>1, SaidBoth
<1>3. PICK h \in AnyLine :
         /\ h.cmd = "SIT"
         /\ On(toServer) = On(toServer') \cup {h}
         /\ \A a, b : Before(toServer, a, b) <=> \/ Before(toServer', a, b)
                                                 \/ a = h /\ b \in On(toServer')
  BY Taken DEF Seats
<1>4. UNCHANGED <<isReconnecting, screen, boxes>>
  BY TurnTakes DEF Turns
<1>5. screen = "Lobby" /\ ~Has(boxes, {"leave", "away", "aborted"})
  BY <1>3 DEF LobbyCourse, LobbySent, Has
<1>6. ~Has(boxes, {"back"}) /\ ~Has(toClient, {"RECONNECT_OK"})
  BY <1>5 DEF LobbyCourse, LobbyBack
<1>7. ~Has(toClient, SeatLines) /\ ~Has(toClient, {"ROOM_JOINED"})
  BY <1>5 DEF LobbyCourse, LobbyLeft
<1>8. \A l \in On(toClient) : l.cmd \notin SeatLines /\ l.cmd # "ROOM_JOINED"
  BY <1>7 DEF Has
<1>9. ~Has(toServer', {"LEAVE_ROOM", "LOGIN"})
  BY <1>3 DEF LobbyCourse, LobbySent, Never, DoorInv, Has
<1>10. ~Has(boxes', {"leave", "away", "aborted", "back"})
  BY <1>4, <1>5, <1>6 DEF Has
<1>11. Has(toClient', {"ROOM_JOINED"}) /\ ~Has(toClient', {"GAME_ABORTED", "RECONNECT_OK"})
  BY <1>1, <1>2, <1>6, <1>8 DEF Has
<1>12. OwnSeat(toClient, {"PLAYER_DISCONNECTED"})'
  BY <1>1, <1>2, <1>8 DEF OwnSeat
<1>13. \A a, b : Before(toClient', a, b) => a \in On(toClient) \/ (a = x /\ b = y)
  BY <1>2, BeforeOn
<1>14. Never(toClient', {"ROOM_JOINED"}, {"ROOM_JOINED", "LEFT_ROOM", "LOGIN_OK"})
  BY <1>1, <1>8, <1>13 DEF Never
<1>15. Never(toClient', {"PLAYER_DISCONNECTED", "GAME_START", "GAME_END", "ROUND_END"},
             {"ROOM_JOINED"})
  BY <1>1, <1>8, <1>13 DEF Never
<1>16. ASSUME isReconnecting
       PROVE  Leads(toClient', {"ROOM_LIST"}, {"ROOM_JOINED", "ROOM_STATUS"})
  <2> DEFINE rooms == {"ROOM_LIST"}
             joined == {"ROOM_JOINED", "ROOM_STATUS"}
  <2>1. ~Leads(toServer, {"LIST_ROOMS"}, {"SIT"})
    BY TakenLeads DEF Seats
  <2>2. Has(toClient, rooms)
    BY <1>16, <2>1 DEF LobbyCourse, LobbyBack
  <2>3. ~Has(toClient, joined)
    BY <1>8 DEF Has
  <2> HIDE DEF rooms, joined
  <2>4. Leads(toClient, rooms, joined)
    BY <2>3, NoneLeads
  <2>5. Leads(toClient', rooms, joined)
    BY <1>2, <2>2, <2>4
  <2> QED BY <2>5 DEF rooms, joined
<1> QED
  BY <1>4, <1>5, <1>9, <1>10, <1>11, <1>12, <1>14, <1>15, <1>16 DEF Joining
-----------------------------------------------------------------------------
\* In the lobby the server lists the rooms.
LEMMA ListedFits ==
    ASSUME QueuesOK, LobbyCourse, Lists
    PROVE  LobbyCourse'
<1>1. PICK x \in AnyLine : x.cmd = "ROOM_LIST" /\ Says(x)
  BY DEF Lists
<1>2. /\ On(toClient') = On(toClient) \cup {x}
      /\ \A a, b : Before(toClient', a, b) <=> \/ Before(toClient, a, b)
                                               \/ a \in On(toClient) /\ b = x
      /\ \A first, kinds : Has(toClient, first) /\ Leads(toClient, first, kinds)
                             => Leads(toClient', first, kinds)
  BY <1>1, Said
<1>3. /\ UNCHANGED <<isReconnecting, screen, boxes, seat>>
      /\ \A l \in On(toServer') : l \in On(toServer)
      /\ \A a, b : Before(toServer', a, b) => Before(toServer, a, b)
  BY TurnTakes DEF Turns, Lists, SameRecord
<1>4. \A kinds : "ROOM_LIST" \notin kinds => (Has(toClient', kinds) <=> Has(toClient, kinds))
  BY <1>1, <1>2 DEF Has
<1>5. Has(toClient', {"ROOM_LIST"})
  BY <1>1, <1>2 DEF Has
<1>6. /\ Has(toClient', {"LEFT_ROOM"}) <=> Has(toClient, {"LEFT_ROOM"})
      /\ Has(toClient', {"LOGIN_OK"}) <=> Has(toClient, {"LOGIN_OK"})
      /\ Has(toClient', {"RECONNECT_OK"}) <=> Has(toClient, {"RECONNECT_OK"})
      /\ Has(toClient', {"ROOM_JOINED"}) <=> Has(toClient, {"ROOM_JOINED"})
      /\ Has(toClient', SeatLines) <=> Has(toClient, SeatLines)
  BY <1>4 DEF SeatLines
<1>7. LobbySent'
  BY <1>3, <1>6 DEF LobbyCourse, LobbySent, Never, Has
<1>8. LobbyDoor'
  BY <1>3, <1>5, <1>6 DEF LobbyCourse, LobbyDoor, Only
<1>9. Leads(toClient, {"ROOM_LIST"}, {"LOGIN_OK"}) => Leads(toClient', {"ROOM_LIST"}, {"LOGIN_OK"})
  <2>1. CASE Has(toClient, {"LOGIN_OK"})
    BY <1>2, <2>1, LeadsHas
  <2>2. CASE ~Has(toClient, {"LOGIN_OK"})
    BY <1>6, <2>2, NoneLeads
  <2> QED BY <2>1, <2>2
<1>10. \A a, b : Before(toClient', a, b) => b.cmd # "RECONNECT_OK"
  BY <1>1, <1>2 DEF LobbyCourse, LobbyBack
<1>11. LobbyBack'
  BY <1>3, <1>5, <1>6, <1>9, <1>10 DEF LobbyCourse, LobbyBack
<1>12. OwnSeat(toClient, {"LEFT_ROOM"})'
  BY <1>1, <1>2, <1>3 DEF LobbyCourse, LobbyLeft, OwnSeat
<1>13. Never(toClient', {"GAME_ABORTED"}, SeatLines \cup {"LOGIN_OK"})
  BY <1>1, <1>2 DEF LobbyCourse, LobbyLeft, Never, SeatLines
<1>14. LobbyLeft'
  BY <1>3, <1>6, <1>12, <1>13 DEF LobbyCourse, LobbyLeft
<1> QED BY <1>7, <1>8, <1>11, <1>14 DEF LobbyCourse

\* In the lobby the server lets the user in again.
LEMMA LetInAgainFits ==
    ASSUME QueuesOK, LobbyCourse, LetsInAgain
    PROVE  LobbyCourse'
<1>1. PICK x, y \in AnyLine : x.cmd = "LOGIN_OK" /\ y.cmd = "ROOM_LIST" /\ SaysBoth(x, y)
  BY DEF LetsInAgain
<1>2. /\ On(toClient') = On(toClient) \cup {x, y}
      /\ \A a, b : Before(toClient', a, b) <=> \/ Before(toClient, a, b)
                                               \/ a \in On(toClient) /\ b \in {x, y}
                                               \/ a = x /\ b = y
      /\ \A first, kinds : Has(toClient, first) /\ Leads(toClient, first, kinds)
                             => Leads(toClient', first, kinds)
  BY <1>1, SaidBoth
<1>3. /\ UNCHANGED <<isReconnecting, screen, boxes, seat>>
      /\ \A l \in On(toServer') : l \in On(toServer)
      /\ \A a, b : Before(toServer', a, b) => Before(toServer, a, b)
  BY TurnTakes DEF Turns, LetsInAgain
<1>4. screen \notin SeatScreens /\ ~Has(toClient, {"LEFT_ROOM"})
  BY Taken DEF LetsInAgain, LobbyCourse, LobbySent, Has
<1>5. ~Has(toClient, SeatLines) /\ ~Has(toClient, {"ROOM_JOINED"})
  BY <1>4 DEF LobbyCourse, LobbyLeft
<1>6. /\ Has(toClient', {"ROOM_LIST"}) /\ Has(toClient', {"LOGIN_OK"})
      /\ ~Has(toClient', {"LEFT_ROOM"}) /\ ~Has(toClient', SeatLines)
      /\ ~Has(toClient', {"ROOM_JOINED"})
      /\ Has(toClient', {"RECONNECT_OK"}) <=> Has(toClient, {"RECONNECT_OK"})
  BY <1>1, <1>2, <1>4, <1>5 DEF Has, SeatLines
<1>7. LobbySent'
  BY <1>3, <1>4, <1>6 DEF LobbyCourse, LobbySent, Never, Has
<1>8. LobbyDoor'
  BY <1>3, <1>6 DEF LobbyCourse, LobbyDoor, Only
<1>9. ASSUME Has(toClient, {"RECONNECT_OK"}) \/ Has(boxes, {"back"})
      PROVE  Leads(toClient', {"ROOM_LIST"}, {"LOGIN_OK"})
  <2>1. screen = "Login" /\ ~Has(boxes, {"welcome"}) /\ Leads(toClient, {"ROOM_LIST"}, {"LOGIN_OK"})
    BY <1>9 DEF LobbyCourse, LobbyBack
  <2>2. Has(toClient, {"LOGIN_OK"}) \/ Has(toClient, {"ROOM_LIST"})
    BY <2>1 DEF LobbyCourse, LobbyDoor
  <2>3. Has(toClient, {"ROOM_LIST"})
    BY <2>1, <2>2, LeadsHas
  <2> QED BY <1>2, <2>1, <2>3
<1>10. \A a, b : Before(toClient', a, b) => b.cmd # "RECONNECT_OK"
  BY <1>1, <1>2 DEF LobbyCourse, LobbyBack
<1>11. LobbyBack'
  BY <1>3, <1>6, <1>9, <1>10 DEF LobbyCourse, LobbyBack
<1>12. /\ OwnSeat(toClient, {"LEFT_ROOM"})'
       /\ Never(toClient', {"GAME_ABORTED"}, SeatLines \cup {"LOGIN_OK"})
  BY <1>6, BeforeOn DEF OwnSeat, Never, Has, SeatLines
<1>13. LobbyLeft'
  BY <1>3, <1>4, <1>6, <1>12 DEF LobbyLeft
<1> QED BY <1>7, <1>8, <1>11, <1>13 DEF LobbyCourse

\* In the lobby the server has nothing to say.
LEMMA SilentFits ==
    ASSUME QueuesOK, LobbyCourse, SaysNothing
    PROVE  LobbyCourse'
<1>1. /\ UNCHANGED <<isReconnecting, screen, boxes, seat, toClient>>
      /\ \A l \in On(toServer') : l \in On(toServer)
      /\ \A a, b : Before(toServer', a, b) => Before(toServer, a, b)
  BY TurnTakes DEF Turns, SaysNothing, SameRecord
<1>2. LobbySent'
  BY <1>1 DEF LobbyCourse, LobbySent, Never, Has
<1>3. LobbyDoor'
  BY <1>1 DEF LobbyCourse, LobbyDoor, Only
<1>4. ASSUME Has(toServer, {"LIST_ROOMS"}), Leads(toServer, {"LIST_ROOMS"}, {"SIT"})
      PROVE  Has(toServer', {"LIST_ROOMS"}) /\ Leads(toServer', {"LIST_ROOMS"}, {"SIT"})
  <2>1. PICK cmd : cmd # "LIST_ROOMS" /\ Serve(cmd)
    BY DEF SaysNothing
  <2>2. PICK h \in AnyLine : h.cmd = cmd /\ On(toServer) = On(toServer') \cup {h}
    BY <2>1, Taken
  <2>3. Has(toServer', {"LIST_ROOMS"})
    BY <1>4, <2>1, <2>2 DEF Has
  <2> DEFINE first == {"LIST_ROOMS"}
             then  == {"SIT"}
  <2>4. cmd \notin first /\ Leads(toServer, first, then)
    BY <1>4, <2>1
  <2> HIDE DEF first, then
  <2>5. Leads(toServer', first, then)
    BY <2>1, <2>4, TakenLeads
  <2> QED BY <2>3, <2>5 DEF first, then
<1>5. LobbyBack'
  BY <1>1, <1>4 DEF LobbyCourse, LobbyBack
<1>6. LobbyLeft'
  BY <1>1 DEF LobbyCourse, LobbyLeft, OwnSeat
<1> QED BY <1>2, <1>3, <1>5, <1>6 DEF LobbyCourse

\* The turns of the server, the other occupants and the timer.
LEMMA CourseTurns ==
    ASSUME ShapeInv, ShapeInv', DoorInv, WireInv, CourseInv, Turns, conn = "up", attached', ~misled'
    PROVE  CourseFits'
<1> SessionOK /\ RecordOK /\ QueuesOK /\ SessionOK' /\ RecordOK'
  BY DEF ShapeInv, ClientOK
<1>a. me'.place # "out"
  BY DEF SessionOK, RecordOK
<1>1. CASE ~attached
  <2>1. Unserved
    BY <1>1 DEF WireInv
  <2>2. LetsIn \/ LetsBack
    BY <1>1 DEF Turns, SaysNothing, LetsInAgain, Lists, Seats, LetsGo, StartsRound, EndsRound,
                CountsVote, EndsGame, TellsOfLeaver, TellsOfLoss, TellsStatus
  <2> QED BY <2>1, <2>2, LetInFits, LetBackFits
<1>2. CASE attached
  <2>1. ~misled /\ me.place # "out" /\ ~LetsIn /\ ~LetsBack
    <3>1. me.place # "out" /\ ~LetsIn /\ ~LetsBack
      BY <1>2 DEF SessionOK, RecordOK, LetsIn, LetsBack
    <3>2. ~misled
      BY <3>1 DEF Turns, SaysNothing, LetsInAgain, Lists, Seats, LetsGo, StartsRound, EndsRound,
                  CountsVote, EndsGame, TellsOfLeaver, TellsOfLoss, TellsStatus, SameRecord
    <3> QED BY <3>1, <3>2
  <2>2. CourseFits
    BY <1>2, <2>1 DEF CourseInv
  <2>3. CASE me.place = "room" /\ me'.place = "room"
    BY <1>2, <2>2, <2>3, SeatKeeps, SeatTalks DEF CourseFits
  <2>4. CASE me.place = "room" /\ me'.place # "room"
    <3>1. LetsGo
      BY <2>1, <2>4 DEF Turns, SaysNothing, LetsInAgain, Lists, Seats, StartsRound, EndsRound,
                        CountsVote, EndsGame, TellsOfLeaver, TellsOfLoss, TellsStatus, SameSession
    <3>2. ~me'.stray /\ me'.place = "lobby"
      BY <3>1 DEF LetsGo
    <3> QED BY <2>2, <2>4, <3>1, <3>2, LetGoFits DEF CourseFits
  <2>5. CASE me.place # "room" /\ me'.place = "room"
    <3>1. Seats
      BY <2>1, <2>5 DEF Turns, SaysNothing, LetsInAgain, Lists, LetsGo, StartsRound, EndsRound,
                        CountsVote, EndsGame, TellsOfLeaver, TellsOfLoss, TellsStatus, SameSession
    <3>2. me.place = "lobby" /\ ~me'.stray
      BY <3>1 DEF Seats
    <3> QED BY <2>2, <2>5, <3>1, <3>2, SeatedFits DEF CourseFits, SeatCourse
  <2>6. CASE me.place # "room" /\ me'.place # "room"
    <3>1. me.place = "lobby"
      BY <2>1, <2>6 DEF SessionOK, Session
    <3>2. SaysNothing \/ LetsInAgain \/ Lists
      BY <2>1, <2>6, <3>1 DEF Turns, Seats, LetsGo, StartsRound, SessionOK, EndsRound,
                              CountsVote, EndsGame, TellsOfLeaver, TellsOfLoss, TellsStatus
    <3>3. ~me'.stray /\ me'.place = "lobby"
      BY <2>2, <3>1, <3>2 DEF SaysNothing, LetsInAgain, Lists, SameSession, CourseFits
    <3>4. LobbyCourse
      BY <2>2, <3>1 DEF CourseFits
    <3> QED BY <3>2, <3>3, <3>4, SilentFits, LetInAgainFits, ListedFits DEF CourseFits
  <2> QED BY <2>3, <2>4, <2>5, <2>6
<1> QED BY <1>1, <1>2 DEF RecordOK
-----------------------------------------------------------------------------
(***************************************************************************)
(* Connections that are lost: what is still to be read of them.            *)
(***************************************************************************)

\* The course of the client leaves nothing else to be read.
LEMMA CourseLeaves ==
    ASSUME ShapeInv, WireInv, CourseInv, ~misled
    PROVE  LeavesFit
<1>1. CASE conn # "up"
  BY <1>1 DEF CourseInv
<1>2. CASE conn = "up" /\ ~attached
  BY <1>2, BeforeOn DEF WireInv, Unserved, Only, LeavesFit, Never
<1>3. CASE conn = "up" /\ attached
  <2>1. CourseFits /\ (me.place = "room" \/ me.place = "lobby")
    BY <1>3 DEF CourseInv, ShapeInv, SessionOK, Session, RecordOK
  <2>2. CASE me.place = "lobby"
    BY <2>1, <2>2 DEF CourseFits, LobbyCourse, LobbySent, LeavesFit
  <2>3. CASE me.place = "room"
    <3>1. SeatCourse
      BY <2>1, <2>3 DEF CourseFits
    <3>2. /\ OwnSeat(toServer, {"LEAVE_ROOM"}) /\ Never(toServer, {"LEAVE_ROOM"}, {"SIT"})
          /\ Has(toServer, {"LOGIN"}) => Never(toServer, {"SIT"}, {"LEAVE_ROOM"})
      <4>1. CASE Known
        BY <4>1, BeforeOn DEF Known, Never, Has
      <4>2. CASE Joining
        BY <4>2, BeforeOn DEF Joining, OwnSeat, Never, Has
      <4>3. CASE Resuming
        BY <4>3, BeforeOn DEF Resuming, OwnSeat, Never, Only
      <4> QED BY <3>1, <4>1, <4>2, <4>3 DEF SeatCourse
    <3> QED BY <2>3, <3>2 DEF LeavesFit
  <2> QED BY <2>1, <2>2, <2>3
<1> QED BY <1>1, <1>2, <1>3 DEF ShapeInv, RecordOK

\* What is read without moving the user leaves less.
LEMMA LeavesKept ==
    ASSUME LeavesFit, UNCHANGED seat, attached' => attached /\ me'.place = me.place,
           \A l \in On(toServer') : l \in On(toServer),
           \A a, b : Before(toServer', a, b) => Before(toServer, a, b)
    PROVE  LeavesFit'
BY DEF LeavesFit, OwnSeat, Never, Has

\* Nothing is left.
LEMMA NothingLeft ==
    ASSUME toServer' = <<>>
    PROVE  LeavesFit'
<1>1. On(toServer') = {} /\ \A a, b : ~Before(toServer', a, b)
  BY OnEmpty
<1> QED BY <1>1 DEF LeavesFit, OwnSeat, Never, Has

\* The server reads on from a connection that is lost.
LEMMA LeavesMessage ==
    ASSUME ShapeInv, WireInv, LeavesFit, handle_message
    PROVE  LeavesFit'
<1> SessionOK /\ RecordOK /\ QueuesOK
  BY DEF ShapeInv, ClientOK
<1>1. PICK h \in AnyLine :
         /\ Serve(h.cmd)
         /\ \A l : l \in On(toServer) <=> l \in On(toServer') \/ l = h
         /\ \A a, b : Before(toServer', a, b) => Before(toServer, a, b)
         /\ \A l \in On(toServer') : Before(toServer, h, l)
  <2>1. PICK cmd : Serve(cmd)
    BY ServedBy
  <2> QED BY <2>1, Taken
<1>2. \A cmd : Serve(cmd) => cmd = h.cmd
  BY <1>1 DEF Serve
<1>3. ASSUME UNCHANGED <<attached, seat>>, me'.place = me.place PROVE LeavesFit'
  BY <1>1, <1>3, LeavesKept
<1>4. CASE handle_login
  <2>1. CASE Enter /\ attached' = TRUE /\ seat' = seat
    <3>1. me'.place = "lobby" /\ h.cmd = "LOGIN"
      BY <1>2, <1>4, <2>1, EnterFields DEF handle_login
    <3>2. Never(toServer', {"SIT"}, {"LEAVE_ROOM"})
      BY <1>1, <3>1 DEF LeavesFit, Never, Has
    <3> QED BY <3>1, <3>2 DEF LeavesFit
  <2>2. CASE Resume /\ attached' = TRUE
    <3>1. ~attached /\ me.place # "out"
      BY <2>2 DEF Resume, RecordOK
    <3>2. Only(toServer', {"LOGIN"})
      BY <1>1, <3>1 DEF WireInv, Only
    <3> QED BY <3>2, BeforeOn DEF LeavesFit, OwnSeat, Never, Only
  <2>3. CASE Again /\ UNCHANGED <<attached, seat>>
    BY <1>3, <2>3, AgainFields
  <2>4. CASE Refused
    BY <1>3, <2>4 DEF Refused, recordVars
  <2> QED BY <1>4, <2>1, <2>2, <2>3, <2>4 DEF handle_login
<1>5. CASE handle_list_rooms
  BY <1>3, <1>5 DEF handle_list_rooms, recordVars
<1>6. CASE handle_sit
  <2>1. CASE attached /\ Sit /\ UNCHANGED attached
    <3>1. me.place = "lobby" /\ h.cmd = "SIT"
      BY <1>2, <1>6, <2>1, SitFields DEF handle_sit
    <3>2. ~Has(toServer', {"LEAVE_ROOM"})
      BY <1>1, <2>1, <3>1 DEF LeavesFit, Never, Has
    <3> QED BY <3>2, BeforeOn DEF LeavesFit, OwnSeat, Never, Has
  <2>2. CASE Refused
    BY <1>3, <2>2 DEF Refused, recordVars
  <2> QED BY <1>6, <2>1, <2>2 DEF handle_sit
<1>7. CASE handle_leave_room
  <2>1. CASE CanLeave
    <3>1. attached /\ me.place = "room" /\ me'.place = "lobby" /\ h.cmd = "LEAVE_ROOM"
      BY <1>2, <1>7, <2>1, RiseFields DEF handle_leave_room, CanLeave
    <3>2. ~Has(toServer', {"SIT"})
      BY <1>1, <3>1 DEF LeavesFit, Never, Has
    <3> QED BY <3>1, <3>2, BeforeOn DEF LeavesFit, Never, Has
  <2>2. CASE ~CanLeave
    BY <1>3, <1>7, <2>2 DEF handle_leave_room, Refused, recordVars
  <2> QED BY <2>1, <2>2
<1>8. CASE handle_start_game
  <2>1. UNCHANGED <<attached, seat>> /\ me'.place = me.place
    BY <1>8, BeginFields DEF handle_start_game, GameBegins, Refused, recordVars
  <2> QED BY <1>3, <2>1
<1>9. CASE handle_submit
  <2>1. UNCHANGED <<attached, seat>> /\ me'.place = me.place
    BY <1>9, AnswerFields, WinFields, OverFields DEF handle_submit, Refused, recordVars
  <2> QED BY <1>3, <2>1
<1>10. CASE handle_ready_next_round
  <2>1. UNCHANGED <<attached, seat>> /\ me'.place = me.place
    BY <1>10, VoteFields, ProceedFields, BeginFields
       DEF handle_ready_next_round, GameBegins, Refused, recordVars
  <2> QED BY <1>3, <2>1
<1> QED BY <1>4, <1>5, <1>6, <1>7, <1>8, <1>9, <1>10 DEF handle_message

\* The server does not touch the client, and whoever is misled stays so.
LEMMA ServerKeeps ==
    ASSUME ShapeInv, handle_message \/ Others
    PROVE  UNCHANGED <<conn, windowVars>> /\ (misled => misled')
<1> misled \in BOOLEAN
  BY DEF ShapeInv, RecordOK
<1>1. CASE handle_message
  <2>1. UNCHANGED <<conn, windowVars>>
    BY <1>1, ServedBy DEF Serve
  <2>2. misled => misled'
    BY <1>1
       DEF handle_message, handle_login, handle_list_rooms, handle_sit, handle_leave_room,
           handle_start_game, handle_submit, handle_ready_next_round, Refused, Misled, recordVars
  <2> QED BY <2>1, <2>2
<1>2. CASE Others
  <2>1. UNCHANGED <<conn, windowVars>>
    BY <1>2 DEF Others, OthersStart, OthersAnswer, OthersVote, GameOver, OthersLeave, OthersRemoved,
                OthersLost, StatusUpdate, Elsewhere
  <2>2. UNCHANGED misled \/ Misled(me.playing)
    BY <1>2 DEF Others, OthersStart, OthersAnswer, OthersVote, GameOver, OthersLeave, OthersRemoved,
                OthersLost, StatusUpdate
  <2> QED BY <2>1, <2>2 DEF Misled
<1> QED BY <1>1, <1>2

\* Steps of the server, the other occupants and the timer.
LEMMA CourseServer ==
    ASSUME ShapeInv, ShapeInv', DoorInv, WireInv, CourseInv, handle_message \/ Others
    PROVE  CourseInv'
<1> SessionOK /\ RecordOK
  BY DEF ShapeInv
<1>1. UNCHANGED conn /\ (misled => misled')
  BY ServerKeeps
<1>2. CASE conn = "up"
  BY <1>1, <1>2, MessageTurns, OthersTurns, CourseTurns DEF CourseInv
<1>3. ASSUME conn # "up", ~misled PROVE LeavesFit'
  <2>1. LeavesFit
    BY <1>3 DEF CourseInv
  <2>2. CASE handle_message
    BY <2>1, <2>2, LeavesMessage
  <2>3. CASE Others
    <3>1. UNCHANGED <<toServer, attached, seat>>
      BY <2>3 DEF Others, OthersStart, OthersAnswer, OthersVote, GameOver, OthersLeave,
                  OthersRemoved, OthersLost, StatusUpdate, Elsewhere
    <3>2. me'.place = me.place
      BY <2>3, BeginFields, WinFields, ProceedFields, OverFields
         DEF Others, OthersStart, OthersAnswer, OthersVote, GameOver, OthersLeave, OthersRemoved,
             OthersLost, StatusUpdate, GameBegins
    <3> QED BY <2>1, <3>1, <3>2, LeavesKept
  <2> QED BY <2>2, <2>3
<1> QED BY <1>1, <1>2, <1>3 DEF CourseInv

\* Every step.
LEMMA CourseNext ==
    ASSUME ShapeInv, ShapeInv', DoorInv, WireInv, CourseInv, DialogueNext
    PROVE  CourseInv'
<1> RecordOK /\ QueuesOK
  BY DEF ShapeInv, ClientOK
<1>1. ASSUME ~misled, UNCHANGED seat, attached' => attached /\ me'.place = me.place,
             toServer' \in Beginnings(toServer)
      PROVE  LeavesFit'
  <2>1. LeavesFit
    BY <1>1, CourseLeaves
  <2>2. /\ \A l \in On(toServer') : l \in On(toServer)
        /\ \A a, b : Before(toServer', a, b) => Before(toServer, a, b)
    BY <1>1, PrefixOn DEF QueuesOK
  <2> QED BY <1>1, <2>1, <2>2, LeavesKept
<1>2. ASSUME ~misled, UNCHANGED <<seat, toServer>>, attached' => attached /\ me'.place = me.place
      PROVE  LeavesFit'
  BY <1>2, CourseLeaves, LeavesKept
<1>3. CASE ClientStep
  <2>1. CASE conn = "up"
    BY <1>3, <2>1, CourseClient
  <2>2. CASE conn # "up" /\ conn' = "up"
    <3>1. ~attached'
      BY <1>3, <2>2, ClientConnection
    <3> QED BY <2>2, <3>1 DEF CourseInv
  <2>3. CASE conn # "up" /\ conn' # "up"
    <3>1. /\ toServer' = toServer /\ UNCHANGED <<me, seat>> /\ ~Connects
          /\ attached' = attached
      BY <1>3, <2>3, ClientConnection DEF ClientStep, RecordOK, Connects
    <3>2. ~misled' => ~misled \/ SetRight
      BY <1>3, <3>1 DEF ClientStep
    <3>3. SetRight => LeavesFit'
      BY <3>1, NothingLeft DEF SetRight
    <3>4. ~misled => LeavesFit'
      BY <1>2, <3>1
    <3> QED BY <2>3, <3>2, <3>3, <3>4 DEF CourseInv
  <2> QED BY <2>1, <2>2, <2>3
<1>4. CASE ClientRestarts
  <2>1. /\ conn' # "up" /\ toServer' \in Beginnings(toServer) /\ UNCHANGED <<me, attached, seat>>
        /\ misled' = (misled /\ toServer' # <<>>)
    BY <1>4 DEF ClientRestarts
  <2> QED BY <1>1, <2>1, NothingLeft DEF CourseInv
<1>5. CASE ConnectionBreaks
  <2>1. /\ conn' # "up" /\ toServer' \in Beginnings(toServer)
        /\ UNCHANGED <<me, attached, seat, misled>>
    BY <1>5 DEF ConnectionBreaks, recordVars
  <2> QED BY <1>1, <2>1 DEF CourseInv
<1>6. CASE ServerCloses
  BY <1>6, NothingLeft DEF ServerCloses, CourseInv
<1>7. CASE client_mark_disconnected \/ client_disconnect
  <2>1. UNCHANGED <<conn, toServer, seat, misled>> /\ attached' = FALSE
    BY <1>7 DEF client_mark_disconnected, client_disconnect, clientVars, netVars
  <2> QED BY <1>2, <2>1 DEF CourseInv
<1> QED
  BY <1>3, <1>4, <1>5, <1>6, <1>7, CourseServer DEF DialogueNext

\* A client that is not misled and the server keep together on where the user
\* is, whatever they say and however their connections end.
THEOREM CourseIsInvariant == DialogueSpec => []CourseInv
<1>1. DialogueInit => CourseInv
  BY NothingLeft, OnEmpty
     DEF DialogueInit, ClientInit, CourseInv, LeavesFit, OwnSeat, Never, Has
<1>2. ShapeInv /\ ShapeInv' /\ DoorInv /\ WireInv /\ CourseInv /\ [DialogueNext]_dialogueVars
        => CourseInv'
  <2>1. CourseInv /\ UNCHANGED dialogueVars => CourseInv'
    BY DEF CourseInv, CourseFits, SeatCourse, Known, Joining, Resuming, LobbyCourse, LobbySent,
           LobbyDoor, LobbyBack, LobbyLeft, LeavesFit, OwnSeat, dialogueVars, clientVars,
           netVars, windowVars, recordVars
  <2> QED BY <2>1, CourseNext
<1> QED
  BY <1>1, <1>2, ShapeIsInvariant, DoorIsInvariant, WireIsInvariant, PTL DEF DialogueSpec

\* Asked to leave one seat, the server takes no later one away: a client that is
\* not misled asks for the seat the user has, and what is still to be read of a
\* connection that was lost asks for no other.
THEOREM LeavesAsMeant == DialogueSpec => []LeaveAsMeant
<1>1. ShapeInv /\ WireInv /\ CourseInv => LeaveAsMeant
  <2> SUFFICES ASSUME ShapeInv, WireInv, CourseInv, toServer # <<>>,
                      Head(toServer).cmd = "LEAVE_ROOM", CanLeave, ~misled
               PROVE  ToldTag = <<seat>>
    BY DEF LeaveAsMeant
  <2>1. Head(toServer) \in On(toServer)
    <3>1. toServer \in Seq(AnyLine)
      BY DEF ShapeInv, ClientOK, QueuesOK
    <3>2. PICK p : p = Tail(toServer)
      OBVIOUS
    <3> QED BY <3>1, <3>2, TailOn
  <2>2. OwnSeat(toServer, {"LEAVE_ROOM"})
    BY CourseLeaves DEF LeavesFit, CanLeave
  <2> QED BY <2>1, <2>2 DEF OwnSeat, ToldTag
<1> QED BY <1>1, ShapeIsInvariant, WireIsInvariant, CourseIsInvariant, PTL
-----------------------------------------------------------------------------
(***************************************************************************)
(* The screen: what is still to be read puts the client in the right place *)
(* in the end, and where nothing does, it is there.                        *)
(***************************************************************************)

\* Lines that put the client in a place.
Places == {"LEFT_ROOM", "ROOM_JOINED", "GAME_START", "GAME_END", "ROUND_END"}

\* After this line no other does.
Latest(q, l) ==
    \E i \in DOMAIN q : q[i] = l /\ \A j \in DOMAIN q : i < j => q[j].cmd \notin Places

\* That is so of a line that is there.
LEMMA LatestOn ==
    ASSUME NEW q, NEW l, Latest(q, l)
    PROVE  l \in On(q)
BY DEF Latest, On

\* Several lines at the end.
LEMMA ConcatLatest ==
    ASSUME NEW q \in Seq(AnyLine), NEW w \in Seq(AnyLine), NEW p, p = q \o w
    PROVE  \A l : Latest(p, l) <=> Latest(w, l) \/ (Latest(q, l) /\ ~Has(w, Places))
<1>1. /\ Len(q) \in Nat /\ Len(w) \in Nat
      /\ DOMAIN p = 1 .. Len(q) + Len(w) /\ DOMAIN q = 1 .. Len(q) /\ DOMAIN w = 1 .. Len(w)
      /\ \A i \in 1 .. Len(q) : p[i] = q[i]
      /\ \A i \in 1 .. Len(w) : p[Len(q) + i] = w[i]
  BY ConcatProperties, LenProperties
<1>2. ASSUME NEW l, Latest(w, l) PROVE Latest(p, l)
  <2>1. PICK i \in 1 .. Len(w) : w[i] = l /\ \A j \in 1 .. Len(w) : i < j => w[j].cmd \notin Places
    BY <1>1, <1>2 DEF Latest
  <2>2. Len(q) + i \in DOMAIN p /\ p[Len(q) + i] = l
    BY <1>1, <2>1
  <2>3. ASSUME NEW j \in DOMAIN p, Len(q) + i < j PROVE p[j].cmd \notin Places
    <3>1. j - Len(q) \in 1 .. Len(w) /\ i < j - Len(q) /\ p[j] = w[j - Len(q)]
      BY <1>1, <2>3
    <3> QED BY <2>1, <3>1
  <2> QED BY <2>2, <2>3 DEF Latest
<1>3. ASSUME NEW l, Latest(q, l), ~Has(w, Places) PROVE Latest(p, l)
  <2>1. PICK i \in 1 .. Len(q) : q[i] = l /\ \A j \in 1 .. Len(q) : i < j => q[j].cmd \notin Places
    BY <1>1, <1>3 DEF Latest
  <2>2. i \in DOMAIN p /\ p[i] = l
    BY <1>1, <2>1
  <2>3. \A j \in 1 .. Len(w) : w[j].cmd \notin Places
    BY <1>1, <1>3 DEF Has, On
  <2>4. ASSUME NEW j \in DOMAIN p, i < j PROVE p[j].cmd \notin Places
    <3>1. CASE j \in 1 .. Len(q)
      BY <1>1, <2>1, <2>4, <3>1
    <3>2. CASE j \notin 1 .. Len(q)
      <4>1. j - Len(q) \in 1 .. Len(w) /\ p[j] = w[j - Len(q)]
        BY <1>1, <3>2
      <4> QED BY <2>3, <4>1
    <3> QED BY <3>1, <3>2
  <2> QED BY <2>2, <2>4 DEF Latest
<1>4. ASSUME NEW l, Latest(p, l) PROVE Latest(w, l) \/ (Latest(q, l) /\ ~Has(w, Places))
  <2>1. PICK i \in DOMAIN p : p[i] = l /\ \A j \in DOMAIN p : i < j => p[j].cmd \notin Places
    BY <1>4 DEF Latest
  <2>2. CASE i \in 1 .. Len(q)
    <3>1. Latest(q, l)
      <4>1. \A j \in 1 .. Len(q) : i < j => q[j].cmd \notin Places
        BY <1>1, <2>1
      <4> QED BY <1>1, <2>1, <2>2, <4>1 DEF Latest
    <3>2. ASSUME NEW j \in 1 .. Len(w) PROVE w[j].cmd \notin Places
      <4>1. Len(q) + j \in DOMAIN p /\ i < Len(q) + j /\ p[Len(q) + j] = w[j]
        BY <1>1, <2>2
      <4> QED BY <2>1, <4>1
    <3>3. ~Has(w, Places)
      BY <1>1, <3>2 DEF Has, On
    <3> QED BY <3>1, <3>3
  <2>3. CASE i \notin 1 .. Len(q)
    <3>1. i - Len(q) \in 1 .. Len(w) /\ w[i - Len(q)] = l
      BY <1>1, <2>1, <2>3
    <3>2. ASSUME NEW j \in 1 .. Len(w), i - Len(q) < j PROVE w[j].cmd \notin Places
      <4>1. Len(q) + j \in DOMAIN p /\ i < Len(q) + j /\ p[Len(q) + j] = w[j]
        BY <1>1, <3>2
      <4> QED BY <2>1, <4>1
    <3> QED BY <1>1, <3>1, <3>2 DEF Latest
  <2> QED BY <2>2, <2>3
<1> QED BY <1>2, <1>3, <1>4

\* Where no line stands twice, the order tells.
LEMMA LatestOrder ==
    ASSUME NEW q \in Seq(AnyLine), \A a : ~Before(q, a, a)
    PROVE  \A l : Latest(q, l) <=> l \in On(q) /\ \A b : Before(q, l, b) => b.cmd \notin Places
<1>1. Len(q) \in Nat /\ DOMAIN q = 1 .. Len(q)
  BY LenProperties
<1>2. ASSUME NEW l, Latest(q, l), NEW b, Before(q, l, b) PROVE b.cmd \notin Places
  <2>1. PICK i \in DOMAIN q : q[i] = l /\ \A j \in DOMAIN q : i < j => q[j].cmd \notin Places
    BY <1>2 DEF Latest
  <2>2. PICK k, j \in DOMAIN q : k < j /\ q[k] = l /\ q[j] = b
    BY <1>2 DEF Before
  <2>3. ~(i < k) /\ ~(k < i)
    BY <2>1, <2>2 DEF Before
  <2>4. i < j
    BY <1>1, <2>2, <2>3
  <2> QED BY <2>1, <2>2, <2>4
<1>3. ASSUME NEW l \in On(q), \A b : Before(q, l, b) => b.cmd \notin Places PROVE Latest(q, l)
  <2>1. PICK i \in DOMAIN q : q[i] = l
    BY DEF On
  <2>2. \A j \in DOMAIN q : i < j => Before(q, l, q[j])
    BY <2>1 DEF Before
  <2> QED BY <1>3, <2>1, <2>2 DEF Latest
<1> QED BY <1>2, <1>3, LatestOn

\* The first line is taken off.
LEMMA TailLatest ==
    ASSUME NEW q \in Seq(AnyLine), q # <<>>, NEW p, p = Tail(q)
    PROVE  \A l : Latest(q, l) <=> Latest(p, l) \/ (l = Head(q) /\ ~Has(p, Places))
<1>1. /\ Len(q) \in Nat /\ Len(q) >= 1
      /\ DOMAIN q = 1 .. Len(q) /\ DOMAIN p = 1 .. Len(q) - 1
      /\ \A i \in 1 .. Len(q) - 1 : p[i] = q[i + 1]
      /\ Head(q) = q[1]
  BY HeadTailProperties, LenProperties
<1>2. ASSUME NEW l, Latest(p, l) PROVE Latest(q, l)
  <2>1. PICK i \in DOMAIN p : p[i] = l /\ \A j \in DOMAIN p : i < j => p[j].cmd \notin Places
    BY <1>2 DEF Latest
  <2>2. i + 1 \in DOMAIN q /\ q[i + 1] = l
    BY <1>1, <2>1
  <2>3. ASSUME NEW j \in DOMAIN q, i + 1 < j PROVE q[j].cmd \notin Places
    <3>1. j - 1 \in DOMAIN p /\ i < j - 1 /\ p[j - 1] = q[j]
      BY <1>1, <2>3
    <3> QED BY <2>1, <3>1
  <2> QED BY <2>2, <2>3 DEF Latest
<1>3. ASSUME ~Has(p, Places) PROVE Latest(q, Head(q))
  <2>1. \A j \in DOMAIN p : p[j].cmd \notin Places
    BY <1>3 DEF Has, On
  <2>2. ASSUME NEW j \in DOMAIN q, 1 < j PROVE q[j].cmd \notin Places
    <3>1. j - 1 \in DOMAIN p /\ p[j - 1] = q[j]
      BY <1>1, <2>2
    <3> QED BY <2>1, <3>1
  <2>3. 1 \in DOMAIN q
    BY <1>1
  <2> QED BY <1>1, <2>2, <2>3 DEF Latest
<1>4. ASSUME NEW l, Latest(q, l) PROVE Latest(p, l) \/ (l = Head(q) /\ ~Has(p, Places))
  <2>1. PICK i \in DOMAIN q : q[i] = l /\ \A j \in DOMAIN q : i < j => q[j].cmd \notin Places
    BY <1>4 DEF Latest
  <2>2. CASE i = 1
    <3>1. ASSUME NEW j \in DOMAIN p PROVE p[j].cmd \notin Places
      <4>1. j + 1 \in DOMAIN q /\ i < j + 1 /\ q[j + 1] = p[j]
        BY <1>1, <2>2
      <4> QED BY <2>1, <4>1
    <3> QED BY <1>1, <2>1, <2>2, <3>1 DEF Has, On
  <2>3. CASE i # 1
    <3>1. i - 1 \in DOMAIN p /\ p[i - 1] = l
      BY <1>1, <2>1, <2>3
    <3>2. ASSUME NEW j \in DOMAIN p, i - 1 < j PROVE p[j].cmd \notin Places
      <4>1. j + 1 \in DOMAIN q /\ i < j + 1 /\ q[j + 1] = p[j]
        BY <1>1, <3>2
      <4> QED BY <2>1, <4>1
    <3> QED BY <3>1, <3>2 DEF Latest
  <2> QED BY <2>2, <2>3
<1> QED BY <1>2, <1>3, <1>4
-----------------------------------------------------------------------------
\* The vote of the seat is all that is told after the end of the round.
VoteHeard == \E w \in On(toClient) : w.cmd = "WAIT_CONTINUE" /\ Latest(toClient, w)

\* The line, if it is the last that puts the client in a place, puts it in the
\* right one.
RightLine(l) ==
    \/ l.cmd \in {"ROOM_JOINED", "GAME_END"} /\ ~me.playing
    \/ IsStart(l) /\ me.playing /\ ~me.waiting
    \/ /\ l.cmd = "ROUND_END" /\ l.tag = Now
       /\ me.playing /\ me.waiting /\ (me.voted <=> VoteHeard)

\* The screen is right, or will be by what is still to be told of the vote.
RightScreen ==
    \/ screen \in {"Room", "Result", "Login"} /\ ~me.playing
    \/ screen = "InGame" /\ shown = Now /\ me.playing /\ ~me.waiting
    \/ /\ screen = "RoundEnd" /\ shown = Now
       /\ me.playing /\ me.waiting /\ (me.voted <=> VoteHeard)
    \/ /\ screen = "Voted" /\ me.playing /\ me.waiting
       /\ me.voted \/ Has(toServer, {"READY_NEXT_ROUND"})

SightFits ==
    /\ \A l : Latest(toClient, l) /\ l.cmd \in Places => RightLine(l)
    /\ ~Has(toClient, Places) => RightScreen

\* A round that has been announced, and then ended, has ended.
StartWaits ==
    \A a, b : Before(toClient, a, b) /\ IsStart(a) /\ b.cmd = "ROUND_END" => me.waiting

\* The client is at the login screen, or the box that shows the loss goes there.
LossShown ==
    \/ screen = "Login" /\ boxes = <<>>
    \/ Len(boxes) = 1 /\ boxes[1].cmd = "lost"

SightInv ==
    /\ conn = "up" /\ attached => StartWaits
    /\ ~misled /\ conn = "none" => LossShown
    /\ ~misled /\ conn = "up" /\ attached /\ me.place = "room" => SightFits

-----------------------------------------------------------------------------
\* What is said, and the last line of it that puts the client in a place.
LEMMA GrownLatest ==
    ASSUME QueuesOK, NEW new, NEW pairs, Grows(new, pairs), \A a : <<a, a>> \notin pairs
    PROVE  \A l : Latest(toClient', l) <=>
              \/ l \in new /\ \A b : <<l, b>> \in pairs => b.cmd \notin Places
              \/ Latest(toClient, l) /\ \A x \in new : x.cmd \notin Places
<1>1. toClient \in Seq(AnyLine)
  BY DEF QueuesOK
<1>2. PICK w \in Seq(AnyLine) : /\ toClient' = toClient \o w
                                /\ On(w) = new
                                /\ \A a, b : Before(w, a, b) <=> <<a, b>> \in pairs
  BY DEF Grows
<1>3. \A l : Latest(toClient', l) <=> Latest(w, l) \/ (Latest(toClient, l) /\ ~Has(w, Places))
  BY <1>1, <1>2, ConcatLatest
<1>4. \A l : Latest(w, l) <=> l \in On(w) /\ \A b : Before(w, l, b) => b.cmd \notin Places
  BY <1>2, LatestOrder
<1>5. Has(w, Places) <=> \E x \in new : x.cmd \in Places
  BY <1>2 DEF Has
<1> QED BY <1>2, <1>3, <1>4, <1>5

\* One line more.
LEMMA SaidLatest ==
    ASSUME QueuesOK, NEW x, Says(x)
    PROVE  /\ \A l : Latest(toClient', l) <=> l = x \/ (Latest(toClient, l) /\ x.cmd \notin Places)
           /\ Has(toClient', Places) <=> Has(toClient, Places) \/ x.cmd \in Places
           /\ VoteHeard' <=> x.cmd = "WAIT_CONTINUE" \/ (VoteHeard /\ x.cmd \notin Places)
<1> DEFINE new == {x}
           pairs == {}
<1>1. Grows(new, pairs)
  BY DEF Says
<1>2. (\A l : l \in new <=> l = x) /\ (\A a, b : <<a, b>> \notin pairs)
  OBVIOUS
<1> HIDE DEF new, pairs
<1>3. \A l : Latest(toClient', l) <=>
         \/ l \in new /\ \A b : <<l, b>> \in pairs => b.cmd \notin Places
         \/ Latest(toClient, l) /\ \A z \in new : z.cmd \notin Places
  BY <1>1, <1>2, GrownLatest
<1>4. \A l : Latest(toClient', l) <=> l = x \/ (Latest(toClient, l) /\ x.cmd \notin Places)
  BY <1>2, <1>3
<1>5. On(toClient') = On(toClient) \cup {x}
  BY Said
<1>6. Has(toClient', Places) <=> Has(toClient, Places) \/ x.cmd \in Places
  BY <1>5 DEF Has
<1>7. VoteHeard' <=> x.cmd = "WAIT_CONTINUE" \/ (VoteHeard /\ x.cmd \notin Places)
  BY <1>4, <1>5, LatestOn DEF VoteHeard
<1> QED BY <1>4, <1>6, <1>7

\* Two lines more.
LEMMA SaidBothLatest ==
    ASSUME QueuesOK, NEW x, NEW y, x.cmd # y.cmd, SaysBoth(x, y)
    PROVE  /\ \A l : Latest(toClient', l) <=>
                \/ l = y \/ (l = x /\ y.cmd \notin Places)
                \/ Latest(toClient, l) /\ x.cmd \notin Places /\ y.cmd \notin Places
           /\ Has(toClient', Places) <=>
                Has(toClient, Places) \/ x.cmd \in Places \/ y.cmd \in Places
<1> DEFINE new == {x, y}
           pairs == {<<x, y>>}
<1>1. Grows(new, pairs)
  BY DEF SaysBoth
<1>2. (\A l : l \in new <=> l = x \/ l = y) /\ (\A a, b : <<a, b>> \in pairs <=> a = x /\ b = y)
  OBVIOUS
<1> HIDE DEF new, pairs
<1>3. x # y
  OBVIOUS
<1>4. \A l : Latest(toClient', l) <=>
         \/ l \in new /\ \A b : <<l, b>> \in pairs => b.cmd \notin Places
         \/ Latest(toClient, l) /\ \A z \in new : z.cmd \notin Places
  BY <1>1, <1>2, <1>3, GrownLatest
<1>5. \A l : Latest(toClient', l) <=>
         \/ l = y \/ (l = x /\ y.cmd \notin Places)
         \/ Latest(toClient, l) /\ x.cmd \notin Places /\ y.cmd \notin Places
  <2>1. \A l : (l \in new /\ \A b : <<l, b>> \in pairs => b.cmd \notin Places)
                 <=> l = y \/ (l = x /\ y.cmd \notin Places)
    BY <1>2, <1>3
  <2>2. (\A z \in new : z.cmd \notin Places) <=> x.cmd \notin Places /\ y.cmd \notin Places
    BY <1>2
  <2> QED BY <1>4, <2>1, <2>2
<1>6. On(toClient') = On(toClient) \cup {x, y}
  BY SaidBoth
<1> QED BY <1>5, <1>6 DEF Has

\* Lines that put the client in no place, and tell of no vote, change nothing
\* while the game is where it was.
LEMMA SightQuiet ==
    ASSUME QueuesOK, SightFits, UNCHANGED <<screen, shown, game>>,
           me'.playing = me.playing, me'.round = me.round, me'.waiting = me.waiting,
           me'.voted = me.voted,
           \/ UNCHANGED toClient
           \/ \E x : Says(x) /\ x.cmd \notin Places /\ x.cmd # "WAIT_CONTINUE",
           me.waiting /\ Has(toServer, {"READY_NEXT_ROUND"})
             => me.voted \/ Has(toServer', {"READY_NEXT_ROUND"})
    PROVE  SightFits'
<1>1. Now' = Now
  BY DEF Now
<1>2. /\ VoteHeard' <=> VoteHeard
      /\ \A l : Latest(toClient', l) /\ l.cmd \in Places => Latest(toClient, l)
      /\ Has(toClient', Places) <=> Has(toClient, Places)
  <2>1. CASE UNCHANGED toClient
    BY <2>1 DEF VoteHeard
  <2>2. CASE \E x : Says(x) /\ x.cmd \notin Places /\ x.cmd # "WAIT_CONTINUE"
    <3>1. PICK x : Says(x) /\ x.cmd \notin Places /\ x.cmd # "WAIT_CONTINUE"
      BY <2>2
    <3> QED BY <3>1, SaidLatest
  <2> QED BY <2>1, <2>2
<1>3. \A l : RightLine(l) => RightLine(l)'
  BY <1>1, <1>2 DEF RightLine, IsStart
<1>4. RightScreen => RightScreen'
  BY <1>1, <1>2 DEF RightScreen
<1> QED BY <1>2, <1>3, <1>4 DEF SightFits
-----------------------------------------------------------------------------
\* A round that is announced is the last that is spoken of; who hears that it
\* has ended waits.
LEMMA WaitsTurns ==
    ASSUME ShapeInv, WireInv, SightInv, LinesFit', Turns, conn = "up"
    PROVE  StartWaits'
<1> QueuesOK /\ SessionOK /\ RecordOK
  BY DEF ShapeInv, ClientOK
<1>1. CASE ~attached
  <2>1. LetsIn \/ LetsBack
    BY <1>1 DEF Turns, SaysNothing, LetsInAgain, Lists, Seats, LetsGo, StartsRound, EndsRound,
                CountsVote, EndsGame, TellsOfLeaver, TellsOfLoss, TellsStatus
  <2>2. PICK x, y \in AnyLine : y.cmd # "ROUND_END" /\ SaysBoth(x, y)
    <3>1. CASE LetsIn
      BY <3>1 DEF LetsIn
    <3>2. CASE LetsBack
      BY <3>2 DEF LetsBack
    <3> QED BY <2>1, <3>1, <3>2
  <2>3. On(toClient) = {} /\ \A a, b : ~Before(toClient, a, b)
    BY <1>1, UnservedOn DEF WireInv
  <2>4. \A a, b : Before(toClient', a, b) => b = y
    BY <2>2, <2>3, SaidBoth
  <2> QED BY <2>2, <2>4 DEF StartWaits
<1>2. CASE attached
  <2>1. StartWaits
    BY <1>2 DEF SightInv
  <2>2. ASSUME NEW x, x.cmd \in {"LEFT_ROOM", "ROOM_JOINED", "GAME_START", "GAME_END"},
               \A a \in On(toClient) : Before(toClient', a, x),
               \A a, b : Before(toClient', a, b) => a \in On(toClient) \/ a.cmd # "GAME_START"
        PROVE  StartWaits'
    <3>1. \A a \in On(toClient) : ~IsStart(a)'
      BY <2>2 DEF LinesFit, StartFits
    <3> QED BY <2>2, <3>1 DEF StartWaits, IsStart
  <2>3. ASSUME me'.waiting PROVE StartWaits'
    BY <2>3 DEF StartWaits
  <2>4. ASSUME me'.waiting = me.waiting, me'.round = me.round, UNCHANGED game,
               \A a, b : Before(toClient', a, b) => Before(toClient, a, b) \/ b.cmd # "ROUND_END"
        PROVE  StartWaits'
    <3>1. \A l : IsStart(l)' => IsStart(l)
      BY <2>4 DEF IsStart, Now
    <3> QED BY <2>1, <2>4, <3>1 DEF StartWaits
  <2>5. CASE SaysNothing
    BY <2>4, <2>5 DEF SaysNothing, SameSession, SameRecord
  <2>6. ~LetsIn /\ ~LetsBack
    BY <1>2 DEF LetsIn, LetsBack, RecordOK, SessionOK
  <2>7. CASE LetsInAgain
    <3>1. PICK x, y \in AnyLine : x.cmd = "LOGIN_OK" /\ y.cmd = "ROOM_LIST" /\ SaysBoth(x, y)
      BY <2>7 DEF LetsInAgain
    <3>2. \A a, b : Before(toClient', a, b) => Before(toClient, a, b) \/ b \in {x, y}
      BY <3>1, SaidBoth
    <3> QED BY <2>4, <2>7, <3>1, <3>2 DEF LetsInAgain
  <2>8. ASSUME NEW x, Says(x), x.cmd # "ROUND_END", SameSession, UNCHANGED game
        PROVE  StartWaits'
    <3>1. \A a, b : Before(toClient', a, b) => Before(toClient, a, b) \/ b = x
      BY <2>8, Said
    <3> QED BY <2>4, <2>8, <3>1 DEF SameSession
  <2>9. CASE Lists \/ TellsOfLoss \/ TellsStatus
    <3>1. \E x \in AnyLine : x.cmd # "ROUND_END" /\ Says(x)
      BY <2>9 DEF Lists, TellsOfLoss, TellsStatus
    <3> QED BY <2>8, <2>9, <3>1 DEF Lists, TellsOfLoss, TellsStatus, SameRecord
  <2>10. CASE Seats
    <3>1. PICK x, y \in AnyLine : x.cmd = "ROOM_STATUS" /\ y.cmd = "ROOM_JOINED" /\ SaysBoth(x, y)
      BY <2>10 DEF Seats
    <3>2. \A a, b : Before(toClient', a, b) <=> \/ Before(toClient, a, b)
                                                \/ a \in On(toClient) /\ b \in {x, y}
                                                \/ a = x /\ b = y
      BY <3>1, SaidBoth
    <3> QED BY <2>2, <3>1, <3>2, BeforeOn
  <2>11. CASE LetsGo
    <3>1. PICK x, y, z \in AnyLine :
             /\ x.cmd = "GAME_ABORTED" /\ y.cmd = "LEFT_ROOM" /\ y.tag = <<seat>>
             /\ z.cmd = "ROOM_LIST" /\ SaysThree(me.playing, x, y, z)
      BY <2>11 DEF LetsGo
    <3>2. me.playing \in BOOLEAN
      BY DEF SessionOK, Session
    <3>3. \A a, b : Before(toClient', a, b) <=>
             \/ Before(toClient, a, b)
             \/ a \in On(toClient) /\ (b \in {y, z} \/ (me.playing /\ b = x))
             \/ a = y /\ b = z
             \/ me.playing /\ a = x /\ b \in {y, z}
      BY <3>1, <3>2, SaidThree
    <3>4. /\ \A a \in On(toClient) : Before(toClient', a, y)
          /\ \A a, b : Before(toClient', a, b) => a \in On(toClient) \/ a = y \/ a = x
      BY <3>3, BeforeOn
    <3> QED BY <2>2, <3>1, <3>4
  <2>12. CASE StartsRound
    <3>1. PICK x \in AnyLine : x.cmd = "GAME_START" /\ Says(x)
      BY <2>12 DEF StartsRound
    <3>2. \A a, b : Before(toClient', a, b) <=> \/ Before(toClient, a, b)
                                                \/ a \in On(toClient) /\ b = x
      BY <3>1, Said
    <3> QED BY <2>2, <3>1, <3>2, BeforeOn
  <2>13. CASE EndsRound \/ CountsVote
    BY <2>3, <2>13 DEF EndsRound, CountsVote
  <2>14. CASE EndsGame
    <3>1. PICK x, y \in AnyLine : x.cmd = "GAME_END" /\ y.cmd = "ROOM_STATUS" /\ SaysBoth(x, y)
      BY <2>14 DEF EndsGame
    <3>2. \A a, b : Before(toClient', a, b) <=> \/ Before(toClient, a, b)
                                                \/ a \in On(toClient) /\ b \in {x, y}
                                                \/ a = x /\ b = y
      BY <3>1, SaidBoth
    <3> QED BY <2>2, <3>1, <3>2, BeforeOn
  <2>15. CASE TellsOfLeaver
    <3>1. PICK x, y \in AnyLine :
             /\ x.cmd = "GAME_ABORTED" /\ y.cmd = "ROOM_STATUS"
             /\ SaysPerhaps(me.playing, x, y) \/ Says(x)
      BY <2>15 DEF TellsOfLeaver
    <3>2. me.playing \in BOOLEAN
      BY DEF SessionOK, Session
    <3>3. \A a, b : Before(toClient', a, b) => Before(toClient, a, b) \/ b = x \/ b = y
      BY <3>1, <3>2, SaidPerhaps, Said
    <3> QED BY <2>4, <2>15, <3>1, <3>3 DEF TellsOfLeaver, SameSession
  <2> QED
    BY <2>5, <2>6, <2>7, <2>9, <2>10, <2>11, <2>12, <2>13, <2>14, <2>15 DEF Turns
<1> QED BY <1>1, <1>2 DEF RecordOK

\* A vote that is handled without effect finds the room not waiting, or the vote
\* given.
LEMMA VoteServed ==
    ASSUME ShapeInv, NEW cmd, Serve(cmd), cmd = "READY_NEXT_ROUND" => ~CanVote,
           attached, me.place = "room", ~me.stray, me.waiting, Has(toServer, {"READY_NEXT_ROUND"})
    PROVE  me.voted \/ Has(toServer', {"READY_NEXT_ROUND"})
<1>1. QueuesOK
  BY DEF ShapeInv, ClientOK
<1>2. CASE cmd = "READY_NEXT_ROUND"
  BY <1>2 DEF CanVote
<1>3. CASE cmd # "READY_NEXT_ROUND"
  <2>1. PICK h \in AnyLine : h.cmd = cmd /\ On(toServer) = On(toServer') \cup {h}
    BY <1>1, Taken
  <2> QED BY <1>3, <2>1 DEF Has
<1> QED BY <1>2, <1>3
\* The user comes back to the seat: the game is told, or none is on.
LEMMA SightBack ==
    ASSUME QueuesOK, SessionOK, Unserved, LetsBack, ~misled', me'.place = "room"
    PROVE  SightFits'
<1>1. PICK x, y \in AnyLine :
         /\ x.cmd = "RECONNECT_OK" /\ SaysBoth(x, y)
         /\ IF me.playing /\ ~me.stray THEN y.cmd = "GAME_START" /\ y.tag = Now
            ELSE y.cmd = (IF me.place = "room" THEN "ROOM_STATUS" ELSE "ROOM_LIST")
  BY DEF LetsBack
<1>2. /\ Now' = Now /\ me'.playing = me.playing /\ me'.waiting = me.waiting /\ me.place = "room"
      /\ ~me.stray /\ ~(me.playing /\ me.waiting)
  BY DEF LetsBack, SameSession, Now
<1>3. toClient = <<>> /\ On(toClient) = {} /\ screen = "Login"
  BY UnservedOn
<1>4. /\ \A l : Latest(toClient', l) => l = x \/ l = y
      /\ Has(toClient', Places) <=> y.cmd \in Places
  <2>1. x.cmd # y.cmd /\ x.cmd \notin Places
    BY <1>1 DEF Places
  <2> QED BY <1>1, <1>3, <2>1, SaidBothLatest, LatestOn DEF Has
<1>5. screen' = "Login"
  BY <1>3, TurnTakes DEF Turns
<1>6. CASE me.playing
  BY <1>1, <1>2, <1>4, <1>6 DEF SightFits, RightLine, IsStart, Places
<1>7. CASE ~me.playing
  BY <1>1, <1>2, <1>4, <1>5, <1>7 DEF SightFits, RightScreen, Places
<1> QED BY <1>6, <1>7

\* The turns of the server, the other occupants and the timer.
LEMMA SightTurns ==
    ASSUME ShapeInv, WireInv, CourseInv, SightInv, Turns, conn = "up", ~misled', me'.place = "room"
    PROVE  SightFits'
<1> QueuesOK /\ SessionOK /\ RecordOK
  BY DEF ShapeInv, ClientOK
<1> UNCHANGED <<screen, shown>>
  BY TurnTakes
<1>1. CASE ~attached
  <2>1. LetsIn \/ LetsBack
    BY <1>1 DEF Turns, SaysNothing, LetsInAgain, Lists, Seats, LetsGo, StartsRound, EndsRound,
                CountsVote, EndsGame, TellsOfLeaver, TellsOfLoss, TellsStatus
  <2> QED BY <1>1, <2>1, SightBack DEF WireInv, LetsIn
<1>2. CASE attached
  <2>1. ~LetsIn /\ ~LetsBack /\ ~LetsGo /\ ~LetsInAgain
    BY <1>2 DEF LetsIn, LetsBack, LetsGo, LetsInAgain, SessionOK, RecordOK
  <2>2. ~misled
    BY <2>1 DEF Turns, SaysNothing, Lists, Seats, StartsRound, EndsRound, CountsVote, EndsGame,
                TellsOfLeaver, TellsOfLoss, TellsStatus, SameRecord
  <2>3. me.place = "room" => SightFits /\ ~me.stray
    BY <1>2, <2>2 DEF SightInv, CourseInv, CourseFits
  <2>4. CASE SaysNothing
    <3>1. PICK cmd : Serve(cmd) /\ (cmd = "READY_NEXT_ROUND" => ~CanVote)
      BY <2>4 DEF SaysNothing
    <3>2. UNCHANGED toClient /\ SameSession /\ UNCHANGED game /\ me.place = "room"
      BY <2>4 DEF SaysNothing, SameSession, SameRecord
    <3>3. me.waiting /\ Has(toServer, {"READY_NEXT_ROUND"})
            => me.voted \/ Has(toServer', {"READY_NEXT_ROUND"})
      BY <1>2, <2>3, <3>1, <3>2, VoteServed
    <3> QED BY <2>3, <3>2, <3>3, SightQuiet DEF SameSession
  <2>5. ASSUME NEW x, Says(x), x.cmd \in {"ROOM_LIST", "ROOM_STATUS", "PLAYER_DISCONNECTED"},
               Elsewhere \/ Serve("LIST_ROOMS"), SameSession, UNCHANGED game
        PROVE  SightFits'
    <3>1. Has(toServer, {"READY_NEXT_ROUND"}) => Has(toServer', {"READY_NEXT_ROUND"})
      <4>1. CASE Elsewhere
        BY <4>1 DEF Elsewhere
      <4>2. CASE Serve("LIST_ROOMS")
        <5>1. PICK cmd : cmd = "LIST_ROOMS"
          OBVIOUS
        <5>2. PICK h \in AnyLine : h.cmd = cmd /\ On(toServer) = On(toServer') \cup {h}
          BY <4>2, <5>1, Taken
        <5> QED BY <5>1, <5>2 DEF Has
      <4> QED BY <2>5, <4>1, <4>2
    <3>2. x.cmd \notin Places /\ x.cmd # "WAIT_CONTINUE"
      BY <2>5 DEF Places
    <3>3. SightFits
      BY <2>3, <2>5 DEF SameSession
    <3> QED BY <2>5, <3>1, <3>2, <3>3, SightQuiet DEF SameSession
  <2>6. CASE Lists \/ TellsOfLoss \/ TellsStatus
    <3>1. \E x \in AnyLine :
             x.cmd \in {"ROOM_LIST", "ROOM_STATUS", "PLAYER_DISCONNECTED"} /\ Says(x)
      BY <2>6 DEF Lists, TellsOfLoss, TellsStatus
    <3> QED BY <2>5, <2>6, <3>1 DEF Lists, TellsOfLoss, TellsStatus, SameRecord
  <2>7. CASE TellsOfLeaver
    <3>1. PICK x, y \in AnyLine :
             /\ x.cmd = "GAME_ABORTED" /\ y.cmd = "ROOM_STATUS"
             /\ SaysPerhaps(me.playing, x, y) \/ (me.playing /\ Says(x))
      BY <2>7 DEF TellsOfLeaver
    <3>2. ~me.playing
      BY <2>7 DEF TellsOfLeaver
    <3>3. Says(y)
      <4>1. /\ {y} \cup (IF me.playing THEN {x} ELSE {}) = {y}
            /\ (IF me.playing THEN {<<x, y>>} ELSE {}) = {}
        BY <3>2
      <4> QED BY <3>1, <3>2, <4>1 DEF SaysPerhaps, Says
    <3> QED BY <2>5, <2>7, <3>1, <3>3 DEF TellsOfLeaver
  <2>8. CASE Seats
    <3>1. PICK x, y \in AnyLine : x.cmd = "ROOM_STATUS" /\ y.cmd = "ROOM_JOINED" /\ SaysBoth(x, y)
      BY <2>8 DEF Seats
    <3>2. x.cmd # y.cmd /\ x.cmd \notin Places /\ y.cmd \in Places
      BY <3>1 DEF Places
    <3>3. (\A l : Latest(toClient', l) => l = y) /\ Has(toClient', Places)
      BY <3>1, <3>2, SaidBothLatest
    <3> QED BY <2>8, <3>1, <3>3 DEF Seats, SightFits, RightLine
  <2>9. ASSUME NEW x, Says(x), x.cmd \in Places, (~VoteHeard)' => RightLine(x)'
        PROVE  SightFits'
    <3>1. /\ \A l : Latest(toClient', l) => l = x
          /\ Has(toClient', Places)
          /\ VoteHeard' <=> x.cmd = "WAIT_CONTINUE"
      BY <2>9, SaidLatest
    <3>2. ~VoteHeard'
      BY <2>9, <3>1 DEF Places
    <3> QED BY <2>9, <3>1, <3>2 DEF SightFits
  <2>10. CASE StartsRound
    <3>1. PICK x \in AnyLine : x.cmd = "GAME_START" /\ x.tag = <<game', me'.round>> /\ Says(x)
      BY <2>10 DEF StartsRound
    <3>2. RightLine(x)' /\ x.cmd \in Places
      BY <2>10, <3>1 DEF StartsRound, RightLine, IsStart, Now, Places
    <3> QED BY <2>9, <3>1, <3>2
  <2>11. CASE EndsRound
    <3>1. PICK x \in AnyLine : x.cmd = "ROUND_END" /\ x.tag = Now /\ Says(x)
      BY <2>11 DEF EndsRound
    <3>2. Now' = Now
      BY <2>11 DEF EndsRound, SameRecord, Now
    <3>3. ((~VoteHeard)' => RightLine(x)') /\ x.cmd \in Places
      BY <2>11, <3>1, <3>2 DEF EndsRound, RightLine, Places
    <3> QED BY <2>9, <3>1, <3>3
  <2>12. CASE CountsVote
    <3>1. PICK x \in AnyLine : x.cmd = "WAIT_CONTINUE" /\ Says(x)
      BY <2>12 DEF CountsVote
    <3>2. x.cmd \notin Places
      BY <3>1 DEF Places
    <3>3. /\ \A l : Latest(toClient', l) /\ l.cmd \in Places => Latest(toClient, l)
          /\ Has(toClient', Places) <=> Has(toClient, Places)
          /\ VoteHeard'
      BY <3>1, <3>2, SaidLatest
    <3>4. /\ SightFits /\ me.waiting /\ me'.waiting /\ me'.voted /\ me'.playing = me.playing
          /\ Now' = Now
      BY <2>3, <2>12 DEF CountsVote, SameRecord, Now
    <3>5. \A l : RightLine(l) => RightLine(l)'
      BY <3>3, <3>4 DEF RightLine
    <3>6. RightScreen => RightScreen'
      BY <3>3, <3>4 DEF RightScreen
    <3> QED BY <3>3, <3>4, <3>5, <3>6 DEF SightFits
  <2>13. CASE EndsGame
    <3>1. PICK x, y \in AnyLine : x.cmd = "GAME_END" /\ y.cmd = "ROOM_STATUS" /\ SaysBoth(x, y)
      BY <2>13 DEF EndsGame
    <3>2. x.cmd # y.cmd /\ x.cmd \in Places /\ y.cmd \notin Places
      BY <3>1 DEF Places
    <3>3. (\A l : Latest(toClient', l) => l = x \/ l = y) /\ Has(toClient', Places)
      BY <3>1, <3>2, SaidBothLatest
    <3> QED BY <2>13, <3>1, <3>2, <3>3 DEF EndsGame, SightFits, RightLine
  <2> QED
    BY <2>1, <2>4, <2>6, <2>7, <2>8, <2>10, <2>11, <2>12, <2>13 DEF Turns
<1> QED BY <1>1, <1>2 DEF RecordOK
-----------------------------------------------------------------------------
\* A line is read: what is behind it is to be right as before, and where nothing
\* is, the line put the screen right, or the screen was right before it.
LEMMA SightHead ==
    ASSUME QueuesOK, SightFits, UNCHANGED <<me, game>>, NEW cmd, Reads(cmd)
    PROVE  /\ \A l : Latest(toClient', l) /\ l.cmd \in Places => RightLine(l)'
           /\ cmd # "WAIT_CONTINUE" => (VoteHeard' <=> VoteHeard)
           /\ ~Has(toClient', Places) =>
                /\ cmd = "WAIT_CONTINUE" => VoteHeard
                /\ cmd \notin Places => RightScreen
                /\ cmd \in Places => \E h : h.cmd = cmd /\ h.tag = LineTag /\ RightLine(h)
<1>1. PICK h \in AnyLine :
         /\ h = Head(toClient) /\ h.cmd = cmd /\ h.tag = LineTag
         /\ On(toClient) = On(toClient') \cup {h}
  BY Heard
<1>2. toClient \in Seq(AnyLine) /\ toClient # <<>> /\ toClient' = Tail(toClient)
  BY DEF QueuesOK, Reads
<1>3. PICK p : p = Tail(toClient)
  OBVIOUS
<1>4. \A l : Latest(toClient, l) <=> Latest(p, l) \/ (l = Head(toClient) /\ ~Has(p, Places))
  BY <1>2, <1>3, TailLatest
<1>5. \A l : Latest(toClient, l) <=> Latest(toClient', l) \/ (l = h /\ ~Has(toClient', Places))
  BY <1>1, <1>2, <1>3, <1>4
<1>6. \A l : Latest(toClient', l) => l \in On(toClient')
  BY LatestOn
<1>7. VoteHeard <=> VoteHeard' \/ (cmd = "WAIT_CONTINUE" /\ ~Has(toClient', Places))
  BY <1>1, <1>5, <1>6 DEF VoteHeard
<1>8. Now' = Now /\ \A l : IsStart(l)' <=> IsStart(l)
  BY DEF Now, IsStart
<1>9. ASSUME NEW l, Latest(toClient', l), l.cmd \in Places PROVE RightLine(l)'
  <2>1. Has(toClient', Places)
    BY <1>6, <1>9 DEF Has
  <2>2. RightLine(l) /\ (VoteHeard' <=> VoteHeard)
    BY <1>5, <1>7, <1>9, <2>1 DEF SightFits
  <2> QED BY <1>8, <2>2 DEF RightLine
<1>10. ASSUME ~Has(toClient', Places), cmd \notin Places PROVE RightScreen
  <2>1. ~Has(toClient, Places)
    BY <1>1, <1>10 DEF Has
  <2> QED BY <2>1 DEF SightFits
<1>11. ASSUME ~Has(toClient', Places), cmd \in Places PROVE RightLine(h)
  BY <1>1, <1>5, <1>11 DEF SightFits
<1> QED BY <1>1, <1>7, <1>9, <1>10, <1>11

\* The screen stays what it was, and so does a vote on its way.
LEMMA ScreenStays ==
    ASSUME UNCHANGED <<me, game, screen, shown>>, VoteHeard' <=> VoteHeard, RightScreen,
           Has(toServer, {"READY_NEXT_ROUND"}) => Has(toServer', {"READY_NEXT_ROUND"})
    PROVE  RightScreen'
<1>1. Now' = Now
  BY DEF Now
<1> QED BY <1>1 DEF RightScreen

\* The client reads of its seat.
LEMMA SightReads ==
    ASSUME ShapeInv, SeatCourse, SightFits, conn = "up", UNCHANGED <<me, game, seat>>, HandleLine
    PROVE  SightFits'
<1> QueuesOK
  BY DEF ShapeInv, ClientOK
<1>a. Now' = Now
  BY DEF Now
<1>1. ASSUME NEW cmd, Reads(cmd), ~Has(toClient', Places) => RightScreen' PROVE SightFits'
  <2>1. \A l : Latest(toClient', l) /\ l.cmd \in Places => RightLine(l)'
    BY <1>1, SightHead
  <2> QED BY <1>1, <2>1 DEF SightFits
<1>2. ASSUME NEW cmd, Reads(cmd), cmd \notin Places, cmd # "WAIT_CONTINUE",
             ~Has(toClient', Places) => UNCHANGED <<screen, shown, toServer>>
      PROVE  SightFits'
  <2>1. ~Has(toClient', Places) => RightScreen'
    BY <1>2, SightHead, ScreenStays
  <2> QED BY <1>1, <1>2, <2>1
<1>3. CASE onLoginSuccessful \/ onReconnectSuccessful \/ onGameAborted \/ onPlayerDisconnected
  BY <1>2, <1>3 DEF onLoginSuccessful, onReconnectSuccessful, onGameAborted,
                    onPlayerDisconnected, Places
<1>4. CASE onRoomListReceived
  <2>1. Reads("ROOM_LIST")
    BY <1>4 DEF onRoomListReceived
  <2>2. ~Has(toClient', Places) => ~isReconnecting
    <3>1. Known => ~isReconnecting
      BY DEF Known
    <3>2. Joining => Has(toClient', Places)
      <4>1. Joining => Has(toClient, {"ROOM_JOINED"})
        BY DEF Joining
      <4>2. Has(toClient, {"ROOM_JOINED"}) => Has(toClient', {"ROOM_JOINED"})
        BY <2>1, HeardOff
      <4> QED BY <4>1, <4>2 DEF Has, Places
    <3>3. ~Resuming
      <4>1. \E h \in On(toClient) : h.cmd = "ROOM_LIST"
        BY <2>1, HeardOff
      <4> QED BY <4>1 DEF Resuming, Only
    <3> QED BY <3>1, <3>2, <3>3 DEF SeatCourse
  <2> QED BY <1>2, <1>4, <2>1, <2>2 DEF onRoomListReceived, Places
<1>5. CASE onRoomStatusUpdated
  <2>1. Reads("ROOM_STATUS")
    BY <1>5 DEF onRoomStatusUpdated
  <2>2. CASE ~isReconnecting
    BY <1>2, <1>5, <2>1, <2>2 DEF onRoomStatusUpdated, Places
  <2>3. CASE isReconnecting
    <3>1. ~Has(toClient', Places) => screen = "Login"
      <4>1. Known => ~isReconnecting
        BY DEF Known
      <4>2. Joining => Has(toClient', Places)
        <5>1. Joining => Has(toClient, {"ROOM_JOINED"})
          BY DEF Joining
        <5>2. Has(toClient, {"ROOM_JOINED"}) => Has(toClient', {"ROOM_JOINED"})
          BY <2>1, HeardOff
        <5> QED BY <5>1, <5>2 DEF Has, Places
      <4> QED BY <2>3, <4>1, <4>2 DEF SeatCourse, Resuming
    <3>2. ~Has(toClient', Places) => RightScreen
      BY <2>1, SightHead DEF Places
    <3>3. screen' = "Room"
      BY <1>5, <2>3 DEF onRoomStatusUpdated, Show
    <3>4. ~Has(toClient', Places) => RightScreen'
      BY <3>1, <3>2, <3>3 DEF RightScreen
    <3> QED BY <1>1, <2>1, <3>4
  <2> QED BY <2>2, <2>3
<1>6. ASSUME NEW cmd, Reads(cmd), cmd \in Places,
             \A h : h.cmd = cmd /\ h.tag = LineTag /\ RightLine(h)
                      /\ (VoteHeard' <=> VoteHeard) => RightScreen'
      PROVE  SightFits'
  <2>1. cmd # "WAIT_CONTINUE"
    BY <1>6 DEF Places
  <2>2. ~Has(toClient', Places) => RightScreen'
    BY <1>6, <2>1, SightHead
  <2> QED BY <1>1, <1>6, <2>2
<1>7. CASE onRoomJoined
  BY <1>6, <1>7 DEF onRoomJoined, Show, RightLine, IsStart, RightScreen, Places
<1>8. CASE onLeftRoom
  BY <1>6, <1>8 DEF onLeftRoom, RightLine, IsStart, Places
<1>9. CASE onGameStarted
  BY <1>a, <1>6, <1>9 DEF onGameStarted, Show, RightLine, IsStart, RightScreen, Places
<1>10. CASE onGameEnded
  BY <1>6, <1>10 DEF onGameEnded, Show, RightLine, IsStart, RightScreen, Places
<1>11. CASE onRoundEnded
  BY <1>a, <1>6, <1>11 DEF onRoundEnded, Show, RightLine, IsStart, RightScreen, Places
<1>12. CASE onWaitingForContinue
  <2>1. Reads("WAIT_CONTINUE") /\ UNCHANGED toServer
    BY <1>12 DEF onWaitingForContinue
  <2>2. ~Has(toClient', Places) => RightScreen /\ VoteHeard
    BY <2>1, SightHead DEF Places
  <2>3. IF screen = "RoundEnd" THEN screen' = "Voted" ELSE UNCHANGED <<screen, shown>>
    BY <1>12 DEF onWaitingForContinue, Show
  <2>4. ~Has(toClient', Places) => RightScreen'
    BY <1>a, <2>1, <2>2, <2>3 DEF RightScreen
  <2> QED BY <1>1, <2>1, <2>4
<1> QED
  BY <1>3, <1>4, <1>5, <1>7, <1>8, <1>9, <1>10, <1>11, <1>12
     DEF HandleLine, onDisconnected, ReadError

\* Boxes and buttons leave the client at its seat, with what it has to see there.
LEMMA SightActs ==
    ASSUME ShapeInv, SeatCourse, Attentive, SightFits, conn = "up", isConnected,
           UNCHANGED <<me, game, seat>>, CloseBox \/ UserActs(seat)
    PROVE  SightFits'
<1> QueuesOK
  BY DEF ShapeInv, ClientOK
<1>a. Now' = Now
  BY DEF Now
<1>1. ASSUME UNCHANGED toClient, ~Has(toClient, Places) /\ RightScreen => RightScreen'
      PROVE  SightFits'
  <2>1. VoteHeard' <=> VoteHeard
    BY <1>1 DEF VoteHeard
  <2>2. \A l : RightLine(l) => RightLine(l)'
    BY <1>a, <2>1 DEF RightLine, IsStart
  <2> QED BY <1>1, <2>2 DEF SightFits
<1>2. ASSUME UNCHANGED <<toClient, screen, shown>>,
             \A l \in On(toServer) : l \in On(toServer')
      PROVE  SightFits'
  <2>1. /\ VoteHeard' <=> VoteHeard
        /\ Has(toServer, {"READY_NEXT_ROUND"}) => Has(toServer', {"READY_NEXT_ROUND"})
    BY <1>2 DEF VoteHeard, Has
  <2> QED BY <1>1, <1>2, <2>1, ScreenStays
<1>3. CASE LobbyAfterBox
  <2>1. UNCHANGED toClient
    BY <1>3 DEF LobbyAfterBox
  <2>2. \E b \in On(boxes) : b.cmd \in {"welcome", "aborted"}
    BY <1>3, ShutOff DEF LobbyAfterBox
  <2>3. ~Known /\ ~Resuming
    BY <2>2 DEF Known, Resuming, Only, Has
  <2>4. Has(toClient, Places)
    BY <2>3 DEF SeatCourse, Joining, Has, Places
  <2> QED BY <1>1, <2>1, <2>4
<1>4. ~LoginAfterBox
  <2>1. LoginAfterBox => \E b \in On(boxes) : b.cmd \in {"lost"}
    BY ShutOff DEF LoginAfterBox
  <2> QED BY <2>1 DEF Attentive, Has
<1>5. CASE ReconnectingAfterBox
  BY <1>2, <1>5 DEF ReconnectingAfterBox, netVars
<1>6. CASE Answered({"away", "leave"}, "LEAVE_ROOM") \/ Answered({"submit"}, "SUBMIT")
  BY <1>2, <1>6, AnswerSent
<1>7. ASSUME NEW s, NEW cmd \in PlainKinds, Sends(s, cmd) PROVE SightFits'
  <2>1. sendCommand(cmd, NoRound) /\ UNCHANGED <<toClient, screen, shown>>
    BY <1>7 DEF Sends, windowVars
  <2> QED BY <1>2, <2>1, PlainSent
<1>8. CASE onLoginClicked \/ SitClicked \/ StartClicked
  BY <1>7, <1>8 DEF onLoginClicked, SitClicked, StartClicked, PlainKinds
<1>9. CASE onLeaveRoomClicked(seat) \/ onSubmitClicked
  BY <1>2, <1>9 DEF onLeaveRoomClicked, onSubmitClicked, netVars
<1>10. CASE onBackToRoomClicked
  <2>1. UNCHANGED toClient /\ screen = "Result" /\ screen' = "Room"
    BY <1>10 DEF onBackToRoomClicked, netVars, Clicks, Show
  <2>2. RightScreen => RightScreen'
    BY <2>1 DEF RightScreen
  <2> QED BY <1>1, <2>1, <2>2
<1>11. CASE onContinueClicked
  <2>1. /\ UNCHANGED toClient /\ screen = "RoundEnd" /\ screen' = "Voted"
        /\ sendCommand("READY_NEXT_ROUND", shown)
    BY <1>11 DEF onContinueClicked, Clicks, Show
  <2>2. /\ Line("READY_NEXT_ROUND", shown) \in AnyLine
        /\ Line("READY_NEXT_ROUND", shown).cmd = "READY_NEXT_ROUND"
        /\ Line("READY_NEXT_ROUND", shown).tag = shown
    BY MadeLine DEF RoundKinds, ShapeInv, ClientOK
  <2>3. Has(toServer', {"READY_NEXT_ROUND"})
    BY <2>1, <2>2, SentOn DEF Has
  <2>4. RightScreen => RightScreen'
    BY <2>1, <2>3 DEF RightScreen
  <2> QED BY <1>1, <2>1, <2>4
<1> QED
  BY <1>3, <1>4, <1>5, <1>6, <1>8, <1>9, <1>10, <1>11
     DEF CloseBox, UserActs, onConnectClicked
-----------------------------------------------------------------------------
\* The start of a round that is read with nothing else pending shows the round.
LEMMA SetRightSight ==
    ASSUME ShapeInv, LinesFit, StartWaits, SetRight, me.place = "room",
           conn = "up", conn' = "up", isConnected,
           UNCHANGED <<me, game, seat>>, HandleLine \/ CloseBox \/ UserActs(seat)
    PROVE  SightFits'
<1> QueuesOK /\ SessionOK
  BY DEF ShapeInv, ClientOK
<1>a. Now' = Now
  BY DEF Now
<1>b. ~CloseBox /\ (UserActs(seat) => UNCHANGED toClient)
  BY DEF SetRight, CloseBox, LobbyAfterBox, ReconnectingAfterBox, LoginAfterBox, Answered, Closes,
         UserActs, onConnectClicked, onLoginClicked, SitClicked, StartClicked, Sends,
         onLeaveRoomClicked, onSubmitClicked, onBackToRoomClicked, onContinueClicked, netVars
<1>c. HandleLine
  BY <1>b DEF SetRight, Handled
<1>1. CASE Handled("LEFT_ROOM") /\ LineTag = <<seat>>
  <2>1. Reads("LEFT_ROOM")
    BY <1>c, <1>1
       DEF HandleLine, Handled, onLoginSuccessful, onReconnectSuccessful, onRoomListReceived,
           onRoomStatusUpdated, onRoomJoined, onLeftRoom, onGameStarted, onGameEnded, onRoundEnded,
           onWaitingForContinue, onGameAborted, onPlayerDisconnected, onDisconnected, ReadError,
           Reads
  <2>2. \E h \in On(toClient) : h.cmd = "LEFT_ROOM" /\ h.tag = LineTag
    BY <2>1, HeardOff
  <2> QED BY <1>1, <2>2 DEF LinesFit, LeftFits, IsLeft
<1>2. CASE Handled("GAME_START") /\ LineTag = Now /\ ~me.waiting
  <2>1. onGameStarted
    BY <1>c, <1>2
       DEF HandleLine, Handled, onLoginSuccessful, onReconnectSuccessful, onRoomListReceived,
           onRoomStatusUpdated, onRoomJoined, onLeftRoom, onGameEnded, onRoundEnded,
           onWaitingForContinue, onGameAborted, onPlayerDisconnected, onDisconnected, ReadError,
           Reads
  <2>2. Reads("GAME_START") /\ screen' = "InGame" /\ shown' = Now
    BY <1>2, <2>1 DEF onGameStarted, Show
  <2>3. PICK h \in On(toClient) :
           /\ h.cmd = "GAME_START" /\ h.tag = LineTag
           /\ \A l \in On(toClient') : Before(toClient, h, l)
    BY <2>2, HeardOff
  <2>4. IsStart(h)
    BY <1>2, <2>3 DEF IsStart
  <2>5. \A l \in On(toClient') : l.cmd \notin Places
    BY <1>2, <2>3, <2>4 DEF LinesFit, StartFits, StartWaits, Places
  <2>6. me.playing
    <3>1. h.tag[2] >= 1 /\ h.tag[2] = me.round
      BY <1>2, <2>3 DEF LinesFit, RoundsPast, Now
    <3> QED BY <3>1 DEF SessionOK
  <2>7. RightScreen'
    BY <1>a, <1>2, <2>2, <2>6 DEF RightScreen
  <2> QED BY <2>5, <2>7, LatestOn DEF SightFits
<1> QED BY <1>1, <1>2 DEF SetRight

\* Steps of the client over a connection that is up.
LEMMA SightClient ==
    ASSUME ShapeInv, DoorInv, WireInv, CourseInv, SightInv, ClientStep, conn = "up"
    PROVE  SightInv'
<1> RecordOK /\ QueuesOK
  BY DEF ShapeInv, ClientOK
<1>1. /\ UNCHANGED <<me, game, seat>> /\ attached' = attached /\ conn' = "up" /\ isConnected
      /\ HandleLine \/ CloseBox \/ UserActs(seat)
      /\ toClient' = toClient \/ \E cmd : Reads(cmd)
      /\ misled' = (LostUnread \/ PlacedUnderBox \/ (misled /\ ~SetRight))
  BY ClientConnection DEF ClientStep, RecordOK, WireInv, Connects
<1>2. ASSUME attached PROVE StartWaits'
  <2>1. \A a, b : Before(toClient', a, b) => Before(toClient, a, b)
    BY <1>1, HeardOff
  <2>2. (\A l : IsStart(l)' <=> IsStart(l)) /\ me' = me
    BY <1>1 DEF IsStart, Now
  <2>3. StartWaits
    BY <1>2 DEF SightInv
  <2> QED BY <2>1, <2>2, <2>3 DEF StartWaits
<1>3. ASSUME ~misled', attached, me.place = "room" PROVE SightFits'
  <2>1. Attentive /\ LinesFit
    BY <1>1, <1>3 DEF Attentive, DoorInv, WireInv
  <2>2. CASE misled
    BY <1>1, <1>3, <2>1, <2>2, SetRightSight DEF SightInv
  <2>3. CASE ~misled
    <3>1. SeatCourse /\ SightFits
      BY <1>3, <2>3 DEF CourseInv, CourseFits, SightInv
    <3> QED BY <1>1, <2>1, <3>1, SightReads, SightActs
  <2> QED BY <2>2, <2>3
<1> QED BY <1>1, <1>2, <1>3 DEF SightInv

\* A loss that the client takes notice of is shown, until the box that shows it
\* is closed.
LEMMA LossClient ==
    ASSUME ShapeInv, SightInv, ClientStep, conn # "up", conn' = "none", ~misled'
    PROVE  LossShown'
<1> QueuesOK /\ (conn = "none" => toClient = <<>>)
  BY DEF ShapeInv, ClientOK
<1>1. CASE conn = "none"
  <2>1. ~HandleLine
    BY <1>1
       DEF HandleLine, onLoginSuccessful, onReconnectSuccessful, onRoomListReceived,
           onRoomStatusUpdated, onRoomJoined, onLeftRoom, onGameStarted, onGameEnded,
           onRoundEnded, onWaitingForContinue, onGameAborted, onPlayerDisconnected,
           onDisconnected, ReadError, Reads
  <2>2. LossShown
    <3>1. ~SetRight
      BY <1>1 DEF SetRight, Handled
    <3>2. ~misled
      BY <1>1, <3>1 DEF ClientStep, Connects
    <3> QED BY <1>1, <3>2 DEF SightInv
  <2>3. CASE CloseBox
    <3>1. boxes # <<>>
      BY <2>3 DEF CloseBox, LobbyAfterBox, ReconnectingAfterBox, LoginAfterBox, Answered, Closes
    <3>2. Len(boxes) = 1 /\ boxes[1].cmd = "lost"
      BY <2>2, <3>1 DEF LossShown
    <3>3. LoginAfterBox
      BY <2>3, <3>2
         DEF CloseBox, LobbyAfterBox, ReconnectingAfterBox, Answered, Closes
    <3>4. screen' = "Login" /\ boxes' = SubSeq(boxes, 1, 0)
      BY <3>2, <3>3 DEF LoginAfterBox, Show, Closes
    <3>5. boxes' = <<>>
      BY <3>4
    <3> QED BY <3>4, <3>5 DEF LossShown
  <2>4. CASE UserActs(seat)
    <3>1. boxes = <<>>
      BY <2>4 DEF UserActs, onConnectClicked, onLoginClicked, SitClicked, StartClicked, Sends,
                  onLeaveRoomClicked, onSubmitClicked, onBackToRoomClicked, onContinueClicked,
                  Clicks, UserFree
    <3>2. screen = "Login" /\ Len(boxes) = 0
      BY <2>2, <3>1 DEF LossShown
    <3>3. onLoginClicked
      BY <2>4, <3>2 DEF UserActs, onConnectClicked, SitClicked, StartClicked, Sends,
                        onLeaveRoomClicked, onSubmitClicked, onBackToRoomClicked,
                        onContinueClicked, Clicks
    <3> QED BY <3>1, <3>2, <3>3 DEF onLoginClicked, Sends, windowVars, LossShown
  <2> QED BY <2>1, <2>3, <2>4 DEF ClientStep
<1>2. CASE conn # "none"
  <2>1. conn # "rst" /\ boxes = <<>>
    BY <1>2 DEF ClientStep, LostUnread
  <2>2. onDisconnected
    BY <1>2, <2>1
       DEF ClientStep, HandleLine, onLoginSuccessful, onReconnectSuccessful, onRoomListReceived,
           onRoomStatusUpdated, onRoomJoined, onLeftRoom, onGameStarted, onGameEnded,
           onRoundEnded, onWaitingForContinue, onGameAborted, onPlayerDisconnected, ReadError,
           CloseBox, LobbyAfterBox, ReconnectingAfterBox, LoginAfterBox, Answered, Closes,
           UserActs, onConnectClicked, onLoginClicked, SitClicked, StartClicked, Sends,
           onLeaveRoomClicked, onSubmitClicked, onBackToRoomClicked, onContinueClicked, netVars
  <2>3. PICK x \in AnyLine : x = Line("lost", NoRound) /\ x.cmd = "lost"
    BY PlainLine DEF PlainKinds
  <2>4. boxes \in Seq(AnyLine) /\ Len(boxes) = 0 /\ boxes' = Append(boxes, x)
    BY <2>1, <2>2, <2>3 DEF onDisconnected, Open, QueuesOK
  <2>5. Len(boxes') = 1 /\ boxes'[1] = x
    BY <2>4, AppendProperties
  <2> QED BY <2>3, <2>5 DEF LossShown
<1> QED BY <1>1, <1>2

\* Every step.
LEMMA SightNext ==
    ASSUME ShapeInv, DoorInv, WireInv, WireInv', CourseInv, SightInv, DialogueNext
    PROVE  SightInv'
<1> QueuesOK /\ RecordOK
  BY DEF ShapeInv, ClientOK
<1>1. CASE ClientStep
  <2>1. CASE conn = "up"
    BY <1>1, <2>1, SightClient
  <2>2. CASE conn # "up"
    <3>1. conn' = "up" => ~attached'
      BY <1>1, <2>2, ClientConnection
    <3> QED BY <1>1, <2>2, <3>1, LossClient DEF SightInv
  <2> QED BY <2>1, <2>2
<1>2. CASE handle_message \/ Others
  <2>1. UNCHANGED <<conn, windowVars>> /\ (misled => misled')
    BY <1>2, ServerKeeps
  <2>2. ~misled' /\ conn' = "none" => LossShown'
    BY <2>1 DEF SightInv, LossShown, windowVars
  <2>3. ASSUME conn = "up", attached'
        PROVE  StartWaits' /\ (~misled' /\ me'.place = "room" => SightFits')
    <3>1. Turns /\ LinesFit'
      BY <1>2, <2>1, <2>3, MessageTurns, OthersTurns DEF WireInv
    <3> QED BY <2>3, <3>1, WaitsTurns, SightTurns
  <2> QED BY <2>1, <2>2, <2>3 DEF SightInv
<1>3. CASE ClientRestarts
  BY <1>3 DEF ClientRestarts, Started, SightInv, LossShown
<1>4. CASE ConnectionBreaks \/ ServerCloses
  BY <1>4 DEF ConnectionBreaks, ServerCloses, SightInv
<1>5. CASE client_mark_disconnected \/ client_disconnect
  <2>1. UNCHANGED <<conn, windowVars, misled>> /\ attached' = FALSE
    BY <1>5 DEF client_mark_disconnected, client_disconnect, clientVars, netVars
  <2> QED BY <2>1 DEF SightInv, LossShown, windowVars
<1> QED BY <1>1, <1>2, <1>3, <1>4, <1>5 DEF DialogueNext

\* A client that is not misled is on the way to the screen that belongs to where
\* the server has the user, or shows it.
THEOREM SightIsInvariant == DialogueSpec => []SightInv
<1>1. DialogueInit => SightInv
  BY DEF DialogueInit, ClientInit, SightInv, LossShown
<1>2. ShapeInv /\ DoorInv /\ WireInv /\ WireInv' /\ CourseInv /\ SightInv
        /\ [DialogueNext]_dialogueVars
        => SightInv'
  <2>1. SightInv /\ UNCHANGED dialogueVars => SightInv'
    BY DEF SightInv, StartWaits, LossShown, SightFits, RightScreen, RightLine, VoteHeard, IsStart,
           Now, dialogueVars, clientVars, netVars, windowVars, recordVars
  <2> QED BY <2>1, SightNext
<1> QED
  BY <1>1, <1>2, ShapeIsInvariant, DoorIsInvariant, WireIsInvariant, CourseIsInvariant, PTL
     DEF DialogueSpec

\* Once everything on its way has been taken in, a client that is not misled
\* shows the screen that belongs to the server's state, or the login screen
\* where the user has no session over its connection.
THEOREM ScreenIsRight == DialogueSpec => []ScreenFollows
<1>1. ShapeInv /\ WireInv /\ CourseInv /\ SightInv => ScreenFollows
  <2> SUFFICES ASSUME ShapeInv, WireInv, CourseInv, SightInv, Settled, ~misled PROVE ScreenFits
    BY DEF ScreenFollows
  <2> SessionOK /\ RecordOK
    BY DEF ShapeInv
  <2>1. /\ conn \in {"up", "none"} /\ boxes = <<>> /\ On(boxes) = {}
        /\ On(toClient) = {} /\ On(toServer) = {}
    BY OnEmpty DEF Settled
  <2>2. CASE conn = "none"
    <3>1. Len(boxes) = 0
      BY <2>1
    <3> QED BY <2>2, <3>1 DEF SightInv, LossShown, ScreenFits
  <2>3. CASE conn = "up" /\ ~attached
    BY <2>3 DEF WireInv, Unserved, ScreenFits
  <2>4. CASE conn = "up" /\ attached /\ me.place = "lobby"
    <3>1. LobbyCourse
      BY <2>4 DEF CourseInv, CourseFits
    <3>2. screen # "Login"
      BY <2>1, <3>1 DEF LobbyCourse, LobbyDoor, Has
    <3>3. screen \notin SeatScreens
      BY <2>1, <3>1 DEF LobbyCourse, LobbyLeft, Has
    <3> QED BY <2>4, <3>2, <3>3 DEF ShapeInv, ClientOK, Screens, SeatScreens, ScreenFits
  <2>5. CASE conn = "up" /\ attached /\ me.place = "room"
    <3>1. screen # "Login"
      <4>1. Known
        BY <2>1, <2>5 DEF CourseInv, CourseFits, SeatCourse, Joining, Resuming, Has
      <4> QED BY <4>1 DEF Known, SeatScreens
    <3>2. RightScreen
      BY <2>1, <2>5 DEF SightInv, SightFits, Has
    <3>3. ~VoteHeard /\ ~Has(toServer, {"READY_NEXT_ROUND"})
      BY <2>1 DEF VoteHeard, Has
    <3> QED BY <2>5, <3>1, <3>2, <3>3 DEF RightScreen, ScreenFits
  <2> QED BY <2>1, <2>2, <2>3, <2>4, <2>5 DEF SessionOK, Session, RecordOK
<1> QED
  BY <1>1, ShapeIsInvariant, WireIsInvariant, CourseIsInvariant, SightIsInvariant, PTL
=============================================================================
