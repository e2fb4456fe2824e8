------------------------------ MODULE Framing ------------------------------
(***************************************************************************)
(* client_process_data of src/server/server.c: lines cut out of the byte   *)
(* stream of one connection.  recv may return any piece of what has been   *)
(* sent; the rest of an unfinished line waits in recv_buffer.              *)
(*                                                                         *)
(* The stream is the positions 1 .. Length, of which breaks are newlines;  *)
(* what the other bytes are tells nothing apart (none is NUL: neither      *)
(* client nor protocol has one).  A line is the pair of its first and last *)
(* position.                                                               *)
(***************************************************************************)
EXTENDS Integers, FiniteSets

CONSTANTS
    BUFFER_SIZE,    \* bytes of recv_buffer and of the read, a final NUL included
    Length          \* bytes the client sends in all

ASSUME BufferAssumption == BUFFER_SIZE \in Nat /\ BUFFER_SIZE >= 2
ASSUME LengthAssumption == Length \in Nat

VARIABLES
    breaks,         \* positions of the newlines, chosen once
    first,          \* position of the first byte in recv_buffer
    next,           \* position of the next byte recv returns
    cuts,           \* where the stream goes on after the buffer was cleared
    earlier,        \* lines given to handle_message before the last read
    batch           \* lines given to it by the last read

framingVars == <<breaks, first, next, cuts, earlier, batch>>

Handled == earlier \cup batch

\* No newline between positions a and b.
Unbroken(a, b) == \A p \in a .. b : p \notin breaks

\* Where a line may begin, as seen by the code.
Begins(a) == a = 1 \/ a - 1 \in breaks \/ a \in cuts

FramingInit ==
    /\ breaks \in SUBSET (1 .. Length)
    /\ first = 1
    /\ next = 1
    /\ cuts = {}
    /\ earlier = {}
    /\ batch = {}

\* Changed copy of Start: the buffer is kept although the read does not fit, so
\* the new bytes are dropped.
StartKept(n) == first

\* Position of the first byte of the buffer once n bytes are appended: a read
\* that does not fit clears what was there.
Start(n) == IF n > BUFFER_SIZE - (next - first) - 1 THEN next ELSE first

\* Changed copies of Lines: the search goes on one byte too far behind a
\* newline, and the first line of the buffer is left out.
LinesSkewed(s, e) ==
    {l \in (s .. e) \X (s .. e) :
        /\ l[1] <= l[2] /\ l[2] + 1 <= e
        /\ Unbroken(l[1], l[2]) /\ l[2] + 1 \in breaks
        /\ l[1] = s \/ l[1] - 2 \in breaks}
LinesRest(s, e) ==
    {l \in (s .. e) \X (s .. e) :
        /\ l[1] <= l[2] /\ l[2] + 1 <= e
        /\ Unbroken(l[1], l[2]) /\ l[2] + 1 \in breaks
        /\ l[1] - 1 \in breaks}

\* The nonempty lines that end in a buffer of the bytes s .. e.
Lines(s, e) ==
    {l \in (s .. e) \X (s .. e) :
        /\ l[1] <= l[2] /\ l[2] + 1 <= e
        /\ Unbroken(l[1], l[2]) /\ l[2] + 1 \in breaks
        /\ l[1] = s \/ l[1] - 1 \in breaks}

\* Changed copy of Remaining: the buffer is moved up to the first newline only.
RemainingFirst(s, e, f) ==
    /\ f = s \/ f - 1 \in breaks
    /\ f = s => Unbroken(s, e)
    /\ f # s => Unbroken(s, f - 2)

\* Changed copy of Remaining: an unfinished line is thrown away.
RemainingNone(s, e, f) == f = e + 1

\* f is where the bytes s .. e go on after their last newline (the memmove).
Remaining(s, e, f) ==
    /\ f = s \/ f - 1 \in breaks
    /\ Unbroken(f, e)

\* One call: a piece of n bytes is read, appended and cut into lines.
client_process_data(n) ==
    LET end == next + n - 1
    IN  /\ \E f \in Start(n) .. end + 1 :
             Remaining(Start(n), end, f) /\ first' = f
        /\ next' = end + 1
        /\ cuts' = IF Start(n) = first THEN cuts ELSE cuts \cup {next}
        /\ earlier' = Handled
        /\ batch' = Lines(Start(n), end)
        /\ UNCHANGED breaks

Reads == {n \in 1 .. BUFFER_SIZE - 1 : next + n - 1 <= Length}

FramingNext == \E n \in Reads : client_process_data(n)

FramingSpec == FramingInit /\ [][FramingNext]_framingVars

-----------------------------------------------------------------------------
\* Positions in order, and no complete line waits in the buffer, which never
\* holds more than fits beside its final NUL.
FramingTypeOK ==
    /\ breaks \in SUBSET (1 .. Length)
    /\ first \in 1 .. Length + 1
    /\ next \in first .. Length + 1
    /\ cuts \in SUBSET (1 .. Length)
    /\ Handled \in SUBSET ((1 .. Length) \X (1 .. Length))
    /\ next - first <= BUFFER_SIZE - 1
    /\ Unbroken(first, next - 1)

\* What is handled is one line of the sender from its first byte to its last,
\* however the stream was cut into reads; only a cleared buffer makes it start
\* later, at the cut.
HandledWhole ==
    \A l \in Handled :
        l[1] <= l[2] /\ Unbroken(l[1], l[2]) /\ l[2] + 1 \in breaks /\ Begins(l[1])

\* Every line received to its end has been handled: none waits in the buffer for
\* the read that brings the next one, and none falls between two reads.
NoneMissed ==
    \A p \in breaks : p < next => (\E l \in Handled : l[2] = p - 1) \/ Begins(p)

\* Lines are handled once and in the order in which they were sent: those of a
\* read lie behind all earlier ones, and no two share a byte.
OnceInOrder ==
    /\ \A l \in batch, m \in earlier : m[2] < l[1]
    /\ \A l, m \in Handled : l # m => l[2] < m[1] \/ m[2] < l[1]

\* A cleared buffer costs the head of one line and nothing else: a byte that
\* was neither handled nor kept lies before a cut in the same line.
LossBounded ==
    \A q \in (1 .. first - 1) \ breaks :
        \/ \E l \in Handled : l[1] <= q /\ q <= l[2]
        \/ \E c \in cuts : q < c /\ c <= next /\ Unbroken(q, c - 1)
=============================================================================
