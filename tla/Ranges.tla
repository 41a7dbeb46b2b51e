--------------------------------- MODULE Ranges ---------------------------------
(***************************************************************************)
(* The byte ranges of large transfers (src/src/webui_transfer.cpp): those an      *)
(* upload session has received, merged as they come in any order, and those a      *)
(* download is asked for, each of them read from a header.                          *)
(***************************************************************************)
EXTENDS Naturals, FiniteSets

CONSTANTS
    Size,   \* the file's size
    Width   \* the bits of a uint64_t, cut down

RangesAssumption == {Size, Width} \subseteq Nat \ {0} /\ Size < 2 ^ Width - 1

VARIABLES
    ranges,    \* Session::ranges: start -> end, as pairs
    covered,   \* Session::covered
    received,  \* the bytes that have come
    asked,     \* the first byte a client that reads in parts has yet to ask for
    got        \* the bytes it was sent

vars == <<ranges, covered, received, asked, got>>

Numbers == 0 .. 2 ^ Width - 1
Wrap(n) == n % 2 ^ Width
Bytes(a, b) == {n \in 0 .. Size - 1 : a <= n /\ n < b}

TypeOK ==
    /\ ranges \subseteq (0 .. Size) \X (0 .. Size) /\ covered \in 0 .. Size
    /\ received \subseteq 0 .. Size - 1 /\ got \subseteq 0 .. Size - 1 /\ asked \in 0 .. Size

Init == ranges = {} /\ covered = 0 /\ received = {} /\ asked = 0 /\ got = {}

--------------------------------------------------------------------------------
(* Session::add. *)

Length(r) == r[2] - r[1]
Least(a, b) == IF a < b THEN a ELSE b
Largest(S) == CHOOSE n \in S : \A m \in S : m <= n
Sum[S \in SUBSET ((0 .. Size) \X (0 .. Size))] ==
    IF S = {} THEN 0 ELSE LET r == CHOOSE x \in S : TRUE IN Length(r) + Sum[S \ {r}]

\* The range that starts before this one and reaches it, if any,
Previous(s) == LET before == {r \in ranges : r[1] <= s} IN
               {r \in before : r[1] = Largest({q[1] : q \in before}) /\ r[2] >= s}
\* then those that start inside what the two make together, in order: each may reach the next.
Joined[s \in 0 .. Size, e \in 0 .. Size, rest \in SUBSET ranges] ==
    LET reached == {r \in rest : s <= r[1] /\ r[1] <= e} IN
    IF reached = {} THEN {}
    ELSE LET first == CHOOSE r \in reached : \A q \in reached : r[1] <= q[1] IN
         {first} \cup Joined[s, Largest({e, first[2]}), rest \ {first}]
MergedOne(s, e, rest) == {r \in rest : s <= r[1] /\ r[1] <= e /\ \A q \in rest : r[1] <= q[1] \/ q[1] < s}   \* mutant
Merged(s, e, rest) == Joined[s, e, rest]

Add(s, e) ==
    LET prev == Previous(s)
        from == IF prev = {} THEN s ELSE (CHOOSE r \in prev : TRUE)[1]
        upto == Largest({e} \cup {r[2] : r \in prev})
        gone == prev \cup Merged(from, upto, ranges \ prev)
        to   == Largest({upto} \cup {r[2] : r \in gone})
    IN
    /\ s < e
    /\ ranges' = (ranges \ gone) \cup {<<from, to>>}
    /\ covered' = covered - Sum[gone] + (to - from)
    /\ received' = received \cup Bytes(s, e)
    /\ UNCHANGED <<asked, got>>

--------------------------------------------------------------------------------
(* parse_range, and the client that resumes a download, or reads it in parts. *)

NoRange == <<0, 0>>
\* bytes=a-b: the last byte, one past it in the width of the integer.
UptoLast(last) == Least(last, Size)                                       \* mutant
Upto(last) == Least(Wrap(last + 1), Size)
FromTo(a, last) == IF a >= Size \/ last < a THEN NoRange ELSE <<a, Upto(last)>>
\* bytes=a-
From(a) == IF a >= Size THEN NoRange ELSE <<a, Size>>
\* bytes=-n: the last n bytes.
Last(n) == IF n = 0 THEN NoRange ELSE <<IF n >= Size THEN 0 ELSE Size - n, Size>>

Serve(r, upto) ==
    /\ got' = got \cup Bytes(r[1], r[2]) /\ asked' = upto
    /\ UNCHANGED <<ranges, covered, received>>
\* The next part, of any length, which may end past the file; or the rest, either way.
AskPart == \E last \in Numbers \ {2 ^ Width - 1} :
               asked < Size /\ last >= asked /\ Serve(FromTo(asked, last), Least(last + 1, Size))
AskRest == asked < Size /\ (Serve(From(asked), Size) \/ Serve(Last(Size - asked), Size))

Next == (\E s, e \in 0 .. Size : Add(s, e)) \/ AskPart \/ AskRest

Spec == Init /\ [][Next]_vars

--------------------------------------------------------------------------------
(* Properties *)

\* A session is whole exactly when every byte of it has come: each is counted once, however
\* the parts overlap, touch or repeat (src/src/webui_transfer.h:132).
EachByteOnce ==
    /\ covered = Cardinality(received)
    /\ \A r, q \in ranges : r # q => r[2] < q[1] \/ q[2] < r[1]
    /\ received = UNION {Bytes(r[1], r[2]) : r \in ranges}

\* A download read in parts, or resumed, misses no byte (src/src/webui_ps5.cpp:1081).
PartsMakeTheFile == got = Bytes(0, asked)

\* What a header names is inside the file, and is not empty (src/src/webui_transfer.h:182).
RangesAreInside ==
    \A a, last \in Numbers : LET r == FromTo(a, last) IN r # NoRange => r[1] < r[2] /\ r[2] <= Size
================================================================================
