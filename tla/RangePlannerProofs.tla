-------------------------- MODULE RangePlannerProofs --------------------------
(***************************************************************************)
(* The planning loops of the validity proposer, on lists of requests of    *)
(* any length: they return the sets RangePlanning states them as, plan no  *)
(* block twice and forget none but those of one short last piece.  So what *)
(* is proven of the proposer with the sets is proven of the loops.         *)
(***************************************************************************)
EXTENDS RangePlanner, NaturalLemmas, SequenceTheorems

-----------------------------------------------------------------------------
\* The sorted list.

\* What the planning loops may rely on.
Listed(l, from) ==
    /\ l \in Seq([start : Nat, end : Nat])
    /\ \A i \in DOMAIN l : from <= l[i].start /\ l[i].start < l[i].end
    /\ \A i, j \in DOMAIN l : i < j => l[i].start <= l[j].start

\* The lists of requests are such lists.
LEMMA ListsAreListed ==
    ASSUME NEW from, NEW l \in Lists(from)
    PROVE  Listed(l, from)
<1> DEFINE Rs == {r \in Row : from <= r.start /\ r.start < r.end}
<1>1. l \in UNION {[1 .. m -> Rs] : m \in 0 .. MaxRanges}
    BY DEF Lists, BoundedSeq, SeqOf
<1>2. PICK m \in 0 .. MaxRanges : l \in [1 .. m -> Rs]
    BY <1>1
<1>3. m \in Nat /\ DOMAIN l = 1 .. m
    BY <1>2, PlannerAssumption
<1>4. \A r \in Rs : r \in [start : Nat, end : Nat] /\ from <= r.start /\ r.start < r.end
    BY PlannerAssumption DEF Row
<1>5. \A i \in 1 .. m : l[i] \in Rs
    BY <1>2
<1> HIDE DEF Rs
<1>6. l \in [1 .. m -> [start : Nat, end : Nat]]
    BY <1>2, <1>4, <1>5
<1>7. l \in Seq([start : Nat, end : Nat])
    <2> DEFINE B == [start : Nat, end : Nat]
    <2> HIDE DEF B
    <2>1. l \in UNION {[1 .. n -> B] : n \in Nat}
        BY <1>3, <1>6 DEF B
    <2>q. QED
        BY <2>1, SeqDef, Zenon DEF B
<1>q. QED
    BY <1>3, <1>4, <1>5, <1>7 DEF Lists, Listed

\* The requests before the n-th.
Seen(l, n) == {l[i] : i \in 1 .. n - 1}

\* One more request is seen; those seen before begin no later.
LEMMA SeenGrows ==
    ASSUME NEW from, NEW l, Listed(l, from), NEW n \in 1 .. Len(l)
    PROVE  /\ Seen(l, n + 1) = Seen(l, n) \cup {l[n]}
           /\ l[n] \in [start : Nat, end : Nat] /\ l[n].start < l[n].end /\ from <= l[n].start
           /\ \A q \in Seen(l, n) : /\ q \in [start : Nat, end : Nat] /\ q.start < q.end
                                    /\ q.start <= l[n].start
<1>1. DOMAIN l = 1 .. Len(l) /\ Len(l) \in Nat
    BY DEF Listed
<1>2. 1 .. (n + 1) - 1 = (1 .. n - 1) \cup {n}
    BY <1>1
<1>3. \A i \in 1 .. n - 1 : i \in DOMAIN l /\ i < n
    BY <1>1
<1>4. Seen(l, n + 1) = Seen(l, n) \cup {l[n]}
    BY <1>2 DEF Seen
<1>5. \A i \in DOMAIN l : l[i] \in [start : Nat, end : Nat] /\ l[i].start < l[i].end
    BY LenProperties DEF Listed
<1>6. n \in DOMAIN l /\ from <= l[n].start
    BY <1>1 DEF Listed
<1>7. \A i \in 1 .. n - 1 : l[i].start <= l[n].start
    BY <1>3, <1>6 DEF Listed
<1>q. QED
    BY <1>3, <1>4, <1>5, <1>6, <1>7 DEF Seen

\* At first nothing is seen, at last the whole list.
LEMMA SeenAll ==
    ASSUME NEW from, NEW l, Listed(l, from)
    PROVE  Seen(l, 1) = {} /\ Seen(l, Len(l) + 1) = ToSet(l)
<1>1. DOMAIN l = 1 .. Len(l) /\ Len(l) \in Nat
    BY DEF Listed
<1>q. QED
    BY <1>1 DEF Seen, ToSet

-----------------------------------------------------------------------------
\* The gaps.

\* The gaps in front of one of the requests S.
GapsBefore(from, S) ==
    {g \in [start : {from} \cup Ends(S), end : Starts(S)] :
        g.start < g.end /\ Reached(g.start, from, {q \in S : q.start < g.end})}

Blocks == [start : Nat, end : Nat]

\* The cursor after one more request.
LEMMA ReachedNext ==
    ASSUME NEW from \in Nat, NEW S, S \subseteq Blocks, NEW c, Reached(c, from, S),
           NEW r \in Blocks
    PROVE  /\ c \in Nat
           /\ Reached(IF r.end > c THEN r.end ELSE c, from, S \cup {r})
<1>1. Ends(S \cup {r}) = Ends(S) \cup {r.end} /\ Ends(S) \subseteq Nat
    BY DEF Ends, Blocks
<1>2. r.end \in Nat /\ c \in Nat
    BY <1>1 DEF Reached, Blocks
<1>q. QED
    BY <1>1, <1>2 DEF Reached

\* The cursor of find_gaps has one value.
LEMMA ReachedOnce ==
    ASSUME NEW from \in Nat, NEW S, S \subseteq Blocks, NEW c, NEW d,
           Reached(c, from, S), Reached(d, from, S)
    PROVE  c = d
<1>1. Ends(S) \subseteq Nat
    BY DEF Ends, Blocks
<1>2. c \in Nat /\ d \in Nat /\ c <= d /\ d <= c
    BY <1>1 DEF Reached
<1>q. QED
    BY <1>2

\* One more request, behind the others: a gap in front of it if the cursor has not come so far.
LEMMA GapsBeforeNext ==
    ASSUME NEW from \in Nat, NEW S, S \subseteq Blocks, NEW c, Reached(c, from, S),
           \A q \in S : q.start < q.end,
           NEW r \in Blocks, \A q \in S : q.start <= r.start, r.start < r.end
    PROVE  GapsBefore(from, S \cup {r}) =
             GapsBefore(from, S) \cup (IF c < r.start THEN {Span(c, r.start)} ELSE {})
<1> DEFINE T == S \cup {r}
           Below(Q, e) == {q \in Q : q.start < e}
           new == IF c < r.start THEN {Span(c, r.start)} ELSE {}
<1>1. /\ Starts(T) = Starts(S) \cup {r.start} /\ Ends(T) = Ends(S) \cup {r.end}
      /\ Starts(S) \subseteq Nat /\ Ends(S) \subseteq Nat /\ c \in Nat
      /\ r.start \in Nat /\ r.end \in Nat
    BY ReachedNext DEF Starts, Ends, Blocks
<1>2. \A e \in Starts(S) : e <= r.start
    BY DEF Starts
<1>3. ASSUME NEW e \in Starts(T) PROVE Below(T, e) = Below(S, e)
    <2>1. e <= r.start /\ e \in Nat
        BY <1>1, <1>2, <1>3
    <2>2. ~(r.start < e)
        BY <1>1, <2>1
    <2>q. QED
        BY <2>2
<1>4. Below(S, r.start) = S \/ r.start \in Starts(S)
    <2>1. ASSUME r.start \notin Starts(S), NEW q \in S PROVE q.start < r.start
        <3>1. q.start # r.start /\ q.start <= r.start /\ q.start \in Nat
            BY <2>1 DEF Starts, Blocks
        <3>q. QED
            BY <1>1, <3>1
    <2>q. QED
        BY <2>1
<1>5. ASSUME r.start \in Starts(S) PROVE new = {}
    <2>1. PICK q \in S : q.start = r.start
        BY <1>5 DEF Starts
    <2>2. q.end \in Ends(S)
        BY DEF Ends
    <2>3. q.end <= c /\ q.end \in Nat /\ q.start < q.end
        BY <1>1, <2>2 DEF Reached
    <2>4. ~(c < r.start)
        BY <1>1, <2>1, <2>3
    <2>q. QED
        BY <2>4
<1>6. ASSUME NEW g \in GapsBefore(from, T) PROVE g \in GapsBefore(from, S) \cup new
    <2>0. /\ g \in [start : {from} \cup Ends(T), end : Starts(T)]
          /\ g.start < g.end /\ Reached(g.start, from, Below(T, g.end))
        BY <1>6 DEF GapsBefore
    <2>1. Reached(g.start, from, Below(S, g.end))
        BY <1>3, <2>0
    <2>2. g.start \in {from} \cup Ends(S)
        BY <2>1 DEF Reached, Ends
    <2>3. CASE g.end \in Starts(S)
        BY <2>0, <2>1, <2>2, <2>3 DEF GapsBefore
    <2>4. CASE g.end \notin Starts(S)
        <3>1. g.end = r.start
            BY <1>1, <2>0, <2>4
        <3>2. g.start = c
            BY <1>4, <2>1, <2>4, <3>1, ReachedOnce
        <3>q. QED
            BY <2>0, <3>1, <3>2 DEF Span
    <2>q. QED
        BY <2>3, <2>4
<1>7. ASSUME NEW g \in GapsBefore(from, S) PROVE g \in GapsBefore(from, T)
    BY <1>1, <1>3, <1>7 DEF GapsBefore
<1>8. ASSUME c < r.start PROVE Span(c, r.start) \in GapsBefore(from, T)
    <2>1. Below(S, r.start) = S
        BY <1>4, <1>5, <1>8
    <2>2. Reached(c, from, Below(T, r.start))
        BY <1>1, <1>3, <2>1
    <2>3. c \in {from} \cup Ends(T)
        BY <1>1 DEF Reached
    <2>q. QED
        BY <1>1, <1>8, <2>2, <2>3 DEF GapsBefore, Span
<1>q. QED
    BY <1>6, <1>7, <1>8

\* All gaps: those before a request and the one that is left.
LEMMA AllGaps ==
    ASSUME NEW from \in Nat, NEW e \in Nat, NEW S, S \subseteq Blocks, NEW c, Reached(c, from, S)
    PROVE  FindGaps(from, e, S) =
             GapsBefore(from, S) \cup (IF c < e THEN {Span(c, e)} ELSE {})
<1>1. ASSUME NEW g \in FindGaps(from, e, S), ~(g \in GapsBefore(from, S))
      PROVE  c < e /\ g = Span(c, e)
    <2>0. g \in [start : {from} \cup Ends(S), end : {e} \cup Starts(S)] /\ g.start < g.end
        BY DEF FindGaps
    <2>1. g.end = e /\ Reached(g.start, from, S)
        BY <1>1 DEF FindGaps, GapsBefore
    <2>2. g.start = c
        BY <2>1, ReachedOnce
    <2>q. QED
        BY <2>0, <2>1, <2>2 DEF Span
<1>2. c < e => Span(c, e) \in FindGaps(from, e, S)
    BY DEF FindGaps, Span, Reached
<1>3. GapsBefore(from, S) \subseteq FindGaps(from, e, S)
    BY DEF FindGaps, GapsBefore
<1>q. QED
    BY <1>1, <1>2, <1>3

-----------------------------------------------------------------------------
\* Lists of gaps and of planned ranges.

\* Ranges one after another, none of them empty.
Laid(s) ==
    /\ s \in Seq(Blocks)
    /\ \A i \in DOMAIN s : s[i].start < s[i].end
    /\ \A i, j \in DOMAIN s : i < j => s[i].end <= s[j].start

\* A range behind the others keeps them in order.
LEMMA LaidNext ==
    ASSUME NEW s, Laid(s), NEW r \in Blocks, r.start < r.end, \A q \in ToSet(s) : q.end <= r.start
    PROVE  Laid(Append(s, r)) /\ ToSet(Append(s, r)) = ToSet(s) \cup {r}
<1> DEFINE t == Append(s, r)
<1>1. /\ s \in Seq(Blocks) /\ Len(s) \in Nat /\ DOMAIN s = 1 .. Len(s)
      /\ \A i \in 1 .. Len(s) : s[i] \in Blocks
    BY LenProperties DEF Laid
<1>2. /\ t \in Seq(Blocks) /\ Len(t) = Len(s) + 1 /\ DOMAIN t = 1 .. Len(s) + 1
      /\ \A i \in 1 .. Len(s) : t[i] = s[i]
      /\ t[Len(s) + 1] = r
    BY <1>1, AppendProperties, LenProperties
<1> HIDE DEF t
<1>3. \A i \in 1 .. Len(s) + 1 : i \in 1 .. Len(s) \/ i = Len(s) + 1
    BY <1>1
<1>4. ToSet(t) = ToSet(s) \cup {r}
    <2>1. Len(s) + 1 \in 1 .. Len(s) + 1 /\ 1 .. Len(s) \subseteq 1 .. Len(s) + 1
        BY <1>1
    <2>q. QED
        BY <1>1, <1>2, <1>3, <2>1 DEF ToSet
<1>5. \A i \in DOMAIN t : t[i].start < t[i].end
    BY <1>1, <1>2, <1>3 DEF Laid
<1>6. ASSUME NEW i \in DOMAIN t, NEW j \in DOMAIN t, i < j PROVE t[i].end <= t[j].start
    <2>1. i \in 1 .. Len(s)
        BY <1>1, <1>2, <1>6
    <2>2. s[i] \in ToSet(s)
        BY <1>1, <2>1 DEF ToSet
    <2>3. j \in 1 .. Len(s) \/ j = Len(s) + 1
        BY <1>2, <1>3
    <2>q. QED
        BY <1>1, <1>2, <1>6, <2>1, <2>2, <2>3 DEF Laid
<1>q. QED
    BY <1>2, <1>4, <1>5, <1>6 DEF Laid, t

\* Without the last one.
LEMMA LaidFront ==
    ASSUME NEW s, Laid(s), s # <<>>
    PROVE  /\ Last(s) \in ToSet(s) /\ Last(s) \in Blocks /\ Last(s).start < Last(s).end
           /\ Laid(Front(s)) /\ ToSet(Front(s)) = ToSet(s) \ {Last(s)}
           /\ \A q \in ToSet(Front(s)) : q \in Blocks /\ q.start < q.end /\ q.end <= Last(s).start
<1> DEFINE n == Len(s)
           t == Front(s)
<1>1. /\ s \in Seq(Blocks) /\ n \in Nat /\ n # 0 /\ DOMAIN s = 1 .. n
      /\ \A i \in 1 .. n : s[i] \in Blocks
    BY LenProperties, EmptySeq DEF Laid
<1>2. n - 1 \in Nat /\ n \in 1 .. n /\ 1 .. n - 1 \subseteq 1 .. n
      /\ (\A i \in 1 .. n : i \in 1 .. n - 1 \/ i = n) /\ (\A i \in 1 .. n - 1 : i < n)
    <2> HIDE DEF n
    <2>q. QED
        BY <1>1
<1>3. t \in Seq(Blocks) /\ Len(t) = n - 1 /\ DOMAIN t = 1 .. n - 1
      /\ \A i \in 1 .. n - 1 : t[i] = s[i]
    <2>1. t = SubSeq(s, 1, n - 1)
        BY DEF Front
    <2> HIDE DEF t
    <2>2. /\ t \in Seq(Blocks) /\ Len(t) = n - 1
          /\ \A i \in 1 .. n - 1 : t[i] = s[i]
        <3>1. 1 \in 1 .. n + 1 /\ n - 1 \in 0 .. n
            <4> HIDE DEF n
            <4>q. QED
                BY <1>1, <1>2
        <3>2. /\ SubSeq(s, 1, n - 1) \in Seq(Blocks)
              /\ Len(SubSeq(s, 1, n - 1)) = IF 1 <= n - 1 THEN (n - 1) - 1 + 1 ELSE 0
              /\ \A i \in 1 .. (n - 1) - 1 + 1 : SubSeq(s, 1, n - 1)[i] = s[1 + i - 1]
            BY <1>1, <3>1, SubSeqProperties
        <3> HIDE DEF n
        <3>q. QED
            BY <1>1, <1>2, <2>1, <3>2
    <2>q. QED
        BY <2>2, LenProperties
<1>4. Last(s) = s[n]
    BY DEF Last
<1> HIDE DEF n, t
<1>5. \A i \in 1 .. n - 1 : s[i].end <= s[n].start
    BY <1>1, <1>2 DEF Laid
<1>6. \A i \in 1 .. n : s[i].start < s[i].end
    BY <1>1 DEF Laid
<1>7. \A i \in 1 .. n - 1 : s[i] # s[n]
    <2> SUFFICES ASSUME NEW i \in 1 .. n - 1, s[i] = s[n] PROVE FALSE
        OBVIOUS
    <2>1. s[n].end <= s[n].start /\ s[n].start < s[n].end
        BY <1>2, <1>5, <1>6
    <2>2. s[n].end \in Nat /\ s[n].start \in Nat
        BY <1>1, <1>2 DEF Blocks
    <2>q. QED
        BY <2>1, <2>2
<1>8. ToSet(t) = {s[i] : i \in 1 .. n - 1}
    BY <1>3 DEF ToSet
<1>9. ToSet(s) = {s[i] : i \in 1 .. n}
    BY <1>1 DEF ToSet
<1>10. Laid(t)
    BY <1>1, <1>2, <1>3 DEF Laid
<1>11. ToSet(t) = ToSet(s) \ {s[n]}
    BY <1>2, <1>7, <1>8, <1>9
<1>q. QED
    BY <1>1, <1>2, <1>4, <1>5, <1>6, <1>8, <1>9, <1>10, <1>11 DEF t

\* The lists begin empty.
LEMMA NothingLaid == Laid(<<>>) /\ ToSet(<<>>) = {}
BY EmptySeq DEF Laid, ToSet

-----------------------------------------------------------------------------
\* The pieces of a gap.

\* The n-th piece, which begins n intervals into the gap.
Piece(g, n) ==
    Span(g.start + n * Interval,
         IF g.start + (n + 1) * Interval <= g.end THEN g.start + (n + 1) * Interval ELSE g.end)

\* A piece is not empty, lies in its gap and ends an interval further or with the gap.
LEMMA PieceBounds ==
    ASSUME NEW g \in Blocks, NEW n \in Nat, g.start + n * Interval < g.end
    PROVE  /\ Piece(g, n) \in Blocks /\ Piece(g, n).start = g.start + n * Interval
           /\ g.start <= Piece(g, n).start /\ Piece(g, n).start < Piece(g, n).end
           /\ Piece(g, n).end <= g.end
           /\ Piece(g, n).end = g.end \/ Piece(g, n).end = g.start + (n + 1) * Interval
           /\ Piece(g, n).end <= g.start + (n + 1) * Interval
           /\ g.start + (n + 1) * Interval = (g.start + n * Interval) + Interval
<1>1. n * Interval \in Nat /\ (n + 1) * Interval = n * Interval + Interval /\ Interval \in Nat \ {0}
    BY MultiplesOrdered, PlannerAssumption
<1>2. g.start \in Nat /\ g.end \in Nat
    BY DEF Blocks
<1>3. PICK low \in Nat : low = n * Interval
    BY <1>1
<1>4. (n + 1) * Interval = low + Interval
    BY <1>1, <1>3
<1>5. Piece(g, n) = Span(g.start + low,
                         IF g.start + (low + Interval) <= g.end
                         THEN g.start + (low + Interval) ELSE g.end)
    BY <1>3, <1>4 DEF Piece
<1>6. g.start + low < g.end
    BY <1>3
<1>q. QED
    BY <1>1, <1>2, <1>3, <1>4, <1>5, <1>6 DEF Span, Blocks

\* The set formulation cuts a gap into exactly these pieces.
LEMMA ChunksArePieces ==
    ASSUME NEW g \in Blocks
    PROVE  Chunks(g, Interval) = {Piece(g, n) : n \in {m \in Nat : g.start + m * Interval < g.end}}
<1>1. g.start \in Nat /\ g.end \in Nat /\ Interval \in Nat \ {0}
    BY PlannerAssumption DEF Blocks
<1>2. ASSUME NEW m \in Nat, g.start + m * Interval < g.end PROVE m \in 0 .. (g.end - g.start)
    <2>1. m * 1 <= m * Interval /\ m * Interval \in Nat
        <3>1. 1 * m <= Interval * m /\ Interval * m \in Nat
            BY <1>1, MultiplesOrdered
        <3>q. QED
            BY <1>1, <3>1
    <2>q. QED
        BY <1>1, <1>2, <2>1
<1>3. \A m \in 0 .. (g.end - g.start) : m \in Nat
    BY <1>1
<1>q. QED
    BY <1>2, <1>3 DEF Chunks, Piece

\* So does a chunk.
LEMMA ChunkWithin ==
    ASSUME NEW g \in Blocks, NEW p \in Chunks(g, Interval)
    PROVE  p \in Blocks /\ g.start <= p.start /\ p.start < p.end /\ p.end <= g.end
<1>1. PICK n \in Nat : g.start + n * Interval < g.end /\ p = Piece(g, n)
    BY ChunksArePieces
<1>q. QED
    BY <1>1, PieceBounds

\* The pieces of a gap that end by c.
Cut(g, c) == {p \in Chunks(g, Interval) : p.end <= c}

\* Where the inner loop may stand in a gap.
AtPiece(g, c) ==
    /\ c \in Nat /\ g.start <= c /\ c <= g.end
    /\ c = g.end \/ \E n \in Nat : c = g.start + n * Interval

\* One turn of the inner loop cuts the next piece off.
LEMMA CutNext ==
    ASSUME NEW g \in Blocks, NEW c, AtPiece(g, c), c < g.end,
           NEW e, e = IF c + Interval <= g.end THEN c + Interval ELSE g.end
    PROVE  /\ AtPiece(g, e) /\ Cut(g, e) = Cut(g, c) \cup {Span(c, e)}
           /\ Span(c, e) \in Blocks /\ c < e /\ e <= g.end
<1>0. c \in Nat /\ g.start \in Nat /\ g.end \in Nat /\ Interval \in Nat \ {0}
    BY PlannerAssumption DEF AtPiece, Blocks
<1>1. PICK n \in Nat : c = g.start + n * Interval
    BY <1>0 DEF AtPiece
<1> DEFINE p == Piece(g, n)
<1>2. /\ p \in Blocks /\ p.start = c /\ p.start < p.end /\ p.end <= g.end
      /\ g.start + (n + 1) * Interval = c + Interval
    BY <1>1, PieceBounds
<1>3. p = Span(c, e)
    BY <1>1, <1>2 DEF Piece
<1>4. e \in Nat /\ c < e /\ e <= g.end
    BY <1>0
<1>5. AtPiece(g, e)
    <2>1. e = g.end \/ e = g.start + (n + 1) * Interval
        BY <1>2
    <2>2. n + 1 \in Nat /\ g.start <= e
        BY <1>0, <1>4 DEF AtPiece
    <2>q. QED
        BY <1>4, <2>1, <2>2 DEF AtPiece
<1>6. ASSUME NEW q \in Chunks(g, Interval), q.end <= e PROVE q.end <= c \/ q = p
    <2>1. PICK m \in Nat : g.start + m * Interval < g.end /\ q = Piece(g, m)
        BY ChunksArePieces
    <2>2. /\ q \in Blocks /\ q.start = g.start + m * Interval /\ q.start < q.end
          /\ q.end <= g.start + (m + 1) * Interval
        BY <2>1, PieceBounds
    <2>3. CASE m = n
        BY <2>1, <2>3
    <2>4. CASE m + 1 <= n
        <3>1. /\ (m + 1) * Interval \in Nat /\ n * Interval \in Nat
              /\ (m + 1) * Interval <= n * Interval
            BY <1>0, <2>4, MultiplesOrdered
        <3>q. QED
            BY <1>0, <1>1, <2>2, <3>1 DEF Blocks
    <2>5. CASE n + 1 <= m
        <3>1. /\ m * Interval \in Nat /\ (n + 1) * Interval \in Nat
              /\ (n + 1) * Interval <= m * Interval
            BY <1>0, <2>5, MultiplesOrdered
        <3>2. c + Interval <= q.start
            BY <1>0, <1>2, <2>2, <3>1
        <3>q. QED
            BY <1>0, <1>4, <1>6, <2>2, <3>2 DEF Blocks
    <2>q. QED
        BY <2>3, <2>4, <2>5
<1>7. p \in Chunks(g, Interval)
    BY <1>1, ChunksArePieces
<1>8. p.end = e
    BY <1>3 DEF Span
<1>9. \A q \in Chunks(g, Interval) : q.end <= c => q.end <= e
    BY <1>0, <1>4, ChunkWithin DEF Blocks
<1>q. QED
    BY <1>2, <1>3, <1>4, <1>5, <1>6, <1>7, <1>8, <1>9 DEF Cut

\* Nothing is cut off at the start of a gap, and all of it at its end.
LEMMA CutEnds ==
    ASSUME NEW g \in Blocks
    PROVE  /\ Cut(g, g.start) = {} /\ Cut(g, g.end) = Chunks(g, Interval)
           /\ g.start <= g.end => AtPiece(g, g.start)
<1>1. \A p \in Chunks(g, Interval) : ~(p.end <= g.start)
    BY ChunkWithin DEF Blocks
<1>2. \A p \in Chunks(g, Interval) : p.end <= g.end
    BY ChunkWithin
<1>3. g.start \in Nat /\ 0 \in Nat /\ g.start = g.start + 0 * Interval
    BY PlannerAssumption DEF Blocks
<1>4. g.start <= g.end => AtPiece(g, g.start)
    BY <1>3 DEF AtPiece
<1>q. QED
    BY <1>1, <1>2, <1>4 DEF Cut

-----------------------------------------------------------------------------
\* The inductive invariant of the loops.

\* A block lies in one of these ranges.
Everywhere(R, from, to) == \A b \in Nat : from < b /\ b <= to => Covers(R, b)

\* find_gaps has looked at the requests before the next: it has found the gaps in front of them,
\* and no block up to its cursor is in neither.
SearchingGaps ==
    /\ next \in 1 .. Len(ranges) + 1 /\ toProve = <<>>
    /\ Reached(currentStart, overallStart, Seen(ranges, next))
    /\ ToSet(gaps) = GapsBefore(overallStart, Seen(ranges, next))
    /\ Everywhere(ToSet(gaps) \cup Seen(ranges, next), overallStart, currentStart)

GapsFound ==
    /\ ToSet(gaps) = FindGaps(overallStart, overallEnd, ToSet(ranges))
    /\ Everywhere(ToSet(gaps) \cup ToSet(ranges), overallStart, overallEnd)

\* The pieces of the gaps before the n-th.
CutBefore(gs, n) == UNION {Chunks(gs[i], Interval) : i \in 1 .. n - 1}

\* get_ranges_to_prove has cut the gaps before the next, and the next one up to its cursor.
CuttingGaps ==
    /\ next \in 1 .. Len(gaps) + 1 /\ Laid(toProve)
    /\ \A i \in 1 .. next - 1 : Everywhere(ToSet(toProve), gaps[i].start, gaps[i].end)
    /\ next > Len(gaps) => ToSet(toProve) = CutBefore(gaps, next)
    /\ next <= Len(gaps) =>
         /\ AtPiece(gaps[next], currentStart)
         /\ ToSet(toProve) = CutBefore(gaps, next) \cup Cut(gaps[next], currentStart)
         /\ \A p \in ToSet(toProve) : p.end <= currentStart
         /\ Everywhere(ToSet(toProve), gaps[next].start, currentStart)

LoopsInv ==
    /\ overallStart \in Nat /\ overallEnd \in Nat /\ Listed(ranges, overallStart)
    /\ phase \in {"gaps", "chunks", "done"}
    /\ Laid(gaps) /\ \A g \in ToSet(gaps), q \in ToSet(ranges) : ~Overlap(q, g)
    /\ phase = "gaps" => SearchingGaps
    /\ phase # "gaps" => GapsFound
    /\ phase = "chunks" => CuttingGaps
    /\ LoopsMatchSets /\ PlanIsSound

\* The loops begin with nothing seen.
LEMMA LoopsBegin == Init => LoopsInv
<1> SUFFICES ASSUME Init PROVE LoopsInv
    OBVIOUS
<1>1. /\ overallStart \in Nat /\ overallEnd \in Nat /\ Listed(ranges, overallStart)
      /\ phase = "gaps" /\ next = 1 /\ currentStart = overallStart
      /\ gaps = <<>> /\ toProve = <<>>
    BY PlannerAssumption, ListsAreListed DEF Init
<1>2. Laid(gaps) /\ ToSet(gaps) = {} /\ Seen(ranges, 1) = {}
    BY <1>1, NothingLaid, SeenAll
<1>3. Reached(overallStart, overallStart, {}) /\ GapsBefore(overallStart, {}) = {}
    BY <1>1 DEF Reached, GapsBefore, Ends, Starts
<1>4. Len(ranges) \in Nat /\ 1 \in 1 .. Len(ranges) + 1
    BY <1>1 DEF Listed
<1>5. Everywhere({}, overallStart, overallStart)
    BY <1>1 DEF Everywhere
<1>6. SearchingGaps
    BY <1>1, <1>2, <1>3, <1>4, <1>5 DEF SearchingGaps
<1>q. QED
    BY <1>1, <1>2, <1>6 DEF LoopsInv, LoopsMatchSets, PlanIsSound

\* Gaps in front of a request lie behind the cursor.
LEMMA GapsBehind ==
    ASSUME NEW from \in Nat, NEW S, S \subseteq Blocks, \A q \in S : q.start < q.end,
           NEW c, Reached(c, from, S), NEW g \in GapsBefore(from, S)
    PROVE  g \in Blocks /\ g.end <= c
<1>1. g \in Blocks /\ c \in Nat
    BY DEF GapsBefore, Reached, Starts, Ends, Blocks
<1>2. PICK q \in S : q.start = g.end
    BY DEF GapsBefore, Starts
<1>3. q.end \in Ends(S)
    BY DEF Ends
<1>4. q.end <= c /\ q.start < q.end /\ q.start \in Nat /\ q.end \in Nat
    BY <1>3 DEF Reached, Blocks
<1>q. QED
    BY <1>1, <1>2, <1>4

\* A turn of find_gaps finds the gap in front of one more request.
LEMMA GapStepInv == LoopsInv /\ GapStep => LoopsInv'
<1> SUFFICES ASSUME LoopsInv, GapStep PROVE LoopsInv'
    OBVIOUS
<1>1. /\ overallStart \in Nat /\ overallEnd \in Nat /\ Listed(ranges, overallStart)
      /\ phase = "gaps" /\ SearchingGaps /\ Laid(gaps)
      /\ \A g \in ToSet(gaps), q \in ToSet(ranges) : ~Overlap(q, g)
      /\ UNCHANGED <<overallStart, overallEnd, ranges, phase, toProve>>
    BY DEF LoopsInv, GapStep, inputs
<1> DEFINE S == Seen(ranges, next)
           r == ranges[next]
           c == currentStart
           new == IF c < r.start THEN {Span(c, r.start)} ELSE {}
           d == IF r.end > c THEN r.end ELSE c
<1>2. /\ next \in 1 .. Len(ranges) /\ next + 1 \in 1 .. Len(ranges) + 1 /\ next \in Nat
      /\ DOMAIN ranges = 1 .. Len(ranges) /\ Len(ranges) \in Nat
    BY <1>1 DEF SearchingGaps, GapStep, Listed
<1>3. /\ Seen(ranges, next + 1) = S \cup {r}
      /\ r \in Blocks /\ r.start < r.end
      /\ S \subseteq Blocks /\ \A q \in S : q.start < q.end /\ q.start <= r.start
    BY <1>1, <1>2, SeenGrows DEF Blocks
<1>4. Reached(c, overallStart, S) /\ ToSet(gaps) = GapsBefore(overallStart, S)
      /\ Everywhere(ToSet(gaps) \cup S, overallStart, c) /\ toProve = <<>>
    BY <1>1 DEF SearchingGaps
<1>5. c \in Nat /\ Reached(d, overallStart, S \cup {r})
    BY <1>1, <1>3, <1>4, ReachedNext
<1>6. r.start \in Nat /\ r.end \in Nat
    BY <1>3 DEF Blocks
<1>7. next' = next + 1 /\ currentStart' = d
      /\ gaps' = IF c < r.start THEN Append(gaps, Span(c, r.start)) ELSE gaps
    BY DEF GapStep
<1>8. Laid(gaps') /\ ToSet(gaps') = ToSet(gaps) \cup new
    <2>1. CASE c < r.start
        <3>1. \A g \in ToSet(gaps) : g.end <= c
            BY <1>1, <1>3, <1>4, GapsBehind
        <3>2. Span(c, r.start) \in Blocks /\ Span(c, r.start).start = c
              /\ Span(c, r.start).end = r.start
            BY <1>5, <1>6 DEF Span, Blocks
        <3>q. QED
            BY <1>1, <1>7, <2>1, <3>1, <3>2, LaidNext
    <2>2. CASE ~(c < r.start)
        BY <1>1, <1>7, <2>2
    <2>q. QED
        BY <2>1, <2>2
<1>9. ToSet(gaps') = GapsBefore(overallStart, S \cup {r})
    BY <1>1, <1>3, <1>4, <1>8, GapsBeforeNext
<1>10. Everywhere(ToSet(gaps') \cup (S \cup {r}), overallStart, d)
    <2> SUFFICES ASSUME NEW b \in Nat, overallStart < b, b <= d
                 PROVE  Covers(ToSet(gaps') \cup (S \cup {r}), b)
        BY DEF Everywhere
    <2>1. CASE b <= c
        BY <1>4, <1>8, <2>1 DEF Everywhere, Covers
    <2>2. CASE c < b /\ b <= r.start
        <3>1. Span(c, r.start) \in ToSet(gaps')
            BY <1>5, <1>6, <1>8, <2>2
        <3>q. QED
            BY <2>2, <3>1 DEF Covers, Span
    <2>3. CASE r.start < b /\ c < b
        BY <1>5, <1>6, <2>3 DEF Covers
    <2>q. QED
        BY <1>5, <1>6, <2>1, <2>2, <2>3
<1>11. ASSUME NEW q \in ToSet(ranges), c < r.start PROVE ~Overlap(q, Span(c, r.start))
    <2>1. PICK k \in DOMAIN ranges : q = ranges[k]
        BY DEF ToSet
    <2>2. q \in Blocks
        BY <1>1, <2>1, LenProperties DEF Listed, Blocks
    <2>3. CASE k < next
        <3>1. q \in S
            BY <1>2, <2>1, <2>3 DEF Seen
        <3>2. q.end \in Ends(S)
            BY <3>1 DEF Ends
        <3>3. q.end <= c
            BY <1>4, <3>2 DEF Reached
        <3>q. QED
            BY <1>5, <2>2, <3>3 DEF Overlap, Span, Blocks
    <2>4. CASE next <= k
        <3>1. r.start <= q.start
            <4>1. next \in DOMAIN ranges /\ (k = next \/ next < k)
                BY <1>2, <2>4
            <4>2. next < k => r.start <= q.start
                BY <1>1, <2>1, <4>1 DEF Listed
            <4>q. QED
                BY <1>6, <2>1, <4>1, <4>2
        <3>q. QED
            BY <1>6, <2>2, <3>1 DEF Overlap, Span, Blocks
    <2>q. QED
        BY <1>2, <2>3, <2>4
<1>12. \A g \in ToSet(gaps'), q \in ToSet(ranges) : ~Overlap(q, g)
    BY <1>1, <1>8, <1>11
<1>13. SearchingGaps'
    <2> DEFINE gaps1 == gaps'
    <2>1. next' \in 1 .. Len(ranges') + 1 /\ toProve' = <<>>
        BY <1>1, <1>2, <1>4, <1>7
    <2>2. Seen(ranges', next') = S \cup {r}
        BY <1>1, <1>3, <1>7
    <2>q. QED
        BY <1>1, <1>5, <1>7, <1>9, <1>10, <2>1, <2>2 DEF SearchingGaps
<1>14. LoopsMatchSets' /\ PlanIsSound'
    BY <1>1 DEF LoopsMatchSets, PlanIsSound
<1>q. QED
    BY <1>1, <1>8, <1>12, <1>13, <1>14 DEF LoopsInv

\* After the last request it adds what is left up to the finalized block.
LEMMA GapEndInv == LoopsInv /\ GapEnd => LoopsInv'
<1> SUFFICES ASSUME LoopsInv, GapEnd PROVE LoopsInv'
    OBVIOUS
<1>1. /\ overallStart \in Nat /\ overallEnd \in Nat /\ Listed(ranges, overallStart)
      /\ phase = "gaps" /\ SearchingGaps /\ Laid(gaps)
      /\ \A g \in ToSet(gaps), q \in ToSet(ranges) : ~Overlap(q, g)
      /\ UNCHANGED <<overallStart, overallEnd, ranges, toProve>>
    BY DEF LoopsInv, GapEnd, inputs
<1> DEFINE R == ToSet(ranges)
           c == currentStart
           e == overallEnd
           new == IF c < e THEN {Span(c, e)} ELSE {}
<1>2. /\ next = Len(ranges) + 1 /\ DOMAIN ranges = 1 .. Len(ranges) /\ Len(ranges) \in Nat
    BY <1>1 DEF SearchingGaps, GapEnd, Listed
<1>3. Seen(ranges, next) = R
    BY <1>1, <1>2, SeenAll
<1>4. Reached(c, overallStart, R) /\ ToSet(gaps) = GapsBefore(overallStart, R)
      /\ Everywhere(ToSet(gaps) \cup R, overallStart, c) /\ toProve = <<>>
    BY <1>1, <1>3 DEF SearchingGaps
<1>5. R \subseteq Blocks /\ \A q \in R : q.start < q.end
    <2>1. \A i \in DOMAIN ranges : ranges[i] \in Blocks
        BY <1>1, LenProperties DEF Listed, Blocks
    <2>2. \A i \in DOMAIN ranges : ranges[i].start < ranges[i].end
        BY <1>1 DEF Listed
    <2>q. QED
        BY <2>1, <2>2 DEF ToSet
<1>6. c \in Nat
    BY <1>1, <1>4, <1>5 DEF Reached, Ends, Blocks
<1>7. next' = 1 /\ phase' = "chunks"
      /\ currentStart' = (IF gaps' = <<>> THEN 0 ELSE gaps'[1].start)
      /\ gaps' = IF c < e THEN Append(gaps, Span(c, e)) ELSE gaps
    BY DEF GapEnd
<1>8. Laid(gaps') /\ ToSet(gaps') = ToSet(gaps) \cup new
    <2>1. CASE c < e
        <3>1. \A g \in ToSet(gaps) : g.end <= c
            BY <1>1, <1>4, <1>5, GapsBehind
        <3>2. Span(c, e) \in Blocks /\ Span(c, e).start = c /\ Span(c, e).end = e
            BY <1>1, <1>6 DEF Span, Blocks
        <3>q. QED
            BY <1>1, <1>7, <2>1, <3>1, <3>2, LaidNext
    <2>2. CASE ~(c < e)
        BY <1>1, <1>7, <2>2
    <2>q. QED
        BY <2>1, <2>2
<1>9. ToSet(gaps') = FindGaps(overallStart, e, R)
    BY <1>1, <1>4, <1>5, <1>8, AllGaps
<1>10. Everywhere(ToSet(gaps') \cup R, overallStart, e)
    <2> SUFFICES ASSUME NEW b \in Nat, overallStart < b, b <= e
                 PROVE  Covers(ToSet(gaps') \cup R, b)
        BY DEF Everywhere
    <2>1. CASE b <= c
        BY <1>4, <1>8, <2>1 DEF Everywhere, Covers
    <2>2. CASE c < b
        <3>1. Span(c, e) \in ToSet(gaps')
            BY <1>1, <1>6, <1>8, <2>2
        <3>q. QED
            BY <2>2, <3>1 DEF Covers, Span
    <2>q. QED
        BY <1>6, <2>1, <2>2
<1>11. ASSUME NEW q \in R PROVE ~Overlap(q, Span(c, e))
    <2>1. q.end \in Ends(R) /\ q \in Blocks
        BY <1>5 DEF Ends
    <2>2. q.end <= c
        BY <1>4, <2>1 DEF Reached
    <2>q. QED
        BY <1>6, <2>1, <2>2 DEF Overlap, Span, Blocks
<1>12. \A g \in ToSet(gaps'), q \in R : ~Overlap(q, g)
    BY <1>1, <1>8, <1>11
<1>13. CuttingGaps'
    <2> DEFINE gs == gaps'
               n == Len(gs)
    <2>1. gs \in Seq(Blocks) /\ n \in Nat /\ (n # 0 => gs # <<>>)
        BY <1>8 DEF Laid
    <2>2. Laid(toProve') /\ ToSet(toProve') = {}
        BY <1>1, <1>4, NothingLaid
    <2>3. CutBefore(gs, 1) = {}
        BY DEF CutBefore
    <2>4. ASSUME 1 <= n
          PROVE  /\ AtPiece(gs[1], currentStart') /\ Cut(gs[1], currentStart') = {}
                 /\ Everywhere({}, gs[1].start, currentStart')
        <3>1. gs # <<>> /\ 1 \in DOMAIN gs /\ gs[1] \in Blocks
            BY <2>1, <2>4, LenProperties
        <3>2. currentStart' = gs[1].start /\ gs[1].start < gs[1].end
            BY <1>7, <1>8, <3>1 DEF Laid
        <3>3. gs[1].start \in Nat /\ gs[1].start <= gs[1].end
            BY <3>1, <3>2 DEF Blocks
        <3>q. QED
            BY <3>1, <3>2, <3>3, CutEnds DEF Everywhere
    <2>5. 1 \in 1 .. n + 1 /\ (1 > n => ~(1 <= n)) /\ 1 .. 1 - 1 = {}
        BY <2>1
    <2> HIDE DEF gs, n
    <2>6. /\ next' \in 1 .. n + 1 /\ Laid(toProve')
          /\ \A i \in 1 .. next' - 1 : Everywhere(ToSet(toProve'), gs[i].start, gs[i].end)
          /\ next' > n => ToSet(toProve') = CutBefore(gs, 1)
          /\ next' <= n =>
               /\ AtPiece(gs[next'], currentStart')
               /\ ToSet(toProve') = CutBefore(gs, 1) \cup Cut(gs[next'], currentStart')
               /\ \A p \in ToSet(toProve') : p.end <= currentStart'
               /\ Everywhere(ToSet(toProve'), gs[next'].start, currentStart')
        BY <1>7, <2>2, <2>3, <2>4, <2>5
    <2>q. QED
        BY <1>7, <2>6 DEF CuttingGaps, CutBefore, gs, n
<1>14. GapsFound' /\ LoopsMatchSets' /\ PlanIsSound'
    BY <1>1, <1>7, <1>9, <1>10 DEF GapsFound, LoopsMatchSets, PlanIsSound
<1>q. QED
    BY <1>1, <1>7, <1>8, <1>12, <1>13, <1>14 DEF LoopsInv

\* The gap that is being cut.
LEMMA CutGap ==
    ASSUME Laid(gaps), next \in 1 .. Len(gaps) + 1, next <= Len(gaps)
    PROVE  /\ next \in DOMAIN gaps /\ next \in Nat /\ Len(gaps) \in Nat
           /\ DOMAIN gaps = 1 .. Len(gaps)
           /\ gaps[next] \in Blocks /\ gaps[next].start < gaps[next].end
           /\ gaps[next] \in ToSet(gaps)
<1>1. Len(gaps) \in Nat /\ DOMAIN gaps = 1 .. Len(gaps)
    BY LenProperties DEF Laid
<1>2. next \in DOMAIN gaps /\ next \in Nat
    BY <1>1
<1>q. QED
    BY <1>1, <1>2, LenProperties DEF Laid, ToSet

\* A turn of get_ranges_to_prove cuts one more piece off.
LEMMA ChunkStepInv == LoopsInv /\ ChunkStep => LoopsInv'
<1> SUFFICES ASSUME LoopsInv, ChunkStep PROVE LoopsInv'
    OBVIOUS
<1>1. /\ phase = "chunks" /\ CuttingGaps /\ Laid(gaps)
      /\ next <= Len(gaps) /\ currentStart < gaps[next].end
      /\ UNCHANGED <<overallStart, overallEnd, ranges, phase, next, gaps>>
    BY DEF LoopsInv, ChunkStep, inputs
<1> DEFINE g == gaps[next]
           c == currentStart
           e == IF c + Interval <= g.end THEN c + Interval ELSE g.end
<1>2. /\ next \in 1 .. Len(gaps) + 1 /\ Laid(toProve) /\ AtPiece(g, c)
      /\ \A i \in 1 .. next - 1 : Everywhere(ToSet(toProve), gaps[i].start, gaps[i].end)
      /\ ToSet(toProve) = CutBefore(gaps, next) \cup Cut(g, c)
      /\ \A p \in ToSet(toProve) : p.end <= c
      /\ Everywhere(ToSet(toProve), g.start, c)
    BY <1>1 DEF CuttingGaps
<1>3. g \in Blocks /\ next \in Nat /\ Len(gaps) \in Nat
    BY <1>1, <1>2, CutGap
<1>4. /\ AtPiece(g, e) /\ Cut(g, e) = Cut(g, c) \cup {Span(c, e)}
      /\ Span(c, e) \in Blocks /\ c < e /\ e <= g.end
    BY <1>1, <1>2, <1>3, CutNext
<1>5. toProve' = Append(toProve, Span(c, e)) /\ currentStart' = e
    BY DEF ChunkStep
<1>6. Span(c, e).start = c /\ Span(c, e).end = e /\ c \in Nat /\ e \in Nat
    BY <1>2, <1>4 DEF Span, AtPiece
<1>7. Laid(toProve') /\ ToSet(toProve') = ToSet(toProve) \cup {Span(c, e)}
    BY <1>2, <1>4, <1>5, <1>6, LaidNext
<1> HIDE DEF g, e
<1>8. \A p \in ToSet(toProve') : p.end <= e
    <2>1. \A p \in ToSet(toProve) : p \in Blocks
        BY <1>2, LenProperties DEF Laid, ToSet
    <2>2. ASSUME NEW p \in ToSet(toProve) PROVE p.end <= e
        <3>1. p.end <= c /\ p.end \in Nat
            BY <1>2, <2>1 DEF Blocks
        <3>q. QED
            BY <1>4, <1>6, <3>1
    <2>q. QED
        BY <1>6, <1>7, <2>2
<1>9. ASSUME NEW from, NEW to, Everywhere(ToSet(toProve), from, to)
      PROVE  Everywhere(ToSet(toProve'), from, to)
    BY <1>7, <1>9 DEF Everywhere, Covers
<1>10. Everywhere(ToSet(toProve'), g.start, e)
    <2> SUFFICES ASSUME NEW b \in Nat, g.start < b, b <= e PROVE Covers(ToSet(toProve'), b)
        BY DEF Everywhere
    <2>1. CASE b <= c
        BY <1>2, <1>7, <2>1 DEF Everywhere, Covers
    <2>2. CASE c < b
        BY <1>6, <1>7, <2>2 DEF Covers
    <2>q. QED
        BY <1>6, <2>1, <2>2
<1>11. CuttingGaps'
    <2> DEFINE plan == toProve'
    <2>1. ToSet(plan) = CutBefore(gaps, next) \cup Cut(g, e)
        BY <1>2, <1>4, <1>7
    <2>2. /\ \A i \in 1 .. next - 1 : Everywhere(ToSet(plan), gaps[i].start, gaps[i].end)
          /\ Laid(plan) /\ (\A p \in ToSet(plan) : p.end <= e) /\ Everywhere(ToSet(plan), g.start, e)
        BY <1>2, <1>7, <1>8, <1>9, <1>10
    <2>3. /\ next' = next /\ gaps' = gaps /\ currentStart' = e /\ g = gaps[next]
          /\ ~(next > Len(gaps))
        BY <1>1, <1>3, <1>5 DEF g
    <2> HIDE DEF plan
    <2>4. /\ next' \in 1 .. Len(gaps') + 1 /\ Laid(plan)
          /\ \A i \in 1 .. next' - 1 : Everywhere(ToSet(plan), gaps'[i].start, gaps'[i].end)
          /\ ~(next' > Len(gaps'))
          /\ AtPiece(gaps'[next'], currentStart')
          /\ ToSet(plan) = CutBefore(gaps', next') \cup Cut(gaps'[next'], currentStart')
          /\ \A p \in ToSet(plan) : p.end <= currentStart'
          /\ Everywhere(ToSet(plan), gaps'[next'].start, currentStart')
        BY <1>2, <1>4, <2>1, <2>2, <2>3
    <2>q. QED
        BY <2>4 DEF CuttingGaps, plan
<1>12. GapsFound' /\ LoopsMatchSets' /\ PlanIsSound'
    BY <1>1 DEF LoopsInv, GapsFound, LoopsMatchSets, PlanIsSound
<1>q. QED
    BY <1>1, <1>11, <1>12 DEF LoopsInv

\* A gap that is used up has been cut into all its pieces.
LEMMA NextGapInv == LoopsInv /\ NextGap => LoopsInv'
<1> SUFFICES ASSUME LoopsInv, NextGap PROVE LoopsInv'
    OBVIOUS
<1>1. /\ phase = "chunks" /\ CuttingGaps /\ Laid(gaps)
      /\ next <= Len(gaps) /\ currentStart >= gaps[next].end
      /\ UNCHANGED <<overallStart, overallEnd, ranges, phase, gaps, toProve>>
    BY DEF LoopsInv, NextGap, inputs
<1> DEFINE g == gaps[next]
           h == gaps[next + 1]
<1>2. /\ next \in 1 .. Len(gaps) + 1 /\ Laid(toProve) /\ AtPiece(g, currentStart)
      /\ \A i \in 1 .. next - 1 : Everywhere(ToSet(toProve), gaps[i].start, gaps[i].end)
      /\ ToSet(toProve) = CutBefore(gaps, next) \cup Cut(g, currentStart)
      /\ \A p \in ToSet(toProve) : p.end <= currentStart
      /\ Everywhere(ToSet(toProve), g.start, currentStart)
    BY <1>1 DEF CuttingGaps
<1>3. g \in Blocks /\ next \in Nat /\ Len(gaps) \in Nat /\ DOMAIN gaps = 1 .. Len(gaps)
      /\ next \in DOMAIN gaps
    BY <1>1, <1>2, CutGap
<1>4. currentStart = g.end
    BY <1>1, <1>2, <1>3 DEF AtPiece, Blocks
<1>5. next' = next + 1 /\ currentStart' = IF next < Len(gaps) THEN h.start ELSE currentStart
    BY DEF NextGap
<1>6. 1 .. (next + 1) - 1 = (1 .. next - 1) \cup {next} /\ next + 1 \in 1 .. Len(gaps) + 1
    BY <1>1, <1>2, <1>3
<1>7. ToSet(toProve) = CutBefore(gaps, next + 1)
    <2>1. ToSet(toProve) = CutBefore(gaps, next) \cup Chunks(g, Interval)
        BY <1>2, <1>3, <1>4, CutEnds
    <2>q. QED
        BY <1>6, <2>1 DEF CutBefore
<1>8. \A i \in 1 .. (next + 1) - 1 : Everywhere(ToSet(toProve), gaps[i].start, gaps[i].end)
    BY <1>2, <1>4, <1>6
<1>9. ASSUME next + 1 <= Len(gaps)
      PROVE  /\ AtPiece(h, h.start) /\ Cut(h, h.start) = {}
             /\ \A p \in ToSet(toProve) : p.end <= h.start
             /\ Everywhere(ToSet(toProve), h.start, h.start)
    <2>1. next + 1 \in DOMAIN gaps /\ next < next + 1
        BY <1>3, <1>9
    <2>2. h \in Blocks /\ h.start < h.end /\ g.end <= h.start
        BY <1>1, <1>3, <2>1, LenProperties DEF Laid
    <2>3. h.start \in Nat /\ h.start <= h.end /\ g.end \in Nat
        BY <1>3, <2>2 DEF Blocks
    <2>4. \A p \in ToSet(toProve) : p \in Blocks
        BY <1>2, LenProperties DEF Laid, ToSet
    <2>5. ASSUME NEW p \in ToSet(toProve) PROVE p.end <= h.start
        <3>1. p.end <= g.end /\ p.end \in Nat
            BY <1>2, <1>4, <2>4 DEF Blocks
        <3>q. QED
            BY <2>2, <2>3, <3>1
    <2>6. Everywhere(ToSet(toProve), h.start, h.start)
        BY <2>3 DEF Everywhere
    <2>q. QED
        BY <2>2, <2>3, <2>5, <2>6, CutEnds
<1>10. CuttingGaps'
    <2> DEFINE n == next + 1
    <2>1. n > Len(gaps) \/ (n <= Len(gaps) /\ next < Len(gaps) /\ ~(n > Len(gaps)))
        BY <1>3
    <2> HIDE DEF g
    <2>2. /\ next' = n /\ gaps' = gaps /\ toProve' = toProve
          /\ (n <= Len(gaps) => currentStart' = h.start /\ h = gaps[n])
        BY <1>1, <1>3, <1>5
    <2>3. n > Len(gaps) => ~(n <= Len(gaps))
        BY <1>3
    <2>4. CutBefore(gaps', next') = CutBefore(gaps, n)
        BY <2>2
    <2>5. n \in 1 .. Len(gaps) + 1
          /\ (\A i \in 1 .. n - 1 : Everywhere(ToSet(toProve), gaps[i].start, gaps[i].end))
          /\ ToSet(toProve) = CutBefore(gaps, n)
        BY <1>6, <1>7, <1>8
    <2>6. n <= Len(gaps) =>
            /\ AtPiece(h, h.start) /\ Cut(h, h.start) = {}
            /\ \A p \in ToSet(toProve) : p.end <= h.start
            /\ Everywhere(ToSet(toProve), h.start, h.start)
        BY <1>9
    <2> HIDE DEF n, h
    <2>7. /\ next' \in 1 .. Len(gaps') + 1 /\ Laid(toProve')
          /\ \A i \in 1 .. next' - 1 : Everywhere(ToSet(toProve'), gaps'[i].start, gaps'[i].end)
          /\ next' > Len(gaps') => ToSet(toProve') = CutBefore(gaps', next')
          /\ next' <= Len(gaps') =>
               /\ AtPiece(gaps'[next'], currentStart')
               /\ ToSet(toProve') = CutBefore(gaps', next') \cup Cut(gaps'[next'], currentStart')
               /\ \A p \in ToSet(toProve') : p.end <= currentStart'
               /\ Everywhere(ToSet(toProve'), gaps'[next'].start, currentStart')
        BY <1>2, <2>2, <2>4, <2>5, <2>6
    <2>q. QED
        BY <2>7 DEF CuttingGaps
<1>11. GapsFound' /\ LoopsMatchSets' /\ PlanIsSound'
    BY <1>1 DEF LoopsInv, GapsFound, LoopsMatchSets, PlanIsSound
<1>q. QED
    BY <1>1, <1>10, <1>11 DEF LoopsInv

\* Only the last piece of all can be dropped: every other has one behind it.
LEMMA LastIsDropped ==
    ASSUME NEW s, Laid(s), NEW t,
           t = IF s # <<>> /\ Last(s).end - Last(s).start < Interval THEN Front(s) ELSE s
    PROVE  /\ Laid(t) /\ ToSet(t) \subseteq ToSet(s)
           /\ ToSet(t) = {p \in ToSet(s) : \/ p.end - p.start >= Interval
                                            \/ \E q \in ToSet(s) : p.start < q.start}
           /\ \/ t = s
              \/ \E l \in ToSet(s) :
                   /\ l \in Blocks /\ l.end - l.start < Interval
                   /\ ToSet(s) = ToSet(t) \cup {l} /\ \A q \in ToSet(t) : q.end <= l.start
<1>1. CASE s = <<>>
    BY <1>1, NothingLaid
<1>2. CASE s # <<>>
    <2> DEFINE l == Last(s)
               F == ToSet(Front(s))
    <2>1. /\ l \in ToSet(s) /\ l \in Blocks /\ l.start < l.end
          /\ Laid(Front(s)) /\ F = ToSet(s) \ {l}
          /\ \A q \in F : q \in Blocks /\ q.start < q.end /\ q.end <= l.start
        BY <1>2, LaidFront
    <2> HIDE DEF l, F
    <2>2. \A p \in F : p.start < l.start
        BY <2>1 DEF Blocks
    <2>3. \A q \in ToSet(s) : ~(l.start < q.start)
        BY <2>1, <2>2 DEF Blocks
    <2>4. l.end - l.start < Interval <=> ~(l.end - l.start >= Interval)
        BY <2>1, PlannerAssumption DEF Blocks
    <2>5. CASE l.end - l.start < Interval
        <3>1. t = Front(s)
            BY <1>2, <2>5 DEF l
        <3>q. QED
            BY <2>1, <2>2, <2>3, <2>4, <2>5, <3>1 DEF F
    <2>6. CASE ~(l.end - l.start < Interval)
        <3>1. t = s
            BY <1>2, <2>6 DEF l
        <3>q. QED
            BY <2>1, <2>2, <2>3, <2>4, <2>6, <3>1
    <2>q. QED
        BY <2>5, <2>6
<1>q. QED
    BY <1>1, <1>2

\* What is left when the last piece is dropped is the plan the sets describe.
LEMMA PopLastInv == LoopsInv /\ PopLast => LoopsInv'
<1> SUFFICES ASSUME LoopsInv, PopLast PROVE LoopsInv'
    OBVIOUS
<1>1. /\ overallStart \in Nat /\ overallEnd \in Nat /\ Listed(ranges, overallStart)
      /\ phase = "chunks" /\ CuttingGaps /\ Laid(gaps) /\ GapsFound /\ LoopsMatchSets
      /\ \A g \in ToSet(gaps), q \in ToSet(ranges) : ~Overlap(q, g)
      /\ next > Len(gaps) /\ phase' = "done"
      /\ UNCHANGED <<overallStart, overallEnd, ranges, next, currentStart, gaps>>
    BY DEF LoopsInv, PopLast, inputs
<1>2. toProve' = IF toProve # <<>> /\ Last(toProve).end - Last(toProve).start < Interval
                 THEN Front(toProve) ELSE toProve
    BY DEF PopLast
<1>3. DOMAIN gaps = 1 .. Len(gaps) /\ Len(gaps) \in Nat /\ next = Len(gaps) + 1
      /\ 1 .. next - 1 = DOMAIN gaps
    <2>1. DOMAIN gaps = 1 .. Len(gaps) /\ Len(gaps) \in Nat
        BY <1>1, LenProperties DEF Laid
    <2>2. next = Len(gaps) + 1
        BY <1>1, <2>1 DEF CuttingGaps
    <2>q. QED
        BY <2>1, <2>2
<1> DEFINE All == ToSet(toProve)
           plan == toProve'
           G == ToSet(gaps)
           R == ToSet(ranges)
<1>4. Laid(toProve) /\ All = UNION {Chunks(g, Interval) : g \in G}
    <2>1. Laid(toProve) /\ All = CutBefore(gaps, next)
        BY <1>1 DEF CuttingGaps
    <2>q. QED
        BY <1>3, <2>1 DEF CutBefore, ToSet
<1>5. /\ Laid(plan) /\ ToSet(plan) \subseteq All
      /\ ToSet(plan) = {p \in All : \/ p.end - p.start >= Interval
                                    \/ \E q \in All : p.start < q.start}
      /\ \/ plan = toProve
         \/ \E l \in All :
              /\ l \in Blocks /\ l.end - l.start < Interval
              /\ All = ToSet(plan) \cup {l} /\ \A q \in ToSet(plan) : q.end <= l.start
    BY <1>2, <1>4, LastIsDropped
<1>6. ToSet(plan) = RangesToProve(G, Interval)
    BY <1>4, <1>5 DEF RangesToProve
<1>7. G = FindGaps(overallStart, overallEnd, R)
    BY <1>1 DEF GapsFound
<1>8. LoopsMatchSets'
    BY <1>1, <1>6, <1>7 DEF LoopsMatchSets
<1>9. G \subseteq Blocks /\ R \subseteq Blocks
    <2>1. \A i \in DOMAIN gaps : gaps[i] \in Blocks
        BY <1>1, LenProperties DEF Laid
    <2>2. \A i \in DOMAIN ranges : ranges[i] \in Blocks
        BY <1>1, LenProperties DEF Listed, Blocks
    <2>q. QED
        BY <2>1, <2>2 DEF ToSet
<1>10. ASSUME NEW p \in All, NEW q \in R PROVE ~Overlap(q, p)
    <2>1. PICK g \in G : p \in Chunks(g, Interval)
        BY <1>4
    <2>2. p \in Blocks /\ g.start <= p.start /\ p.end <= g.end
        BY <1>9, <2>1, ChunkWithin
    <2>3. ~Overlap(q, g) /\ g \in Blocks /\ q \in Blocks
        BY <1>1, <1>9
    <2>q. QED
        BY <2>2, <2>3 DEF Overlap, Blocks
<1>11. Everywhere(All \cup R, overallStart, overallEnd)
    <2> SUFFICES ASSUME NEW b \in Nat, overallStart < b, b <= overallEnd PROVE Covers(All \cup R, b)
        BY DEF Everywhere
    <2>1. Covers(G \cup R, b)
        BY <1>1 DEF GapsFound, Everywhere
    <2>2. \A g \in G : g.start < b /\ b <= g.end => Covers(All, b)
        <3>1. \A i \in DOMAIN gaps : Everywhere(All, gaps[i].start, gaps[i].end)
            BY <1>1, <1>3 DEF CuttingGaps
        <3>q. QED
            BY <3>1 DEF Everywhere, ToSet
    <2>q. QED
        BY <2>1, <2>2 DEF Covers
<1> DEFINE missed == {b \in overallStart + 1 .. overallEnd : ~Covers(ToSet(plan) \cup R, b)}
<1>12. /\ \A b, c \in missed : b - c < Interval - 1
       /\ \A b \in missed, r \in ToSet(plan) : r.end < b
    <2>1. \A b \in missed : b \in Nat /\ overallStart < b /\ b <= overallEnd
        BY <1>1
    <2>2. CASE plan = toProve
        BY <1>11, <2>1, <2>2 DEF Everywhere
    <2>3. CASE plan # toProve
        <3>1. PICK l \in All :
                /\ l \in Blocks /\ l.end - l.start < Interval
                /\ All = ToSet(plan) \cup {l} /\ \A q \in ToSet(plan) : q.end <= l.start
            BY <1>5, <2>3
        <3>2. \A b \in missed : l.start < b /\ b <= l.end
            BY <1>11, <2>1, <3>1 DEF Everywhere, Covers
        <3>3. \A p \in ToSet(plan) : p \in Blocks
            BY <1>5, LenProperties DEF Laid, ToSet
        <3> HIDE DEF missed, plan, All
        <3>4. \A b, c \in missed : b - c < Interval - 1
            BY <2>1, <3>1, <3>2, PlannerAssumption DEF Blocks
        <3>5. \A b \in missed, r \in ToSet(plan) : r.end < b
            BY <2>1, <3>1, <3>2, <3>3 DEF Blocks
        <3>q. QED
            BY <3>4, <3>5
    <2>q. QED
        BY <2>2, <2>3
<1>13. PlanIsSound'
    <2>1. \A i, j \in DOMAIN plan : i < j => plan[i].end <= plan[j].start
        BY <1>5 DEF Laid
    <2>2. \A r \in ToSet(plan) : \A q \in R : ~Overlap(q, r)
        BY <1>5, <1>10
    <2>q. QED
        BY <1>1, <1>12, <2>1, <2>2 DEF PlanIsSound
<1>14. GapsFound'
    BY <1>1 DEF GapsFound
<1>q. QED
    BY <1>1, <1>8, <1>13, <1>14 DEF LoopsInv

\* The loops keep their invariant.
LEMMA AlwaysLoopsInv == Spec => []LoopsInv
<1>1. LoopsInv /\ [Next]_vars => LoopsInv'
    <2> SUFFICES ASSUME LoopsInv, [Next]_vars PROVE LoopsInv'
        OBVIOUS
    <2>1. CASE UNCHANGED vars
        BY <2>1 DEF vars, LoopsInv, SearchingGaps, GapsFound, CuttingGaps, CutBefore,
                    LoopsMatchSets, PlanIsSound
    <2>q. QED
        BY <2>1, GapStepInv, GapEndInv, ChunkStepInv, NextGapInv, PopLastInv DEF Next
<1>q. QED
    BY <1>1, LoopsBegin, PTL DEF Spec

\* find_gaps and get_ranges_to_prove, as their loops run, return what the set formulations of
\* RangePlanning describe, on a list of any length and for any interval.
THEOREM LoopsReturnTheSets == Spec => []LoopsMatchSets
<1>1. LoopsInv => LoopsMatchSets
    BY DEF LoopsInv
<1>q. QED
    BY <1>1, AlwaysLoopsInv, PTL

\* add_new_ranges never plans a range over a request or over another one, and forgets no
\* block but those of one last piece that is shorter than the interval.
THEOREM PlansAreSound == Spec => []PlanIsSound
<1>1. LoopsInv => PlanIsSound
    BY DEF LoopsInv
<1>q. QED
    BY <1>1, AlwaysLoopsInv, PTL

-----------------------------------------------------------------------------
\* The scan of completed ranges and the checks of an aggregation.

RowOf(l, i) == [start |-> l[i].start, end |-> l[i].end, row |-> i]

\* The list leads without a hole to its k-th range.
Chained(l, k) == \A i \in 2 .. k : l[i - 1].end = l[i].start

\* The scan stops here: the next range does not follow, or there is none.
Stops(l, k) == k = Len(l) \/ l[k + 1].start # l[k].end

\* The bounds of requests are block numbers, and the requests in the order of their starts.
LEMMA ListType ==
    ASSUME NEW from, NEW l, Listed(l, from)
    PROVE  /\ Len(l) \in Nat /\ DOMAIN l = 1 .. Len(l)
           /\ \A i \in 1 .. Len(l) : l[i].start \in Nat /\ l[i].end \in Nat /\ l[i].start < l[i].end
           /\ \A i, j \in 1 .. Len(l) : i <= j => l[i].start <= l[j].start
<1>1. Len(l) \in Nat /\ DOMAIN l = 1 .. Len(l) /\ \A i \in 1 .. Len(l) : l[i] \in [start : Nat, end : Nat]
    BY LenProperties DEF Listed
<1>2. \A i \in 1 .. Len(l) : l[i].start \in Nat /\ l[i].end \in Nat /\ l[i].start < l[i].end
    BY <1>1 DEF Listed
<1>3. ASSUME NEW i \in 1 .. Len(l), NEW j \in 1 .. Len(l), i <= j PROVE l[i].start <= l[j].start
    <2>1. i = j \/ i < j
        BY <1>1, <1>3
    <2>q. QED
        <3>1. i < j => l[i].start <= l[j].start
            BY <1>1 DEF Listed
        <3>2. l[i].start \in Nat
            BY <1>2
        <3>q. QED
            BY <2>1, <3>1, <3>2
<1>q. QED
    BY <1>1, <1>2, <1>3

\* The first place where the scan stops.
LEMMA StopExists ==
    ASSUME NEW l, Len(l) \in Nat, NEW i \in 1 .. Len(l)
    PROVE  \E k \in i .. Len(l) : Stops(l, k) /\ \A j \in i .. Len(l) : Stops(l, j) => k <= j
<1> DEFINE T == {k \in i .. Len(l) : Stops(l, k)}
<1>1. Len(l) \in T /\ T \subseteq Nat
    BY DEF Stops
<1>2. PICK k \in T : \A j \in T : k <= j
    <2> HIDE DEF T
    <2>q. QED
        BY <1>1, Least
<1>q. QED
    BY <1>2

\* The calls of the scan as they stand in HighestContiguous.
Scans(end, l) == end = [i \in 1 .. Len(l) |-> IF Stops(l, i) THEN l[i].end ELSE end[i + 1]]

\* The scan answers what it does from the first range.
LEMMA ScanIsFirstCall ==
    ASSUME NEW l
    PROVE  HighestContiguous(l) = (CHOOSE end : Scans(end, l))[1]
BY DEF HighestContiguous, Scans, Stops

\* From every place the scan answers the end of the range it stops at.
LEMMA ScanEnds ==
    ASSUME NEW l, Len(l) \in Nat
    PROVE  \E end : Scans(end, l)
<1> DEFINE First(i, k) == /\ k \in i .. Len(l) /\ Stops(l, k)
                          /\ \A j \in i .. Len(l) : Stops(l, j) => k <= j
           stop(i) == CHOOSE k : First(i, k)
           f == [i \in 1 .. Len(l) |-> l[stop(i)].end]
<1>1. \A i \in 1 .. Len(l) : \E k : First(i, k)
    BY StopExists
<1>2. \A i \in 1 .. Len(l) : First(i, stop(i))
    <2> HIDE DEF First
    <2>q. QED
        BY <1>1
<1>3. ASSUME NEW i \in 1 .. Len(l), NEW k, NEW m, First(i, k), First(i, m) PROVE k = m
    BY <1>3
<1> HIDE DEF stop
<1>4. \A i \in 1 .. Len(l) : f[i] = l[stop(i)].end
    OBVIOUS
<1>5. ASSUME NEW i \in 1 .. Len(l) PROVE f[i] = IF Stops(l, i) THEN l[i].end ELSE f[i + 1]
    <2>1. CASE Stops(l, i)
        <3>1. First(i, i)
            BY <2>1
        <3>2. stop(i) = i
            BY <1>2, <1>3, <3>1
        <3>q. QED
            BY <1>4, <2>1, <3>2
    <2>2. CASE ~Stops(l, i)
        <3>1. i + 1 \in 1 .. Len(l) /\ i + 1 \in Nat
            BY <2>2 DEF Stops
        <3>2. First(i + 1, stop(i + 1))
            BY <1>2, <3>1
        <3>3. \A j \in i .. Len(l) : j = i \/ j \in i + 1 .. Len(l)
            OBVIOUS
        <3>4. First(i, stop(i + 1))
            BY <2>2, <3>2, <3>3
        <3>5. stop(i) = stop(i + 1)
            BY <1>2, <1>3, <3>4
        <3>q. QED
            BY <1>4, <2>2, <3>1, <3>5
    <2>q. QED
        BY <2>1, <2>2
<1>6. f = [i \in 1 .. Len(l) |-> f[i]]
    OBVIOUS
<1> HIDE DEF f
<1>7. Scans(f, l)
    BY <1>5, <1>6 DEF Scans
<1>q. QED
    BY <1>7

\* The scan stops at the first place where a range does not follow.
LEMMA ScanFinds ==
    ASSUME NEW l, Len(l) \in Nat, NEW k \in 1 .. Len(l), Stops(l, k),
           \A j \in 1 .. Len(l) : Stops(l, j) => k <= j
    PROVE  HighestContiguous(l) = l[k].end
<1> DEFINE f == CHOOSE end : Scans(end, l)
<1>1. Scans(f, l)
    BY ScanEnds
<1> HIDE DEF f
<1>2. \A i \in 1 .. Len(l) : f[i] = IF Stops(l, i) THEN l[i].end ELSE f[i + 1]
    BY <1>1 DEF Scans
<1> DEFINE T == {d \in Nat : k - d >= 1 => f[k - d] = l[k].end}
<1>3. 0 \in T
    BY <1>2
<1>4. ASSUME NEW d \in Nat, d \in T PROVE d + 1 \in T
    <2> SUFFICES ASSUME k - (d + 1) >= 1 PROVE f[k - (d + 1)] = l[k].end
        OBVIOUS
    <2> DEFINE i == k - (d + 1)
    <2>1. i \in 1 .. Len(l) /\ i < k /\ i + 1 = k - d /\ k - d >= 1
        OBVIOUS
    <2>2. ~Stops(l, i)
        BY <2>1
    <2>3. f[i] = f[i + 1]
        BY <1>2, <2>1, <2>2
    <2>4. f[k - d] = l[k].end
        BY <1>4, <2>1
    <2>q. QED
        BY <2>1, <2>3, <2>4
<1>5. k - 1 \in T
    <2> HIDE DEF T
    <2>1. k - 1 \in Nat
        OBVIOUS
    <2>q. QED
        BY <1>3, <1>4, <2>1, SetInduction
<1>6. k - (k - 1) = 1
    OBVIOUS
<1>7. f[1] = l[k].end
    BY <1>5, <1>6
<1>q. QED
    BY <1>7, ScanIsFirstCall DEF f

\* A list without a hole is consecutive as a set.
LEMMA ChainedIsConsecutive ==
    ASSUME NEW from, NEW l, Listed(l, from), NEW k \in 1 .. Len(l), Chained(l, k)
    PROVE  Consecutive({RowOf(l, i) : i \in 1 .. k})
<1> DEFINE Q == {RowOf(l, i) : i \in 1 .. k}
<1>1. /\ Len(l) \in Nat /\ 1 .. k \subseteq 1 .. Len(l)
      /\ \A i \in 1 .. Len(l) : l[i].start \in Nat /\ l[i].end \in Nat /\ l[i].start < l[i].end
      /\ \A i, j \in 1 .. Len(l) : i <= j => l[i].start <= l[j].start
    BY ListType
<1>2. ASSUME NEW i \in 1 .. k, NEW j \in 1 .. k, i < j PROVE l[i].start < l[j].start
    <2>1. i + 1 \in 2 .. k /\ i + 1 <= j /\ (i + 1) - 1 = i
        BY <1>2
    <2>2. l[i].end = l[i + 1].start
        BY <2>1 DEF Chained
    <2>3. i + 1 \in 1 .. Len(l) /\ i \in 1 .. Len(l) /\ j \in 1 .. Len(l)
        BY <1>1, <2>1
    <2>4. l[i + 1].start <= l[j].start /\ l[i].start < l[i].end
        BY <1>1, <2>1, <2>3
    <2>q. QED
        BY <1>1, <2>2, <2>3, <2>4
<1>3. ASSUME NEW i \in 1 .. k, NEW j \in 1 .. k, l[i].start = l[j].start PROVE i = j
    <2>1. ~(i < j) /\ ~(j < i)
        BY <1>1, <1>2, <1>3
    <2>q. QED
        BY <2>1
<1>4. \A i \in 1 .. k : RowOf(l, i).start = l[i].start /\ RowOf(l, i).end = l[i].end
    BY DEF RowOf
<1>5. \A q, r \in Q : q.start = r.start => q = r
    BY <1>3, <1>4
<1>6. ASSUME NEW i \in 1 .. k
      PROVE  \/ \A q \in Q : RowOf(l, i).start <= q.start
             \/ \E q \in Q : q.end = RowOf(l, i).start
    <2>1. CASE i = 1
        <3>1. \A j \in 1 .. k : l[1].start <= l[j].start
            BY <1>1
        <3>q. QED
            BY <1>4, <2>1, <3>1
    <2>2. CASE i # 1
        <3>1. i \in 2 .. k /\ i - 1 \in 1 .. k
            BY <2>2
        <3>2. RowOf(l, i - 1) \in Q /\ l[i - 1].end = l[i].start
            BY <3>1 DEF Chained
        <3>q. QED
            BY <1>4, <3>1, <3>2
    <2>q. QED
        BY <2>1, <2>2
<1>q. QED
    BY <1>5, <1>6 DEF Consecutive

\* The list as a set of rows.
LEMMA RowsType ==
    ASSUME NEW l, DOMAIN l = 1 .. Len(l)
    PROVE  /\ Rows(l) = {RowOf(l, i) : i \in 1 .. Len(l)}
           /\ \A i : RowOf(l, i).start = l[i].start /\ RowOf(l, i).end = l[i].end /\ RowOf(l, i).row = i
BY DEF Rows, RowOf

\* The scan's answer is the end of the longest prefix without a hole.
LEMMA ScanMatchesSet ==
    ASSUME NEW from, NEW l, Listed(l, from), l # <<>>
    PROVE  HighestContiguous(l) \in ContiguousEnds(Rows(l))
<1>1. /\ Len(l) \in Nat /\ DOMAIN l = 1 .. Len(l)
      /\ \A i \in 1 .. Len(l) : l[i].start \in Nat /\ l[i].end \in Nat /\ l[i].start < l[i].end
      /\ \A i, j \in 1 .. Len(l) : i <= j => l[i].start <= l[j].start
    BY ListType
<1>2. Len(l) # 0
    BY EmptySeq DEF Listed
<1>3. PICK k \in 1 .. Len(l) : Stops(l, k) /\ \A j \in 1 .. Len(l) : Stops(l, j) => k <= j
    BY <1>1, <1>2, StopExists
<1>4. HighestContiguous(l) = l[k].end
    BY <1>1, <1>3, ScanFinds
<1>5. Chained(l, k)
    <2> SUFFICES ASSUME NEW i \in 2 .. k PROVE l[i - 1].end = l[i].start
        BY DEF Chained
    <2>1. i - 1 \in 1 .. Len(l) /\ i - 1 < k /\ (i - 1) + 1 = i
        BY <1>1
    <2>2. ~Stops(l, i - 1)
        BY <1>3, <2>1
    <2>q. QED
        BY <2>1, <2>2 DEF Stops
<1> DEFINE R == Rows(l)
           Q == {RowOf(l, i) : i \in 1 .. k}
           r == RowOf(l, k)
<1>6. /\ R = {RowOf(l, i) : i \in 1 .. Len(l)}
      /\ \A i : RowOf(l, i).start = l[i].start /\ RowOf(l, i).end = l[i].end /\ RowOf(l, i).row = i
    BY <1>1, RowsType
<1>7. 1 .. k \subseteq 1 .. Len(l) /\ Q \in SUBSET R /\ r \in Q
    BY <1>1, <1>6
<1>8. Consecutive(Q)
    BY <1>5, ChainedIsConsecutive
<1>9. IsLast(r, Q)
    <2>1. \A i \in 1 .. k : l[i].start <= l[k].start
        BY <1>1
    <2>q. QED
        BY <1>6, <1>7, <2>1 DEF IsLast
<1>10. ASSUME NEW n \in R \ Q
       PROVE  \E j \in 1 .. Len(l) : k < j /\ n = RowOf(l, j)
    <2>1. PICK j \in 1 .. Len(l) : n = RowOf(l, j)
        BY <1>6
    <2>2. j \notin 1 .. k
        BY <2>1
    <2>q. QED
        BY <2>1, <2>2
<1>11. Prefix(Q, R)
    <2> SUFFICES ASSUME NEW i \in 1 .. k, NEW n \in R \ Q PROVE RowOf(l, i).start <= n.start
        BY DEF Prefix
    <2>1. PICK j \in 1 .. Len(l) : k < j /\ n = RowOf(l, j)
        BY <1>10
    <2>q. QED
        BY <1>1, <1>6, <2>1
<1>12. ASSUME NEW n \in R \ Q, IsFirst(n, R \ Q) PROVE n.start # l[k].end
    <2>1. PICK j \in 1 .. Len(l) : k < j /\ n = RowOf(l, j)
        BY <1>10
    <2>2. k + 1 \in 1 .. Len(l) /\ k + 1 <= j /\ k # Len(l) /\ k + 1 \notin 1 .. k
        BY <1>1, <2>1
    <2>3. RowOf(l, k + 1) \in R \ Q
        <3>1. \A i \in 1 .. k : RowOf(l, i) # RowOf(l, k + 1)
            BY <1>6, <2>2
        <3>q. QED
            BY <1>6, <2>2, <3>1
    <2>4. n.start <= l[k + 1].start
        BY <1>6, <1>12, <2>3 DEF IsFirst
    <2>5. l[k + 1].start <= l[j].start /\ n.start = l[j].start
        BY <1>1, <1>6, <2>1, <2>2
    <2>6. n.start = l[k + 1].start
        BY <1>1, <2>1, <2>2, <2>4, <2>5
    <2>q. QED
        BY <1>3, <2>2, <2>6 DEF Stops
<1>13. l[k].end \in Ends(R)
    BY <1>6, <1>7 DEF Ends
<1>14. \E x \in Q : IsLast(x, Q) /\ x.end = l[k].end
    BY <1>6, <1>7, <1>9
<1> HIDE DEF Q, R, r
<1>q. QED
    BY <1>4, <1>7, <1>8, <1>11, <1>12, <1>13, <1>14 DEF ContiguousEnds, R

\* The checks of an aggregation agree with the set formulation.
LEMMA ValidatesMatchesSet ==
    ASSUME NEW from, NEW l, Listed(l, from), NEW s, NEW e
    PROVE  Validates(l, s, e) <=> ValidAggregation(Rows(l), s, e)
<1> DEFINE n == Len(l)
           R == Rows(l)
<1>1. /\ n \in Nat /\ DOMAIN l = 1 .. n
      /\ \A i \in 1 .. n : l[i].start \in Nat /\ l[i].end \in Nat /\ l[i].start < l[i].end
      /\ \A i, j \in 1 .. n : i <= j => l[i].start <= l[j].start
    BY ListType
<1>2. /\ R = {RowOf(l, i) : i \in 1 .. n}
      /\ \A i : RowOf(l, i).start = l[i].start /\ RowOf(l, i).end = l[i].end /\ RowOf(l, i).row = i
    BY <1>1, RowsType
<1>3. l # <<>> <=> n # 0
    BY EmptySeq DEF Listed
<1>4. n # 0 => Head(l) = l[1] /\ Last(l) = l[n]
    <2>1. n # 0 => Head(l) = l[1]
        BY <1>3, HeadTailProperties DEF Listed
    <2>q. QED
        BY <2>1 DEF Last
<1>5. n # 0 => 1 \in 1 .. n /\ n \in 1 .. n
    BY <1>1
<1> HIDE DEF n, R
<1>6. n # 0 => IsFirst(RowOf(l, 1), R) /\ IsLast(RowOf(l, n), R)
    <2> SUFFICES ASSUME n # 0 PROVE IsFirst(RowOf(l, 1), R) /\ IsLast(RowOf(l, n), R)
        OBVIOUS
    <2>1. \A i \in 1 .. n : 1 <= i /\ i <= n /\ l[1].start <= l[i].start /\ l[i].start <= l[n].start
        BY <1>1, <1>5
    <2>q. QED
        BY <1>2, <1>5, <2>1 DEF IsFirst, IsLast
<1>7. ASSUME Validates(l, s, e) PROVE ValidAggregation(R, s, e)
    <2>1. n # 0 /\ l[1].start = s /\ l[n].end = e /\ Chained(l, n)
        BY <1>3, <1>4, <1>7 DEF Validates, Chained, n
    <2>2. Consecutive(R)
        BY <1>2, <1>5, <2>1, ChainedIsConsecutive DEF n
    <2>q. QED
        BY <1>2, <1>6, <2>1, <2>2 DEF ValidAggregation, IsFirst, IsLast
<1>8. ASSUME ValidAggregation(R, s, e) PROVE Validates(l, s, e)
    <2>1. n # 0
        <3>1. R # {}
            BY <1>8 DEF ValidAggregation
        <3>q. QED
            BY <1>1, <1>2, <3>1
    <2>2. PICK i \in 1 .. n : IsFirst(RowOf(l, i), R) /\ RowOf(l, i).start = s
        BY <1>2, <1>8 DEF ValidAggregation
    <2>3. PICK j \in 1 .. n : IsLast(RowOf(l, j), R) /\ RowOf(l, j).end = e
        BY <1>2, <1>8 DEF ValidAggregation
    <2>4. ASSUME NEW a \in 1 .. n, NEW b \in 1 .. n, l[a].start = l[b].start PROVE a = b
        <3>1. RowOf(l, a) = RowOf(l, b)
            BY <1>2, <1>8, <2>4 DEF ValidAggregation, Consecutive
        <3>q. QED
            BY <1>2, <3>1
    <2>5. l[1].start = s
        <3>1. l[i].start <= l[1].start /\ l[1].start <= l[i].start
            BY <1>2, <1>6, <2>1, <2>2 DEF IsFirst
        <3>q. QED
            BY <1>1, <1>2, <1>5, <2>1, <2>2, <3>1
    <2>6. l[n].end = e
        <3>1. l[j].start <= l[n].start /\ l[n].start <= l[j].start
            BY <1>2, <1>6, <2>1, <2>3 DEF IsLast
        <3>2. j = n
            BY <1>1, <1>5, <2>1, <2>4, <3>1
        <3>q. QED
            BY <1>2, <2>3, <3>2
    <2>7. ASSUME NEW a \in 1 .. n, NEW b \in 1 .. n, a < b PROVE l[a].start < l[b].start
        <3>1. l[a].start <= l[b].start /\ l[a].start # l[b].start
            BY <1>1, <2>4, <2>7
        <3>q. QED
            BY <1>1, <3>1
    <2> DEFINE Holes == {b \in 2 .. n : l[b - 1].end # l[b].start}
    <2>8. Holes = {}
        <3> SUFFICES ASSUME Holes # {} PROVE FALSE
            OBVIOUS
        <3>1. Holes \subseteq Nat
            BY <1>1
        <3>2. PICK b \in Holes : \A c \in Holes : b <= c
            <4> HIDE DEF Holes
            <4>q. QED
                BY <3>1, Least
        <3>3. b \in 1 .. n /\ 1 < b /\ b \in Nat
            BY <1>1
        <3>4. l[1].start < l[b].start
            BY <1>5, <2>1, <2>7, <3>3
        <3>5. PICK q \in R : q.end = RowOf(l, b).start
            <4>1. ~(l[b].start <= l[1].start)
                BY <1>1, <1>5, <2>1, <3>3, <3>4
            <4>2. RowOf(l, b) \in R /\ RowOf(l, 1) \in R
                BY <1>2, <1>5, <2>1, <3>3
            <4>3. ~\A q \in R : RowOf(l, b).start <= q.start
                BY <1>2, <4>1, <4>2
            <4>q. QED
                BY <1>8, <4>2, <4>3 DEF ValidAggregation, Consecutive
        <3>6. PICK a \in 1 .. n : l[a].end = l[b].start
            BY <1>2, <3>5
        <3>7. l[a].start < l[b].start
            BY <1>1, <3>6
        <3>8. a < b
            <4>1. b <= a => l[b].start <= l[a].start
                BY <1>1, <3>3
            <4>q. QED
                BY <1>1, <3>3, <3>7, <4>1
        <3>9. a # b - 1
            BY <3>2, <3>6
        <3>10. a + 1 \in 2 .. n /\ a + 1 < b /\ (a + 1) - 1 = a /\ a + 1 \in 1 .. n
            BY <1>1, <3>3, <3>8, <3>9
        <3>11. a + 1 \notin Holes
            BY <3>2, <3>3, <3>10
        <3>12. l[a].end = l[a + 1].start
            BY <3>10, <3>11
        <3>13. a + 1 = b
            BY <2>4, <3>3, <3>6, <3>10, <3>12
        <3>q. QED
            BY <3>3, <3>10, <3>13
    <2>9. \A b \in 2 .. n : l[b - 1].end = l[b].start
        BY <2>8
    <2>q. QED
        BY <1>3, <1>4, <2>1, <2>5, <2>6, <2>9 DEF Validates, n
<1>q. QED
    BY <1>7, <1>8 DEF R

\* get_highest_proven_contiguous_block and validate_aggregation_request answer on every list
\* what the set formulations say of its rows.
THEOREM ScansAgree == Spec => []ScansMatchSets
<1>1. LoopsInv => ScansMatchSets
    <2> SUFFICES ASSUME LoopsInv PROVE ScansMatchSets
        OBVIOUS
    <2>1. Listed(ranges, overallStart)
        BY DEF LoopsInv
    <2>q. QED
        BY <2>1, ScanMatchesSet, ValidatesMatchesSet DEF ScansMatchSets
<1>q. QED
    BY <1>1, AlwaysLoopsInv, PTL

=============================================================================
