---------------------------- MODULE RangePlanning ----------------------------
(***************************************************************************)
(* How the validity proposer decides which block ranges to prove and which *)
(* proven ranges an aggregation may cover: find_gaps, get_ranges_to_prove, *)
(* get_highest_proven_contiguous_block and validate_aggregation_request.   *)
(*                                                                         *)
(* A range is any record with fields start and end and covers the blocks   *)
(* start < b <= end.  The loops of the source are stated here as sets, so  *)
(* that the proposer's module can be proved about; RangePlanner.tla runs   *)
(* the loops themselves and compares the results.                          *)
(***************************************************************************)
EXTENDS Integers

\* A range as the planning functions return it, a tuple (start, end).
Span(s, e) == [start |-> s, end |-> e]

Starts(R) == {r.start : r \in R}
Ends(R) == {r.end : r \in R}

Overlap(q, r) == q.start < r.end /\ r.start < q.end

\* Pairwise disjoint, the rows themselves being compared and not only their
\* bounds: two rows over the same blocks overlap.
Disjoint(R) == \A q, r \in R : q # r => ~Overlap(q, r)

Covers(R, b) == \E r \in R : r.start < b /\ b <= r.end

-----------------------------------------------------------------------------
\* The cursor current_start of find_gaps after the ranges R, taken in the order
\* of their starts: it never moves backward.
Reached(c, overallStart, R) ==
    /\ c \in {overallStart} \cup Ends(R)
    /\ \A e \in {overallStart} \cup Ends(R) : e <= c

\* find_gaps: a gap before every range that starts beyond the cursor, and one
\* after the last range when the cursor has not come to overallEnd.
FindGaps(overallStart, overallEnd, R) ==
    {g \in [start : {overallStart} \cup Ends(R), end : {overallEnd} \cup Starts(R)] :
        /\ g.start < g.end
        /\ \/ /\ g.end \in Starts(R)
              /\ Reached(g.start, overallStart, {r \in R : r.start < g.end})
           \/ /\ g.end = overallEnd
              /\ Reached(g.start, overallStart, R)}

\* One gap cut into pieces of the interval, the last piece of it possibly shorter.
Chunks(g, interval) ==
    {Span(g.start + n * interval,
          IF g.start + (n + 1) * interval <= g.end
          THEN g.start + (n + 1) * interval ELSE g.end) :
        n \in {m \in 0 .. (g.end - g.start) : g.start + m * interval < g.end}}

\* get_ranges_to_prove: every piece of every gap, except that the last piece of
\* all is dropped when it is shorter than the interval.
RangesToProve(gaps, interval) ==
    LET all == UNION {Chunks(g, interval) : g \in gaps}
    IN  {c \in all : \/ c.end - c.start >= interval
                     \/ \E d \in all : c.start < d.start}

-----------------------------------------------------------------------------
\* In the order of their starts, every range but the first begins where the one
\* before it ends.
Consecutive(R) ==
    /\ \A q, r \in R : q.start = r.start => q = r
    /\ \A r \in R : \/ \A q \in R : r.start <= q.start
                    \/ \E q \in R : q.end = r.start

\* The ranges Q come first when R is sorted by start.
Prefix(Q, R) == \A q \in Q, r \in R \ Q : q.start <= r.start

IsLast(r, R) == r \in R /\ \A q \in R : q.start <= r.start
IsFirst(r, R) == r \in R /\ \A q \in R : r.start <= q.start

\* get_highest_proven_contiguous_block over the sorted completed ranges R: the
\* end of the longest consecutive prefix.  A set, empty when R is, because the
\* source leaves the order of ranges with equal starts open.
ContiguousEnds(R) ==
    {e \in Ends(R) :
        \E Q \in SUBSET R :
            /\ Prefix(Q, R) /\ Consecutive(Q)
            /\ \E r \in Q : IsLast(r, Q) /\ r.end = e
            /\ \A n \in R \ Q : IsFirst(n, R \ Q) => n.start # e}

\* validate_aggregation_request: the range proofs R found for an aggregation are
\* non-empty, begin and end with it and are consecutive.
ValidAggregation(R, s, e) ==
    /\ \E r \in R : IsFirst(r, R) /\ r.start = s
    /\ \E r \in R : IsLast(r, R) /\ r.end = e
    /\ Consecutive(R)
=============================================================================
