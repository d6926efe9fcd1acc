----------------------------- MODULE RangePlanner -----------------------------
(***************************************************************************)
(* The planning loops of op-succinct/validity/src/utils.rs and of the      *)
(* aggregation step, run one iteration at a time over every sorted list of *)
(* requests up to a bound, and compared with the sets RangePlanning states *)
(* them as.                                                                *)
(***************************************************************************)
EXTENDS RangePlanning, Sequences, SequencesExt

CONSTANTS MaxBlock,    \* bound: blocks are 0 .. MaxBlock
          MaxRanges,   \* bound: length of the list of requests
          Interval     \* range_proof_interval

ASSUME PlannerAssumption ==
    /\ MaxBlock \in Nat /\ MaxRanges \in Nat /\ Interval \in Nat \ {0}

VARIABLES overallStart, overallEnd,  \* latest proposed and finalized block
          ranges,                    \* requests in order of their starts
          phase,                     \* "gaps", "chunks" or "done"
          next,                      \* index of the range or gap to look at next
          currentStart,              \* the loop's cursor
          gaps,                      \* result of find_gaps so far
          toProve                    \* result of get_ranges_to_prove so far

vars == <<overallStart, overallEnd, ranges, phase, next, currentStart, gaps, toProve>>
inputs == <<overallStart, overallEnd, ranges>>

Row == {[start |-> s, end |-> e] : s, e \in 0 .. MaxBlock}

\* The rows fetch_ranges_after_block can return: start < end and start >= latest.
\* They may overlap and repeat, which find_gaps has to tolerate.
Lists(from) ==
    {l \in BoundedSeq({r \in Row : from <= r.start /\ r.start < r.end}, MaxRanges) :
        \A i, j \in DOMAIN l : i < j => l[i].start <= l[j].start}

Init ==
    /\ overallStart \in 0 .. MaxBlock
    /\ overallEnd \in 0 .. MaxBlock
    /\ ranges \in Lists(overallStart)
    /\ phase = "gaps" /\ next = 1 /\ currentStart = overallStart
    /\ gaps = <<>> /\ toProve = <<>>

\* Mutant: the cursor follows every range, and so moves backward over nested ones.
GapStepNoMax ==
    /\ phase = "gaps" /\ next <= Len(ranges)
    /\ gaps' = IF currentStart < ranges[next].start
               THEN Append(gaps, Span(currentStart, ranges[next].start)) ELSE gaps
    /\ currentStart' = ranges[next].end
    /\ next' = next + 1
    /\ UNCHANGED <<inputs, phase, toProve>>

\* One turn of find_gaps' loop.
GapStep ==
    /\ phase = "gaps" /\ next <= Len(ranges)
    /\ gaps' = IF currentStart < ranges[next].start
               THEN Append(gaps, Span(currentStart, ranges[next].start)) ELSE gaps
    /\ currentStart' = IF ranges[next].end > currentStart
                       THEN ranges[next].end ELSE currentStart
    /\ next' = next + 1
    /\ UNCHANGED <<inputs, phase, toProve>>

\* The tail of find_gaps; get_ranges_to_prove then starts with the first gap.
GapEnd ==
    /\ phase = "gaps" /\ next > Len(ranges)
    /\ gaps' = IF currentStart < overallEnd
               THEN Append(gaps, Span(currentStart, overallEnd)) ELSE gaps
    /\ phase' = "chunks" /\ next' = 1
    /\ currentStart' = IF gaps' = <<>> THEN 0 ELSE gaps'[1].start
    /\ UNCHANGED <<inputs, toProve>>

\* One turn of get_ranges_to_prove's inner loop.
ChunkStep ==
    /\ phase = "chunks" /\ next <= Len(gaps)
    /\ currentStart < gaps[next].end
    /\ LET end == IF currentStart + Interval <= gaps[next].end
                  THEN currentStart + Interval ELSE gaps[next].end
       IN  /\ toProve' = Append(toProve, Span(currentStart, end))
           /\ currentStart' = end
    /\ UNCHANGED <<inputs, phase, next, gaps>>

\* The inner loop has consumed the gap.
NextGap ==
    /\ phase = "chunks" /\ next <= Len(gaps)
    /\ currentStart >= gaps[next].end
    /\ next' = next + 1
    /\ currentStart' = IF next < Len(gaps) THEN gaps[next + 1].start ELSE currentStart
    /\ UNCHANGED <<inputs, phase, gaps, toProve>>

\* Mutant: the last range is popped unless it is longer than the interval.
PopLastWhole ==
    /\ phase = "chunks" /\ next > Len(gaps)
    /\ toProve' = IF /\ toProve # <<>>
                     /\ Last(toProve).end - Last(toProve).start <= Interval
                  THEN Front(toProve) ELSE toProve
    /\ phase' = "done"
    /\ UNCHANGED <<inputs, next, currentStart, gaps>>

\* A last range shorter than the interval is popped.
PopLast ==
    /\ phase = "chunks" /\ next > Len(gaps)
    /\ toProve' = IF /\ toProve # <<>>
                     /\ Last(toProve).end - Last(toProve).start < Interval
                  THEN Front(toProve) ELSE toProve
    /\ phase' = "done"
    /\ UNCHANGED <<inputs, next, currentStart, gaps>>

Next == GapStep \/ GapEnd \/ ChunkStep \/ NextGap \/ PopLast

Spec == Init /\ [][Next]_vars

-----------------------------------------------------------------------------
\* Mutant: the scan goes on over a hole.
HighestOverHoles(l) == Last(l).end

\* get_highest_proven_contiguous_block as its loop computes it on a list.
HighestContiguous(l) ==
    LET end[i \in 1 .. Len(l)] ==
          IF i = Len(l) \/ l[i + 1].start # l[i].end THEN l[i].end ELSE end[i + 1]
    IN  end[1]

\* validate_aggregation_request as its checks run on a list.
Validates(l, s, e) ==
    /\ l # <<>>
    /\ Head(l).start = s
    /\ Last(l).end = e
    /\ \A i \in 2 .. Len(l) : l[i - 1].end = l[i].start

\* The list as a set of rows that keep their identity.
Rows(l) == {[start |-> l[i].start, end |-> l[i].end, row |-> i] : i \in DOMAIN l}

-----------------------------------------------------------------------------
\* find_gaps and get_ranges_to_prove return, on every list, exactly the ranges the
\* set formulations used by the proposer's module describe.
LoopsMatchSets ==
    /\ phase # "gaps" => ToSet(gaps) = FindGaps(overallStart, overallEnd, ToSet(ranges))
    /\ phase = "done" => ToSet(toProve) =
         RangesToProve(FindGaps(overallStart, overallEnd, ToSet(ranges)), Interval)

\* The scan of completed ranges in create_aggregation_proofs and the checks of
\* validate_aggregation_request agree with their set formulations on every list.
ScansMatchSets ==
    /\ (phase = "gaps" /\ next = 1 /\ ranges # <<>>) =>
         HighestContiguous(ranges) \in ContiguousEnds(Rows(ranges))
    /\ (phase = "gaps" /\ next = 1) =>
         \A s, e \in 0 .. MaxBlock :
           Validates(ranges, s, e) <=> ValidAggregation(Rows(ranges), s, e)

\* add_new_ranges never plans a range that overlaps an existing request or another
\* planned one, and up to the finalized block it leaves out only the blocks of one
\* piece shorter than the interval, above everything it plans.
PlanIsSound ==
    phase = "done" =>
      /\ \A r \in ToSet(toProve) : \A q \in ToSet(ranges) : ~Overlap(q, r)
      /\ \A i, j \in DOMAIN toProve : i < j => toProve[i].end <= toProve[j].start
      /\ LET missed == {b \in overallStart + 1 .. overallEnd :
                          ~Covers(ToSet(toProve) \cup ToSet(ranges), b)}
         IN  /\ \A b, c \in missed : b - c < Interval - 1
             /\ \A b \in missed, r \in ToSet(toProve) : r.end < b
=============================================================================
