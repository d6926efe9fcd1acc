------------------------ MODULE ValidityProposerProofs ------------------------
(***************************************************************************)
(* What holds of the validity proposer for any chain and any limits: its   *)
(* type invariant, that a row is Relayed only if the oracle accepted its   *)
(* aggregation, and, where a task begins before the loop's next turn, that *)
(* outcomes stand, limits are kept, one aggregation is worked on and the   *)
(* live ranges neither overlap nor leave a hole under an aggregation.      *)
(***************************************************************************)
EXTENDS ValidityProposer, NaturalLemmas

-----------------------------------------------------------------------------
\* What the planning returns, for every set of requests and every interval.

Blocks == [start : Nat, end : Nat]

\* Requests have block numbers for bounds.
Bounded(R) == \A r \in R : r.start \in Nat /\ r.end \in Nat

\* ... and cover at least one block.
Proper(R) == \A r \in R : r.start \in Nat /\ r.end \in Nat /\ r.start < r.end

-----------------------------------------------------------------------------
\* Every gap find_gaps returns has block numbers for bounds.
LEMMA GapsType ==
    ASSUME NEW s \in Nat, NEW e \in Nat, NEW R, Bounded(R)
    PROVE  FindGaps(s, e, R) \subseteq Blocks
  BY DEF FindGaps, Starts, Ends, Blocks, Bounded

\* A gap is not empty, begins nowhere below the latest proposed block and overlaps no
\* request.
LEMMA GapsFree ==
    ASSUME NEW s \in Nat, NEW e \in Nat, NEW R, Bounded(R), NEW g \in FindGaps(s, e, R)
    PROVE  /\ s <= g.start /\ g.start < g.end
           /\ \A r \in R : ~Overlap(g, r)
<1>1. g.start \in Nat /\ g.end \in Nat
  BY GapsType DEF Blocks
<1>2. s <= g.start /\ g.start < g.end
  BY DEF FindGaps, Reached
<1>3. ASSUME NEW r \in R PROVE ~Overlap(g, r)
  <2>1. r.start \in Nat /\ r.end \in Nat
    BY DEF Bounded
  <2>2. r.start >= g.end \/ r.end <= g.start
    <3>1. CASE Reached(g.start, s, {q \in R : q.start < g.end})
      <4>1. r.start < g.end => r.end \in Ends({q \in R : q.start < g.end})
        BY DEF Ends
      <4> QED
        BY <1>1, <2>1, <3>1, <4>1 DEF Reached
    <3>2. CASE Reached(g.start, s, R)
      BY <3>2 DEF Reached, Ends
    <3> QED
      BY <3>1, <3>2 DEF FindGaps
  <2> QED
    BY <1>1, <2>1, <2>2 DEF Overlap
<1> QED
  BY <1>2, <1>3

\* The cursor of find_gaps has one value.
LEMMA ReachedOnce ==
    ASSUME NEW s \in Nat, NEW R, Bounded(R), NEW c, NEW d, Reached(c, s, R), Reached(d, s, R)
    PROVE  c = d
<1>1. c \in Nat /\ d \in Nat
  BY DEF Reached, Ends, Bounded
<1>2. c <= d /\ d <= c
  BY DEF Reached
<1> QED
  BY <1>1, <1>2

\* Two gaps of which one begins inside the other are the same.
LEMMA GapsDisjoint ==
    ASSUME NEW s \in Nat, NEW e \in Nat, NEW R, Proper(R),
           NEW g \in FindGaps(s, e, R), NEW h \in FindGaps(s, e, R), Overlap(g, h)
    PROVE  g = h
<1> DEFINE Before(x) == {q \in R : q.start < x.end}
           AtRequest(x) == x.end \in Starts(R) /\ Reached(x.start, s, Before(x))
           AtEnd(x) == x.end = e /\ Reached(x.start, s, R)
<1>1. Bounded(R) /\ g \in Blocks /\ h \in Blocks
  BY GapsType DEF Bounded, Proper
<1>2. \A x \in FindGaps(s, e, R) : AtRequest(x) \/ AtEnd(x)
  BY DEF FindGaps
<1>3. g.start < h.end /\ h.start < g.end
  BY DEF Overlap
<1>4. ASSUME NEW x \in Blocks, NEW y \in Blocks, AtRequest(x), y.start < x.end,
             AtEnd(y) \/ (AtRequest(y) /\ x.end < y.end)
      PROVE  FALSE
  <2>1. PICK r \in R : r.start = x.end
    BY <1>4 DEF Starts
  <2>2. r.end <= y.start
    BY <1>4, <2>1 DEF Reached, Ends
  <2> QED
    BY <1>4, <2>1, <2>2 DEF Proper, Blocks
<1>5. g.start = h.start /\ g.end = h.end
  <2>1. CASE AtEnd(g) /\ AtEnd(h)
    BY <1>1, <2>1, ReachedOnce
  <2>2. CASE AtRequest(g) /\ AtEnd(h)
    BY <1>1, <1>3, <1>4, <2>2
  <2>3. CASE AtEnd(g) /\ AtRequest(h)
    BY <1>1, <1>3, <1>4, <2>3
  <2>4. CASE AtRequest(g) /\ AtRequest(h)
    <3>1. ~(g.end < h.end) /\ ~(h.end < g.end)
      BY <1>1, <1>3, <1>4, <2>4
    <3>2. g.end = h.end
      BY <1>1, <3>1 DEF Blocks
    <3>3. Bounded(Before(g))
      BY <1>1 DEF Bounded
    <3>4. g.start = h.start
      BY <2>4, <3>2, <3>3, ReachedOnce
    <3> QED
      BY <3>2, <3>4
  <2> QED
    BY <1>2, <2>1, <2>2, <2>3, <2>4
<1> QED
  BY <1>1, <1>5 DEF Blocks

-----------------------------------------------------------------------------
\* The n-th piece of a gap.
Piece(g, interval, n) ==
    Span(g.start + n * interval,
         IF g.start + (n + 1) * interval <= g.end
         THEN g.start + (n + 1) * interval ELSE g.end)

\* A piece lies within the next multiple of the interval and is not empty.
LEMMA PieceBounds ==
    ASSUME NEW g \in Blocks, NEW interval \in Nat \ {0}, NEW n \in Nat,
           g.start + n * interval < g.end,
           NEW c, c = Piece(g, interval, n)
    PROVE  /\ c \in Blocks /\ c.start = g.start + n * interval
           /\ g.start <= c.start /\ c.start < c.end /\ c.end <= g.end
           /\ c.end <= g.start + (n + 1) * interval
<1>1. n * interval \in Nat /\ (n + 1) * interval = n * interval + interval
  BY MultiplesOrdered
<1>2. g.start \in Nat /\ g.end \in Nat
  BY DEF Blocks
<1>3. PICK low \in Nat : low = n * interval
  BY <1>1
<1>4. (n + 1) * interval = low + interval
  BY <1>1, <1>3
<1>5. c = Span(g.start + low,
               IF g.start + (low + interval) <= g.end THEN g.start + (low + interval) ELSE g.end)
  BY <1>3, <1>4 DEF Piece
<1>6. g.start + low < g.end
  BY <1>3
<1> QED
  BY <1>2, <1>3, <1>4, <1>5, <1>6 DEF Span, Blocks

\* A chunk is one of the pieces.
LEMMA ChunkIsPiece ==
    ASSUME NEW g \in Blocks, NEW interval \in Nat \ {0}, NEW c \in Chunks(g, interval)
    PROVE  \E n \in Nat : g.start + n * interval < g.end /\ c = Piece(g, interval, n)
<1>1. \A m \in 0 .. (g.end - g.start) : m \in Nat
  BY DEF Blocks
<1> QED
  BY <1>1 DEF Chunks, Piece

\* A chunk is not empty and lies within its gap.
LEMMA ChunkWithin ==
    ASSUME NEW g \in Blocks, NEW interval \in Nat \ {0}, NEW c \in Chunks(g, interval)
    PROVE  c \in Blocks /\ g.start <= c.start /\ c.start < c.end /\ c.end <= g.end
  BY ChunkIsPiece, PieceBounds

\* Two chunks of a gap that overlap are the same.
LEMMA ChunksDisjoint ==
    ASSUME NEW g \in Blocks, NEW interval \in Nat \ {0},
           NEW c \in Chunks(g, interval), NEW d \in Chunks(g, interval), Overlap(c, d)
    PROVE  c = d
<1>1. PICK m \in Nat : g.start + m * interval < g.end /\ c = Piece(g, interval, m)
  BY ChunkIsPiece
<1>2. PICK n \in Nat : g.start + n * interval < g.end /\ d = Piece(g, interval, n)
  BY ChunkIsPiece
<1>3. /\ c \in Blocks /\ c.start = g.start + m * interval
      /\ c.end <= g.start + (m + 1) * interval
  BY <1>1, PieceBounds
<1>4. /\ d \in Blocks /\ d.start = g.start + n * interval
      /\ d.end <= g.start + (n + 1) * interval
  BY <1>2, PieceBounds
<1>5. c.start < d.end /\ d.start < c.end
  BY DEF Overlap
<1>6. ~(m + 1 <= n)
  <2> SUFFICES ASSUME m + 1 <= n PROVE FALSE
    OBVIOUS
  <2>1. (m + 1) * interval \in Nat /\ n * interval \in Nat /\ (m + 1) * interval <= n * interval
    BY MultiplesOrdered
  <2> QED
    BY <1>3, <1>4, <1>5, <2>1 DEF Blocks
<1>7. ~(n + 1 <= m)
  <2> SUFFICES ASSUME n + 1 <= m PROVE FALSE
    OBVIOUS
  <2>1. (n + 1) * interval \in Nat /\ m * interval \in Nat /\ (n + 1) * interval <= m * interval
    BY MultiplesOrdered
  <2> QED
    BY <1>3, <1>4, <1>5, <2>1 DEF Blocks
<1> QED
  BY <1>1, <1>2, <1>6, <1>7

-----------------------------------------------------------------------------
\* What add_new_ranges plans from the latest proposed block s to the finalized block e,
\* with the requests R in the table.
Planned(s, e, R, interval) == RangesToProve(FindGaps(s, e, R), interval)

\* A planned range lies in a gap.
LEMMA PlannedInGap ==
    ASSUME NEW s, NEW e, NEW R, NEW interval, NEW c \in Planned(s, e, R, interval)
    PROVE  \E g \in FindGaps(s, e, R) : c \in Chunks(g, interval)
  BY DEF Planned, RangesToProve

\* A planned range is not empty, begins at the latest proposed block or later and
\* overlaps no request.
LEMMA PlannedFree ==
    ASSUME NEW s \in Nat, NEW e \in Nat, NEW interval \in Nat \ {0}, NEW R, Bounded(R),
           NEW c \in Planned(s, e, R, interval)
    PROVE  /\ c \in Blocks /\ s <= c.start /\ c.start < c.end
           /\ \A r \in R : ~Overlap(c, r)
<1>1. PICK g \in FindGaps(s, e, R) : c \in Chunks(g, interval)
  BY PlannedInGap
<1>2. g \in Blocks
  BY GapsType
<1>3. c \in Blocks /\ g.start <= c.start /\ c.start < c.end /\ c.end <= g.end
  BY <1>1, <1>2, ChunkWithin
<1>4. s <= g.start /\ \A r \in R : ~Overlap(g, r)
  BY GapsFree
<1> QED
  BY <1>2, <1>3, <1>4 DEF Blocks, Bounded, Overlap

\* Two planned ranges that overlap are the same.
LEMMA PlannedDisjoint ==
    ASSUME NEW s \in Nat, NEW e \in Nat, NEW interval \in Nat \ {0}, NEW R, Proper(R),
           NEW c \in Planned(s, e, R, interval), NEW d \in Planned(s, e, R, interval),
           Overlap(c, d)
    PROVE  c = d
<1>1. PICK g \in FindGaps(s, e, R) : c \in Chunks(g, interval)
  BY PlannedInGap
<1>2. PICK h \in FindGaps(s, e, R) : d \in Chunks(h, interval)
  BY PlannedInGap
<1>3. g \in Blocks /\ h \in Blocks
  BY GapsType DEF Proper, Bounded
<1>4. c \in Blocks /\ g.start <= c.start /\ c.end <= g.end
  BY <1>1, <1>3, ChunkWithin
<1>5. d \in Blocks /\ h.start <= d.start /\ d.end <= h.end
  BY <1>2, <1>3, ChunkWithin
<1>6. Overlap(g, h)
  BY <1>3, <1>4, <1>5 DEF Overlap, Blocks
<1>7. g = h
  BY <1>6, GapsDisjoint
<1> QED
  BY <1>1, <1>2, <1>3, <1>7, ChunksDisjoint

-----------------------------------------------------------------------------
\* The range proofs a valid aggregation is made of leave no block of it out: whatever is
\* to be proved within its bounds overlaps one of them.
LEMMA TilingCovers ==
    ASSUME NEW T, Proper(T), NEW s \in Nat, NEW e \in Nat, ValidAggregation(T, s, e),
           NEW r, Proper({r}), s <= r.start, r.end <= e
    PROVE  \E t \in T : Overlap(t, r)
<1> DEFINE Beyond == {t \in T : r.start < t.end}
           Froms == {t.start : t \in Beyond}
<1>1. r.start \in Nat /\ r.end \in Nat /\ r.start < r.end
  BY DEF Proper
<1>2. PICK first \in T : first.start = s
  BY DEF ValidAggregation
<1>3. PICK last \in T : last.end = e
  BY DEF ValidAggregation
<1>4. last \in Beyond
  BY <1>1, <1>3 DEF Proper
<1>5. PICK x \in Froms : \A y \in Froms : x <= y
  <2>1. Froms \subseteq Nat /\ Froms # {}
    BY <1>4 DEF Proper
  <2> HIDE DEF Froms
  <2> QED
    BY <2>1, Least
<1>6. PICK t \in Beyond : t.start = x
  BY <1>5
<1>7. CASE t.start < r.end
  BY <1>6, <1>7 DEF Overlap
<1>8. CASE r.end <= t.start
  <2>1. ~\A q \in T : t.start <= q.start
    BY <1>1, <1>2, <1>8 DEF Proper
  <2>2. PICK q \in T : q.end = t.start
    BY <1>6, <2>1 DEF ValidAggregation, Consecutive
  <2>3. q \in Beyond /\ q.start < t.start
    BY <1>1, <1>8, <2>2 DEF Proper
  <2>4. t.start <= q.start
    BY <1>5, <1>6, <2>3
  <2> QED
    BY <2>3, <2>4 DEF Proper
<1> QED
  BY <1>1, <1>6, <1>7, <1>8 DEF Proper

\* Its last range proof ends where it ends.
LEMMA TilingEnds ==
    ASSUME NEW T, NEW s, NEW e, ValidAggregation(T, s, e)
    PROVE  \E t \in T : t.end = e
  BY DEF ValidAggregation

-----------------------------------------------------------------------------

\* add_new_ranges plans ranges between block numbers.
LEMMA RangesType ==
    ASSUME NEW s \in Nat, NEW e \in Nat, NEW interval \in Nat \ {0}, NEW R, Bounded(R)
    PROVE  RangesToProve(FindGaps(s, e, R), interval) \subseteq Blocks
  BY PlannedFree DEF Planned

\* A request is split in the middle.
LEMMA HalvesType ==
    ASSUME NEW k \in Row
    PROVE  Halves(k) \subseteq Blocks
<1>1. k.start \in Nat /\ k.end \in Nat
  BY DEF Row
<1>2. (k.start + k.end) \div 2 \in Nat
  BY <1>1
<1> QED
  BY <1>1, <1>2 DEF Halves, Span, Blocks

-----------------------------------------------------------------------------
\* The table stays a table of requests.

RequestsOK(q) == q \in [DOMAIN q -> Status] /\ DOMAIN q \subseteq Row

\* A row with room among the attempts is a row of the table's type.
LEMMA NewRowType ==
    ASSUME config \in Configs, NEW type \in {"Range", "Aggregation"}, NEW r \in Blocks,
           Unused(type, r) # {}
    PROVE  NewRow(type, r) \in Row
<1>1. (CHOOSE a \in Unused(type, r) : TRUE) \in Attempts
  BY DEF Unused
<1> QED
  BY <1>1 DEF NewRow, Row, Blocks

\* All rows one call inserts are.
LEMMA NewRowsType ==
    ASSUME config \in Configs, NEW type \in {"Range", "Aggregation"},
           NEW R \in SUBSET Blocks, Room(type, R)
    PROVE  {NewRow(type, r) : r \in R} \subseteq Row
  BY NewRowType DEF Room

\* Failing rows and inserting others keeps the table's type.
LEMMA TableType ==
    ASSUME RequestsOK(requests), NEW failed, NEW new \in SUBSET Row
    PROVE  RequestsOK(Table(failed, new))
<1>1. \A k \in DOMAIN requests : requests[k] \in Status
  BY DEF RequestsOK
<1> QED
  BY <1>1 DEF RequestsOK, Table, Status

\* So does an update of a row's status.
LEMMA UpdateType ==
    ASSUME RequestsOK(requests), NEW k, NEW s \in Status
    PROVE  RequestsOK([requests EXCEPT ![k] = s])
  BY DEF RequestsOK

\* handle_failed_request, whether it goes through or stops after its first write.
LEMMA HandleFailedType ==
    ASSUME RequestsOK(requests), config \in Configs, NEW k \in Row, NEW u \in BOOLEAN,
           HandleFailed(k, u) \/ HandleFailedHalfway(k)
    PROVE  RequestsOK(requests')
<1>1. CASE HandleFailedHalfway(k)
  BY <1>1, TableType DEF HandleFailedHalfway
<1>2. CASE HandleFailed(k, u) /\ MustSplit(k, u)
  <2>1. {NewRow("Range", h) : h \in Halves(k)} \subseteq Row
    BY <1>2, HalvesType, NewRowsType DEF HandleFailed
  <2> QED
    BY <1>2, <2>1, TableType DEF HandleFailed
<1>3. CASE HandleFailed(k, u) /\ ~MustSplit(k, u)
  BY <1>3, TableType DEF HandleFailed
<1> QED
  BY <1>1, <1>2, <1>3

-----------------------------------------------------------------------------
\* The type invariant.

\* The initial state has the right types.
LEMMA InitType == Init => TypeOK
<1> SUFFICES ASSUME Init PROVE TypeOK
  OBVIOUS
<1> USE ConstantsAssumption DEF Init, TypeOK
<1> QED
  OBVIOUS

\* A bounded failure keeps the counters in their bounds.
LEMMA FailType ==
    ASSUME TypeOK, Fail
    PROVE  failures' \in 0 .. MaxFailures /\ crashes' \in 0 .. MaxCrashes
  BY ConstantsAssumption DEF TypeOK, Fail

\* Starting a turn of the loop keeps the types.
LEMMA StartWakeType ==
    ASSUME TypeOK, Start \/ Wake
    PROVE  TypeOK'
<1>1. CASE Start
  <2>1. RequestsOK(requests')
    BY <1>1 DEF Start, TypeOK, RequestsOK, Status
  <2> QED
    BY <1>1, <2>1 DEF Start, TypeOK, RequestsOK, chainVars, budgets
<1>2. CASE Wake
  BY <1>2 DEF Wake, TypeOK, chainVars, budgets
<1> QED
  BY <1>1, <1>2

\* Collecting finished tasks and failing orphans keeps the types.
LEMMA OngoingType ==
    ASSUME TypeOK,
           \/ FetchOrphans \/ FetchProving
           \/ \E k \in worklist : Reap(k) \/ FailOrphan(k)
    PROVE  TypeOK'
<1>1. CASE FetchOrphans
  BY <1>1 DEF FetchOrphans, With, TypeOK, chainVars, budgets
<1>2. CASE FetchProving
  BY <1>2 DEF FetchProving, With, TypeOK, chainVars, budgets
<1>3. ASSUME NEW k \in worklist, Reap(k) PROVE TypeOK'
  <2>1. k \in Row /\ config \in Configs /\ RequestsOK(requests)
    BY DEF TypeOK, RequestsOK
  <2>2. RequestsOK(requests')
    BY <1>3, <2>1, HandleFailedType DEF Reap
  <2>3. /\ tasks' \in [DOMAIN tasks' -> Running \cup Finished]
        /\ DOMAIN tasks' \subseteq Task
    BY <1>3 DEF Reap, TypeOK
  <2> QED
    BY <1>3, <2>2, <2>3 DEF Reap, RequestsOK, TypeOK, chainVars, budgets
<1>4. ASSUME NEW k \in worklist, FailOrphan(k) PROVE TypeOK'
  <2>1. RequestsOK(requests')
    BY <1>4, TableType DEF FailOrphan, TypeOK, RequestsOK
  <2> QED
    BY <1>4, <2>1 DEF FailOrphan, RequestsOK, TypeOK, chainVars, budgets
<1> QED
  BY <1>1, <1>2, <1>3, <1>4

\* Polling the network keeps the types.
LEMMA PollType ==
    ASSUME TypeOK, NEW k \in worklist, PollPending(k) \/ PollFulfilled(k) \/ PollFailed(k)
    PROVE  TypeOK'
<1>1. CASE PollPending(k)
  BY <1>1 DEF PollPending, TypeOK, chainVars, budgets
<1>2. CASE PollFulfilled(k)
  <2>1. RequestsOK(requests')
    BY <1>2, UpdateType DEF PollFulfilled, TypeOK, RequestsOK, Status
  <2> QED
    BY <1>2, <2>1 DEF PollFulfilled, RequestsOK, TypeOK, chainVars, budgets
<1>3. CASE PollFailed(k)
  <2>1. k \in Row /\ config \in Configs /\ RequestsOK(requests)
    BY DEF TypeOK, RequestsOK
  <2>2. RequestsOK(requests')
    BY <1>3, <2>1, HandleFailedType DEF PollFailed
  <2> QED
    BY <1>3, <2>2, FailType DEF PollFailed, RequestsOK, TypeOK, chainVars
<1> QED
  BY <1>1, <1>2, <1>3

\* Planning ranges and inserting them keeps the types.
LEMMA PlanType ==
    ASSUME TypeOK, AddNewRanges \/ NoNewFinalized
    PROVE  TypeOK'
<1>1. CASE AddNewRanges
  <2> DEFINE R == RangesAfter(Active, latest)
             new == RangesToProve(FindGaps(latest, finalized, R), RangeInterval)
  <2>1. Bounded(R)
    BY DEF RangesAfter, With, TypeOK, Row, Bounded
  <2>2. new \subseteq Blocks
    BY <2>1, RangesType, ConstantsAssumption DEF TypeOK
  <2>3. Room("Range", new) /\ requests' = Table({}, {NewRow("Range", r) : r \in new})
    BY <1>1 DEF AddNewRanges
  <2>4. RequestsOK(requests')
    <3> HIDE DEF new
    <3>1. {NewRow("Range", r) : r \in new} \subseteq Row
      BY <2>2, <2>3, NewRowsType DEF TypeOK
    <3> QED
      BY <2>3, <3>1, TableType DEF TypeOK, RequestsOK
  <2> QED
    BY <1>1, <2>4 DEF AddNewRanges, RequestsOK, TypeOK, chainVars, budgets
<1>2. CASE NoNewFinalized
  BY <1>2 DEF NoNewFinalized, TypeOK, chainVars, budgets
<1> QED
  BY <1>1, <1>2

\* Inserting an aggregation keeps the table's type.
LEMMA InsertAggregationType ==
    ASSUME TypeOK, NEW r \in Blocks, InsertAggregation(r)
    PROVE  RequestsOK(requests')
<1>1. {NewRow("Aggregation", q) : q \in {r}} \subseteq Row
  BY NewRowsType DEF InsertAggregation, TypeOK
<1>2. requests' = Table({}, {NewRow("Aggregation", r)})
  BY DEF InsertAggregation
<1> QED
  BY <1>1, <1>2, TableType DEF TypeOK, RequestsOK

\* An aggregation ends where one of the range proofs ends.
LEMMA PlannedType ==
    ASSUME TypeOK, NEW end \in ContiguousEnds(RangesAfter({"Complete"}, latest))
    PROVE  Span(latest, end) \in Blocks
  BY DEF ContiguousEnds, Ends, RangesAfter, With, TypeOK, Row, Span, Blocks

\* Making an aggregation, with or without a checkpoint transaction, keeps the types.
LEMMA AggregationType ==
    ASSUME TypeOK, NoAggregation \/ ReuseCheckpoint \/ SendCheckpoint \/ Checkpointed
    PROVE  TypeOK'
<1>1. CASE NoAggregation
  BY <1>1 DEF NoAggregation, TypeOK, chainVars, budgets
<1>2. CASE ReuseCheckpoint
  <2>1. RequestsOK(requests')
    BY <1>2, PlannedType, InsertAggregationType DEF ReuseCheckpoint
  <2> QED
    BY <1>2, <2>1 DEF ReuseCheckpoint, RequestsOK, TypeOK, chainVars, budgets
<1>3. CASE SendCheckpoint
  <2>1. planned' \subseteq Blocks
    BY <1>3, PlannedType DEF SendCheckpoint
  <2> QED
    BY <1>3, <2>1 DEF SendCheckpoint, Blocks, TypeOK, chainVars, budgets
<1>4. CASE Checkpointed
  <2>1. RequestsOK(requests')
    BY <1>4, InsertAggregationType DEF Checkpointed, TypeOK, Blocks
  <2> QED
    BY <1>4, <2>1 DEF Checkpointed, RequestsOK, TypeOK, chainVars, budgets
<1> QED
  BY <1>1, <1>2, <1>3, <1>4

\* Spawning a task keeps the types.
LEMMA QueueType ==
    ASSUME TypeOK, RequestQueued \/ NothingQueued
    PROVE  TypeOK'
<1>1. CASE RequestQueued
  <2>1. PICK k \in NextRequests :
          LET old == {t \in {Handle(k)} \cap DOMAIN tasks : tasks[t] \in Running}
              dropped == {Detached(k) : t \in old}
          IN  tasks' = [t \in DOMAIN tasks \cup {Handle(k)} \cup dropped |->
                          IF t = Handle(k) THEN "spawned"
                          ELSE IF t \in dropped THEN tasks[Handle(k)] ELSE tasks[t]]
    BY <1>1 DEF RequestQueued
  <2>2. k \in Row
    BY DEF NextRequests, FirstOf, AggregationsAfter, RangesAfter, With, TypeOK
  <2>3. Handle(k) \in Task /\ Detached(k) \in Task
    BY <2>2 DEF Handle, Detached, Task
  <2>4. \A t \in DOMAIN tasks : tasks[t] \in Running \cup Finished
    BY DEF TypeOK
  <2> DEFINE old == {t \in {Handle(k)} \cap DOMAIN tasks : tasks[t] \in Running}
             dropped == {Detached(k) : t \in old}
  <2>5. dropped \subseteq Task /\ (dropped # {} => tasks[Handle(k)] \in Running)
    BY <2>3
  <2>6. tasks' = [t \in DOMAIN tasks \cup {Handle(k)} \cup dropped |->
                    IF t = Handle(k) THEN "spawned"
                    ELSE IF t \in dropped THEN tasks[Handle(k)] ELSE tasks[t]]
    BY <2>1
  <2>7. /\ tasks' \in [DOMAIN tasks' -> Running \cup Finished]
        /\ DOMAIN tasks' \subseteq Task
    <3> HIDE DEF dropped
    <3>1. DOMAIN tasks' = DOMAIN tasks \cup {Handle(k)} \cup dropped
      BY <2>6
    <3>2. \A t \in DOMAIN tasks' : tasks'[t] \in Running \cup Finished
      BY <2>4, <2>5, <2>6 DEF Running
    <3> QED
      BY <2>3, <2>5, <2>6, <3>1, <3>2 DEF TypeOK
  <2> QED
    BY <1>1, <2>7 DEF RequestQueued, TypeOK, chainVars, budgets
<1>2. CASE NothingQueued
  BY <1>2 DEF NothingQueued, TypeOK, chainVars, budgets
<1> QED
  BY <1>1, <1>2

\* Relaying keeps the types, and so do errors and crashes, after which nothing of the
\* turn is left.
LEMMA RelayType ==
    ASSUME TypeOK, SendRelay \/ NothingToRelay \/ ConfirmRelay
    PROVE  TypeOK'
<1>1. CASE SendRelay
  <2>1. PICK k \in AggregationsAfter({"Complete"}, latest) :
          relaying' = {k} /\ mempool' = mempool \cup {[aggregation |-> k, awaited |-> TRUE]}
    BY <1>1 DEF SendRelay
  <2>2. k \in Row
    BY DEF AggregationsAfter, With, TypeOK
  <2>3. \A x \in mempool : ~x.awaited
    BY <1>1 DEF SendRelay, TypeOK
  <2>4. mempool' \subseteq [aggregation : Row, awaited : BOOLEAN]
    <3>1. [aggregation |-> k, awaited |-> TRUE] \in [aggregation : Row, awaited : BOOLEAN]
      BY <2>2
    <3> QED
      BY <2>1, <3>1 DEF TypeOK
  <2>5. receipt' = "none"
    BY <1>1 DEF SendRelay, TypeOK
  <2>6. \A x \in mempool' : x.awaited => relaying' = {x.aggregation}
    BY <2>1, <2>3
  <2> QED
    BY <1>1, <2>1, <2>2, <2>4, <2>5, <2>6 DEF SendRelay, TypeOK, budgets
<1>2. CASE NothingToRelay
  BY <1>2 DEF NothingToRelay, TypeOK, chainVars, budgets
<1>3. CASE ConfirmRelay
  <2>1. RequestsOK(requests')
    BY <1>3, UpdateType DEF ConfirmRelay, TypeOK, RequestsOK, Status
  <2> QED
    BY <1>3, <2>1 DEF ConfirmRelay, RequestsOK, TypeOK, chainVars, budgets
<1> QED
  BY <1>1, <1>2, <1>3

LEMMA ForgetType ==
    ASSUME TypeOK, Forget
    PROVE  /\ mempool' \subseteq [aggregation : Row, awaited : BOOLEAN]
           /\ \A x \in mempool' : ~x.awaited
<1>1. mempool' = {[aggregation |-> x.aggregation, awaited |-> FALSE] : x \in mempool}
  BY DEF Forget
<1>2. \A x \in mempool : x.aggregation \in Row
  BY DEF TypeOK
<1>3. \A r \in Row : [aggregation |-> r, awaited |-> FALSE] \in [aggregation : Row, awaited : BOOLEAN]
  OBVIOUS
<1> QED
  BY <1>1, <1>2, <1>3

LEMMA InterruptType ==
    ASSUME TypeOK, RelayReverted \/ LoopError \/ Crash
    PROVE  TypeOK'
<1>0. Forget
  BY DEF RelayReverted, LoopError, Crash
<1>1. /\ worklist' = {} /\ planned' = {} /\ relaying' = {} /\ receipt' = "none"
      /\ mempool' \subseteq [aggregation : Row, awaited : BOOLEAN]
      /\ \A x \in mempool' : ~x.awaited
  BY <1>0, ForgetType DEF Forget
<1>2. CASE RelayReverted \/ LoopError
  BY <1>1, <1>2 DEF RelayReverted, LoopError, TypeOK, budgets
<1>3. CASE Crash
  BY <1>1, <1>3, ConstantsAssumption DEF Crash, TypeOK
<1> QED
  BY <1>2, <1>3

\* The tasks keep the types.
LEMMA BecomesType ==
    ASSUME TypeOK, NEW t \in DOMAIN tasks, NEW phase \in Running \cup Finished,
           Becomes(t, phase)
    PROVE  tasks' \in [DOMAIN tasks' -> Running \cup Finished] /\ DOMAIN tasks' \subseteq Task
  BY DEF Becomes, TypeOK

LEMMA TasksType ==
    ASSUME TypeOK, NEW t \in DOMAIN tasks,
           TaskBegin(t) \/ TaskWitness(t) \/ TaskFinish(t) \/ TaskFail(t)
    PROVE  TypeOK'
<1> USE DEF TypeOK, loopVars, chainVars, budgets
<1>1. CASE TaskBegin(t)
  <2>1. RequestsOK(requests')
    BY <1>1, UpdateType DEF TaskBegin, RequestsOK, Status
  <2> QED
    BY <1>1, <2>1, BecomesType DEF TaskBegin, RequestsOK, Running
<1>2. CASE TaskWitness(t)
  <2>1. RequestsOK(requests')
    BY <1>2, UpdateType DEF TaskWitness, RequestsOK, Status
  <2> QED
    BY <1>2, <2>1, BecomesType DEF TaskWitness, RequestsOK, Running
<1>3. CASE TaskFinish(t)
  <2>1. RequestsOK(requests')
    BY <1>3, UpdateType DEF TaskFinish, RequestsOK, Status
  <2> QED
    BY <1>3, <2>1, BecomesType DEF TaskFinish, RequestsOK, Finished
<1>4. CASE TaskFail(t)
  BY <1>4, BecomesType, FailType DEF TaskFail, Finished
<1> QED
  BY <1>1, <1>2, <1>3, <1>4

\* The chain keeps the types.
LEMMA ChainType ==
    ASSUME TypeOK, ChainStep
    PROVE  TypeOK'
<1>1. CASE Finalize
  <2>1. finalized' \in Nat
    BY <1>1, ConstantsAssumption DEF Finalize, TypeOK
  <2> QED
    BY <1>1, <2>1 DEF Finalize, TypeOK, loopVars, budgets
<1>2. ASSUME NEW x \in mempool, Mine(x) PROVE TypeOK'
  <2>1. x.aggregation \in Row /\ x.aggregation.end \in Nat
    BY DEF TypeOK, Row
  <2>2. mempool' = mempool \ {x} /\ UNCHANGED relaying
    BY <1>2 DEF Mine
  <2>3. \A y \in mempool' : y.awaited => ~x.awaited
    <3> SUFFICES ASSUME NEW y \in mempool', y.awaited, x.awaited PROVE FALSE
      OBVIOUS
    <3>1. y \in [aggregation : Row, awaited : BOOLEAN] /\ x \in [aggregation : Row, awaited : BOOLEAN]
      BY <2>2 DEF TypeOK
    <3>2. y.aggregation = x.aggregation /\ y.awaited = TRUE /\ x.awaited = TRUE
      BY <2>2, <3>1 DEF TypeOK
    <3>3. y = x
      BY <3>1, <3>2
    <3> QED
      BY <2>2, <3>3
  <2>4. ~x.awaited => receipt' = receipt
    BY <1>2 DEF Mine
  <2>5. x.awaited => pc = "receipt"
    BY DEF TypeOK
  <2>6. \A y \in mempool' : y.awaited => receipt' = "none" /\ relaying' = {y.aggregation}
    BY <2>2, <2>3, <2>4 DEF TypeOK
  <2>7. receipt' \in {"none", "landed", "reverted"} /\ (receipt' # "none" => pc' = "receipt")
    BY <1>2, <2>4, <2>5 DEF Mine, TypeOK
  <2>8. latest' \in Nat /\ landed' \subseteq Row
    BY <1>2, <2>1 DEF Mine, TypeOK
  <2> QED
    BY <1>2, <2>2, <2>6, <2>7, <2>8 DEF Mine, TypeOK, budgets
<1>3. CASE ProposeElsewhere
  <2>1. latest' \in Nat
    BY <1>3, ConstantsAssumption DEF ProposeElsewhere, TypeOK
  <2> QED
    BY <1>3, <2>1 DEF ProposeElsewhere, TypeOK, loopVars, budgets
<1> QED
  BY <1>1, <1>2, <1>3 DEF ChainStep

\* Every step keeps the types.
LEMMA NextType == TypeOK /\ [Next]_vars => TypeOK'
<1> SUFFICES ASSUME TypeOK, [Next]_vars PROVE TypeOK'
  OBVIOUS
<1>1. CASE LoopProgress
  <2>1. CASE Start \/ Wake
    BY <2>1, StartWakeType
  <2>2. CASE FetchOrphans \/ FetchProving \/ \E k \in worklist : Reap(k) \/ FailOrphan(k)
    BY <2>2, OngoingType
  <2>3. CASE \E k \in worklist : PollPending(k) \/ PollFulfilled(k)
    BY <2>3, PollType
  <2>4. CASE AddNewRanges \/ NoNewFinalized
    BY <2>4, PlanType
  <2>5. CASE NoAggregation \/ ReuseCheckpoint \/ SendCheckpoint \/ Checkpointed
    BY <2>5, AggregationType
  <2>6. CASE RequestQueued \/ NothingQueued
    BY <2>6, QueueType
  <2>7. CASE SendRelay \/ NothingToRelay \/ ConfirmRelay
    BY <2>7, RelayType
  <2>8. CASE RelayReverted
    BY <2>8, InterruptType
  <2> QED
    BY <1>1, <2>1, <2>2, <2>3, <2>4, <2>5, <2>6, <2>7, <2>8 DEF LoopProgress
<1>2. CASE LoopFailure
  BY <1>2, InterruptType, PollType DEF LoopFailure
<1>3. CASE TaskProgress \/ TaskFailure
  BY <1>3, TasksType DEF TaskProgress, TaskFailure
<1>4. CASE ChainStep
  BY <1>4, ChainType
<1>5. CASE UNCHANGED vars
  BY <1>5 DEF vars, loopVars, chainVars, budgets, TypeOK
<1> QED
  BY <1>1, <1>2, <1>3, <1>4, <1>5 DEF Next

\* Whatever the intervals, limits, failures and other proposers: the table, the tasks and
\* the local variables of a turn keep their types, no turn begins with anything an earlier
\* one fetched or decided, and at most one relay transaction is being waited for.
THEOREM TypeCorrect == Spec => []TypeOK
<1>1. Init => TypeOK
  BY InitType
<1>2. TypeOK /\ [Next]_vars => TypeOK'
  BY NextType
<1> QED
  BY <1>1, <1>2, PTL DEF Spec

-----------------------------------------------------------------------------
\* A row is Relayed only if the oracle accepted its aggregation.  That is not inductive:
\* update_request_to_relayed relies on the receipt being the one of the aggregation the
\* turn has sent, which the second conjunct and the mempool's part of TypeOK say.
RelayInv ==
    /\ RelayedLanded
    /\ receipt = "landed" => relaying \subseteq landed

\* The step relays no row.
NoNewRelayed ==
    \A k \in DOMAIN requests' :
        requests'[k] = "Relayed" => k \in DOMAIN requests /\ requests[k] = "Relayed"

\* Failing rows and inserting others relays none.
LEMMA TableNotRelayed ==
    ASSUME NEW failed, NEW new, requests' = Table(failed, new)
    PROVE  NoNewRelayed
  BY DEF Table, NoNewRelayed

\* handle_failed_request relays none.
LEMMA HandleFailedNotRelayed ==
    ASSUME NEW k, NEW u, HandleFailed(k, u) \/ HandleFailedHalfway(k)
    PROVE  NoNewRelayed
  BY TableNotRelayed DEF HandleFailed, HandleFailedHalfway

\* Only the step that has seen a successful receipt relays a row.
LEMMA OnlyConfirmRelays ==
    ASSUME TypeOK, [Next]_vars, ~ConfirmRelay
    PROVE  NoNewRelayed
<1>1. CASE UNCHANGED requests
  BY <1>1 DEF NoNewRelayed
<1>2. CASE Start
  BY <1>2 DEF Start, NoNewRelayed
<1>3. ASSUME NEW k \in worklist, Reap(k) \/ FailOrphan(k) PROVE NoNewRelayed
  BY <1>1, <1>3, HandleFailedNotRelayed, TableNotRelayed DEF Reap, FailOrphan
<1>4. ASSUME NEW k \in worklist, PollFulfilled(k) \/ PollFailed(k) PROVE NoNewRelayed
  <2>1. CASE PollFulfilled(k)
    BY <2>1 DEF PollFulfilled, TypeOK, NoNewRelayed
  <2>2. CASE PollFailed(k)
    BY <2>2, HandleFailedNotRelayed DEF PollFailed
  <2> QED
    BY <1>4, <2>1, <2>2
<1>5. CASE AddNewRanges
  BY <1>5, TableNotRelayed DEF AddNewRanges
<1>6. CASE ReuseCheckpoint \/ Checkpointed
  BY <1>6, TableNotRelayed DEF ReuseCheckpoint, Checkpointed, InsertAggregation
<1>7. ASSUME NEW t \in DOMAIN tasks, TaskBegin(t) \/ TaskWitness(t) \/ TaskFinish(t)
      PROVE  NoNewRelayed
  BY <1>1, <1>7 DEF TaskBegin, TaskWitness, TaskFinish, TypeOK, NoNewRelayed
<1>8. CASE \/ Wake \/ FetchOrphans \/ FetchProving \/ NoNewFinalized \/ NoAggregation
           \/ SendCheckpoint \/ RequestQueued \/ NothingQueued \/ SendRelay
           \/ NothingToRelay \/ RelayReverted \/ LoopError \/ Crash
  BY <1>1, <1>8 DEF Wake, FetchOrphans, FetchProving, NoNewFinalized, NoAggregation,
                    SendCheckpoint, RequestQueued, NothingQueued, SendRelay,
                    NothingToRelay, RelayReverted, LoopError, Crash
<1>9. CASE (\E k \in worklist : PollPending(k)) \/ TaskFailure \/ ChainStep
  BY <1>1, <1>9 DEF PollPending, TaskFailure, TaskFail, ChainStep, Finalize, Mine,
                    ProposeElsewhere
<1>10. CASE UNCHANGED vars
  BY <1>1, <1>10 DEF vars
<1> QED
  BY <1>2, <1>3, <1>4, <1>5, <1>6, <1>7, <1>8, <1>9, <1>10
     DEF Next, LoopProgress, LoopFailure, TaskProgress

\* What the oracle has accepted stays accepted, and a successful receipt is of the
\* aggregation being relayed.
LEMMA ReceiptIsOurs ==
    ASSUME TypeOK, [Next]_vars, receipt = "landed" => relaying \subseteq landed
    PROVE  landed \subseteq landed' /\ (receipt' = "landed" => relaying' \subseteq landed')
<1>1. CASE UNCHANGED <<receipt, relaying, landed>>
  BY <1>1
<1>2. CASE receipt' = "none" /\ UNCHANGED landed
  BY <1>2
<1>3. ASSUME NEW x \in mempool, Mine(x)
      PROVE  landed \subseteq landed' /\ (receipt' = "landed" => relaying' \subseteq landed')
  <2>1. landed \subseteq landed' /\ UNCHANGED relaying
    BY <1>3 DEF Mine
  <2>2. CASE x.awaited
    <3>1. relaying = {x.aggregation}
      BY <2>2 DEF TypeOK
    <3>2. receipt' = "landed" => landed' = landed \cup {x.aggregation}
      BY <1>3, <2>2 DEF Mine
    <3> QED
      BY <2>1, <3>1, <3>2
  <2>3. CASE ~x.awaited
    BY <1>3, <2>1, <2>3 DEF Mine
  <2> QED
    BY <2>2, <2>3
<1>4. CASE LoopProgress
  <2>1. CASE ConfirmRelay
    BY <1>2, <2>1 DEF ConfirmRelay, chainVars
  <2>2. CASE RelayReverted
    BY <1>2, <2>2 DEF RelayReverted, Forget
  <2>3. CASE SendRelay
    BY <1>2, <2>3 DEF SendRelay, TypeOK
  <2>4. CASE ~(ConfirmRelay \/ RelayReverted \/ SendRelay)
    BY <1>1, <1>4, <2>4
       DEF LoopProgress, Start, Wake, FetchOrphans, FetchProving, Reap, FailOrphan,
           PollPending, PollFulfilled, AddNewRanges, NoNewFinalized, NoAggregation,
           ReuseCheckpoint, SendCheckpoint, Checkpointed, RequestQueued, NothingQueued,
           NothingToRelay, chainVars
  <2> QED
    BY <2>1, <2>2, <2>3, <2>4
<1>5. CASE LoopFailure
  <2>1. CASE LoopError \/ Crash
    BY <1>2, <2>1 DEF LoopError, Crash, Forget
  <2>2. CASE \E k \in worklist : PollFailed(k)
    BY <1>1, <2>2 DEF PollFailed, chainVars
  <2> QED
    BY <1>5, <2>1, <2>2 DEF LoopFailure
<1>6. CASE TaskProgress \/ TaskFailure
  BY <1>1, <1>6 DEF TaskProgress, TaskFailure, TaskBegin, TaskWitness, TaskFinish, TaskFail,
                    loopVars, chainVars
<1>7. CASE Finalize \/ ProposeElsewhere
  BY <1>1, <1>7 DEF Finalize, ProposeElsewhere, loopVars
<1>8. CASE UNCHANGED vars
  BY <1>1, <1>8 DEF vars, loopVars, chainVars
<1> QED
  BY <1>3, <1>4, <1>5, <1>6, <1>7, <1>8 DEF Next, ChainStep

\* Every step keeps the invariant.
LEMMA RelayStep == TypeOK /\ RelayInv /\ [Next]_vars => RelayInv'
<1> SUFFICES ASSUME TypeOK, RelayInv, [Next]_vars PROVE RelayInv'
  OBVIOUS
<1>1. landed \subseteq landed' /\ (receipt' = "landed" => relaying' \subseteq landed')
  BY ReceiptIsOurs DEF RelayInv
<1>2. CASE ConfirmRelay
  <2>1. PICK k \in relaying : requests' = [requests EXCEPT ![k] = "Relayed"]
    BY <1>2 DEF ConfirmRelay
  <2>2. k \in landed
    BY <1>2 DEF ConfirmRelay, RelayInv
  <2>3. \A q \in DOMAIN requests' : requests'[q] = "Relayed" => q = k \/ requests[q] = "Relayed"
    BY <2>1 DEF TypeOK
  <2>4. DOMAIN requests' = DOMAIN requests
    BY <2>1
  <2> QED
    BY <1>1, <2>2, <2>3, <2>4 DEF RelayInv, RelayedLanded
<1>3. CASE ~ConfirmRelay
  BY <1>1, <1>3, OnlyConfirmRelays DEF RelayInv, RelayedLanded, NoNewRelayed
<1> QED
  BY <1>2, <1>3

\* However receipts are lost or late, the process dies between a transaction and the
\* update of its row, or others propose in between: a Relayed row's aggregation is one the
\* oracle accepted.
THEOREM RelayedHasLanded == Spec => []RelayedLanded
<1>1. Init => RelayInv
  BY DEF Init, RelayInv, RelayedLanded
<1>2. TypeOK /\ RelayInv /\ [Next]_vars => RelayInv'
  BY RelayStep
<1>3. RelayInv => RelayedLanded
  BY DEF RelayInv
<1> QED
  BY <1>1, <1>2, <1>3, TypeCorrect, PTL DEF Spec

-----------------------------------------------------------------------------
\* The life of a request.  It is told under PromptTasks, the condition under which
\* spawned tasks make their first write before the next turn: a task that begins late
\* takes its row back to WitnessGeneration from wherever it has got to.

\* Rows whose task has yet to make its first write.
Spawned == {k \in DOMAIN requests : Handle(k) \in DOMAIN tasks /\ tasks[Handle(k)] = "spawned"}

\* What a step may make of the status of the row k.
Lifecycle(k, from, to) ==
    \/ from = to
    \/ from = "Unrequested" /\ to = "WitnessGeneration" /\ k \in Spawned
    \/ from = "WitnessGeneration" /\ to \in {"Execution", "Prove", "Complete"}
    \/ from = "Execution" /\ to = "Complete"
    \/ from = "Prove" /\ to \in {"Complete", "Cancelled"}
    \/ from \in Unrecoverable \cup {"Prove"} /\ to = "Failed"
    \/ from = "Complete" /\ to = "Relayed" /\ k.type = "Aggregation"

\* The step drops only what cannot be recovered, takes every other row along its life,
\* and begins new rows at the beginning.
Evolves ==
    /\ \A k \in DOMAIN requests \ DOMAIN requests' : requests[k] \in Unrecoverable
    /\ \A k \in DOMAIN requests \cap DOMAIN requests' :
         Lifecycle(k, requests[k], requests'[k])
    /\ \A k \in DOMAIN requests' \ DOMAIN requests :
         requests'[k] = "Unrequested" /\ k.config = config /\ UNCHANGED config

\* The status a row has while its task is in a phase.
Matches(phase, status) ==
    \/ phase = "spawned" /\ status = "Unrequested"
    \/ phase = "witness" /\ status = "WitnessGeneration"
    \/ phase = "request" /\ status = IF Proving = "mock" THEN "Execution" ELSE "WitnessGeneration"
    \/ phase = "ok" /\ status \notin Unrecoverable
    \/ phase = "err" /\ status \in Unrecoverable

\* Every task is known to the tasks map, and its row is where the task has taken it.
TasksOwned ==
    \A t \in DOMAIN tasks :
        /\ t = Handle(t[1]) /\ t[1] \in DOMAIN requests /\ t[1].config = config
        /\ Matches(tasks[t], requests[t[1]])

\* No task is waiting for its first write when a turn begins, and none is left when the
\* process is down.
TasksPrompt ==
    /\ \A t \in DOMAIN tasks : tasks[t] = "spawned" => pc \in {"submit", "receipt", "sleep"}
    /\ pc = "down" => DOMAIN tasks = {}

\* The rows a step has fetched are still as it found them.
FetchedFresh ==
    /\ \A k \in worklist :
         /\ k \in DOMAIN requests /\ k.config = config
         /\ pc = "ongoing" => Handle(k) \in DOMAIN tasks /\ tasks[Handle(k)] \in Finished
         /\ pc = "orphans" => \/ Handle(k) \in DOMAIN tasks
                              \/ requests[k] \in {"WitnessGeneration", "Execution"}
         /\ pc = "proving" => requests[k] = "Prove"
    /\ \A k \in relaying :
         k \in DOMAIN requests /\ k.type = "Aggregation" /\ requests[k] = "Complete"

LifeInv == TasksOwned /\ TasksPrompt /\ FetchedFresh

\* While the checkpoint transaction of an aggregation is waited for, no other from the
\* same block is active.
PlannedAlone ==
    \A r \in planned, k \in DOMAIN requests :
        k.type = "Aggregation" /\ requests[k] \in Active /\ k.config = config
        => k.start # r.start

\* Rows whose task has yet to make its first write count as requested already.
Busy == With(InFlight) \cup Spawned
Generating == With({"WitnessGeneration"}) \cup Spawned

LimitsInv ==
    /\ \A k \in DOMAIN requests : requests[k] \in InFlight => k.config = config
    /\ IsFiniteSet(Busy) /\ Cardinality(Busy) <= MaxProofRequests
    /\ IsFiniteSet(Generating) /\ Cardinality(Generating) <= MaxWitnessGen

\* Requests cover at least one block.
RowsProper == Proper(DOMAIN requests) /\ Proper(planned)

\* The latest proposed block is not inside an active range of the running commitment.
NoStraddle ==
    \A k \in DOMAIN requests :
        k.type = "Range" /\ k.config = config /\ requests[k] \in Active
          => k.end <= latest \/ latest <= k.start

\* The complete range proofs within the bounds of an aggregation.
Tiles(k) ==
    {r \in DOMAIN requests : /\ r.type = "Range" /\ r.config = k.config
                             /\ requests[r] = "Complete"
                             /\ k.start <= r.start /\ r.end <= k.end}

\* From the moment its task is spawned an aggregation has been validated.
Validated(k) ==
    /\ k.type = "Aggregation"
    /\ requests[k] \in InFlight \cup {"Complete", "Relayed"} \/ k \in Spawned

TilesStay ==
    \A k \in DOMAIN requests :
        Validated(k) /\ latest <= k.start => ValidAggregation(Tiles(k), k.start, k.end)

\* The aggregations sent to the oracle are proven.
SentProven ==
    \A x \in mempool :
        /\ x.aggregation \in DOMAIN requests /\ x.aggregation.type = "Aggregation"
        /\ requests[x.aggregation] \in {"Complete", "Relayed"}

\* What holds as long as NoStraddle does.
RangesInv == RowsProper /\ RangesDisjoint /\ TilesStay /\ SentProven

-----------------------------------------------------------------------------
\* How the table changes.

\* An inserted row was not in the table.
LEMMA RowFresh ==
    ASSUME NEW type, NEW r, Unused(type, r) # {}
    PROVE  NewRow(type, r) \notin DOMAIN requests
<1>1. (CHOOSE a \in Unused(type, r) : TRUE) \in Unused(type, r)
  OBVIOUS
<1> DEFINE k == NewRow(type, r)
<1>2. /\ k.type = type /\ k.start = r.start /\ k.end = r.end /\ k.config = config
      /\ k.attempt \in Unused(type, r)
  BY <1>1 DEF NewRow
<1> HIDE DEF k
<1> QED
  BY <1>2 DEF Unused, k

\* The rows one call inserts are new, of its type and of the running commitments.
LEMMA RowsFresh ==
    ASSUME NEW type, NEW R, Room(type, R)
    PROVE  \A k \in {NewRow(type, r) : r \in R} :
             k \notin DOMAIN requests /\ k.type = type /\ k.config = config
<1> SUFFICES ASSUME NEW r \in R
             PROVE  /\ NewRow(type, r) \notin DOMAIN requests
                    /\ NewRow(type, r).type = type /\ NewRow(type, r).config = config
  OBVIOUS
<1> QED
  BY RowFresh DEF Room, NewRow

\* The table with some rows failed and others, all of them new, inserted.
LEMMA TableRows ==
    ASSUME NEW failed, NEW new, \A k \in new : k \notin DOMAIN requests,
           requests' = Table(failed, new)
    PROVE  /\ DOMAIN requests' = DOMAIN requests \cup new
           /\ \A k \in new : requests'[k] = "Unrequested"
           /\ \A k \in DOMAIN requests :
                requests'[k] = IF k \in failed THEN "Failed" ELSE requests[k]
  BY DEF Table

\* What handle_failed_request makes of the table, whether it goes through or stops after
\* its first write: the row is failed, and a range of several blocks may be halved.
LEMMA HandleFailedRows ==
    ASSUME NEW k, NEW u, HandleFailed(k, u) \/ HandleFailedHalfway(k)
    PROVE  \E new : /\ requests' = Table({k}, new)
                    /\ \A q \in new : /\ q \notin DOMAIN requests
                                      /\ q.type = "Range" /\ q.config = config
                    /\ \/ new = {}
                       \/ /\ k.type = "Range" /\ k.end - k.start > 1
                          /\ new = {NewRow("Range", h) : h \in Halves(k)}
<1>1. CASE HandleFailedHalfway(k) \/ (HandleFailed(k, u) /\ ~MustSplit(k, u))
  <2>1. requests' = Table({k}, {})
    BY <1>1 DEF HandleFailed, HandleFailedHalfway
  <2> QED
    BY <2>1
<1>2. CASE HandleFailed(k, u) /\ MustSplit(k, u)
  <2> DEFINE new == {NewRow("Range", h) : h \in Halves(k)}
  <2>1. Room("Range", Halves(k)) /\ requests' = Table({k}, new)
    BY <1>2 DEF HandleFailed
  <2>2. \A q \in new : q \notin DOMAIN requests /\ q.type = "Range" /\ q.config = config
    BY <2>1, RowsFresh
  <2>3. k.type = "Range" /\ k.end - k.start > 1
    BY <1>2 DEF MustSplit
  <2> QED
    BY <2>1, <2>2, <2>3
<1> QED
  BY <1>1, <1>2

\* Failing a row that is not over, and inserting new ones, takes rows along their life.
LEMMA TableEvolves ==
    ASSUME NEW failed, NEW new,
           \A k \in new : k \notin DOMAIN requests /\ k.config = config,
           \A k \in failed \cap DOMAIN requests : requests[k] \in Unrecoverable \cup {"Prove"},
           requests' = Table(failed, new), UNCHANGED config
    PROVE  Evolves
<1>1. /\ DOMAIN requests' = DOMAIN requests \cup new
      /\ \A k \in new : requests'[k] = "Unrequested"
      /\ \A k \in DOMAIN requests :
           requests'[k] = IF k \in failed THEN "Failed" ELSE requests[k]
  BY TableRows
<1>2. \A k \in DOMAIN requests : Lifecycle(k, requests[k], requests'[k])
  <2> SUFFICES ASSUME NEW k \in DOMAIN requests PROVE Lifecycle(k, requests[k], requests'[k])
    OBVIOUS
  <2>1. CASE k \in failed
    BY <1>1, <2>1 DEF Lifecycle
  <2>2. CASE k \notin failed
    BY <1>1, <2>2 DEF Lifecycle
  <2> QED
    BY <2>1, <2>2
<1> QED
  BY <1>1, <1>2 DEF Evolves

\* So does the update of one row.
LEMMA UpdateEvolves ==
    ASSUME NEW k \in DOMAIN requests, NEW s, Lifecycle(k, requests[k], s),
           requests' = [requests EXCEPT ![k] = s]
    PROVE  Evolves
  BY DEF Evolves, Lifecycle

LEMMA SameEvolves == UNCHANGED requests => Evolves
  BY DEF Evolves, Lifecycle

-----------------------------------------------------------------------------
\* The invariant of the tasks and of what the loop has fetched, one group of actions at a
\* time, together with what the group does to the table.

\* Tasks whose rows stay as they are remain owned.
LEMMA TasksKept ==
    ASSUME TasksOwned, UNCHANGED config, DOMAIN tasks' \subseteq DOMAIN tasks,
           \A t \in DOMAIN tasks' : tasks'[t] = tasks[t],
           \A t \in DOMAIN tasks' :
             t[1] \in DOMAIN requests' /\ requests'[t[1]] = requests[t[1]]
    PROVE  TasksOwned'
  BY DEF TasksOwned

LEMMA StartLife ==
    ASSUME TypeOK, LifeInv, Start
    PROVE  LifeInv' /\ Evolves
<1>1. Evolves
  BY DEF Start, Evolves, Lifecycle, Unrecoverable
<1>2. DOMAIN tasks' = {} /\ worklist' = {} /\ relaying' = {}
  BY DEF Start, LifeInv, TasksPrompt, TypeOK
<1> QED
  BY <1>1, <1>2 DEF LifeInv, TasksOwned, TasksPrompt, FetchedFresh

LEMMA WakeLife ==
    ASSUME TypeOK, LifeInv, PromptTasks, Wake
    PROVE  LifeInv' /\ Evolves
<1>1. TasksOwned'
  BY TasksKept DEF Wake, LifeInv, TasksOwned
<1>2. TasksPrompt'
  BY DEF Wake, TasksPrompt
<1>3. FetchedFresh'
  <2>1. \A k \in DOMAIN requests : Handle(k) \in DOMAIN tasks => k.config = config
    BY DEF LifeInv, TasksOwned, Handle
  <2>2. relaying' = {}
    BY DEF Wake, TypeOK
  <2> QED
    BY <2>1, <2>2 DEF Wake, FetchedFresh
<1> QED
  BY <1>1, <1>2, <1>3, SameEvolves DEF LifeInv, Wake

\* A step that fails the row k, which no task will own, and inserts new rows.
LEMMA FailLife ==
    ASSUME LifeInv, NEW k \in DOMAIN requests, requests[k] \in Unrecoverable \cup {"Prove"},
           NEW new, \A q \in new : q \notin DOMAIN requests /\ q.config = config,
           requests' = Table({k}, new),
           DOMAIN tasks' \subseteq DOMAIN tasks, \A t \in DOMAIN tasks' : tasks'[t] = tasks[t],
           Handle(k) \notin DOMAIN tasks' \/ requests[k] = "Prove",
           UNCHANGED <<config, relaying>>
    PROVE  /\ TasksOwned' /\ Evolves
           /\ \A q \in relaying' :
                q \in DOMAIN requests' /\ q.type = "Aggregation" /\ requests'[q] = "Complete"
           /\ \A q \in DOMAIN requests : q # k => q \in DOMAIN requests' /\ requests'[q] = requests[q]
<1>1. /\ DOMAIN requests' = DOMAIN requests \cup new
      /\ \A q \in DOMAIN requests :
           requests'[q] = IF q \in {k} THEN "Failed" ELSE requests[q]
  BY TableRows
<1>2. Evolves
  <2>1. \A q \in {k} \cap DOMAIN requests : requests[q] \in Unrecoverable \cup {"Prove"}
    OBVIOUS
  <2> QED
    BY <2>1, TableEvolves
<1>3. TasksOwned'
  <2>1. CASE Handle(k) \notin DOMAIN tasks'
    <3>1. \A t \in DOMAIN tasks' : t[1] \in DOMAIN requests /\ t[1] # k
      BY <2>1 DEF LifeInv, TasksOwned
    <3> QED
      BY <1>1, <3>1, TasksKept DEF LifeInv
  <2>2. CASE requests[k] = "Prove"
    <3>1. \A t \in DOMAIN tasks' :
            /\ t = Handle(t[1]) /\ t[1] \in DOMAIN requests /\ t[1].config = config
            /\ Matches(tasks[t], requests[t[1]])
      BY DEF LifeInv, TasksOwned
    <3>2. \A t \in DOMAIN tasks' : Matches(tasks[t], requests'[t[1]])
      BY <1>1, <2>2, <3>1 DEF Matches, Unrecoverable
    <3> QED
      BY <1>1, <3>1, <3>2 DEF TasksOwned
  <2> QED
    BY <2>1, <2>2
<1>4. \A q \in relaying :
         q \in DOMAIN requests /\ q.type = "Aggregation" /\ requests[q] = "Complete"
  BY DEF LifeInv, FetchedFresh
<1>5. k \notin relaying
  BY <1>4 DEF Unrecoverable
<1> QED
  BY <1>1, <1>2, <1>3, <1>4, <1>5

\* handle_ongoing_tasks.
LEMMA ReapLife ==
    ASSUME TypeOK, LifeInv, NEW k \in worklist, Reap(k)
    PROVE  LifeInv' /\ Evolves
<1>1. /\ pc = "ongoing" /\ pc' = "ongoing" /\ worklist' = worklist \ {k}
      /\ DOMAIN tasks' = DOMAIN tasks \ {Handle(k)}
      /\ \A t \in DOMAIN tasks' : tasks'[t] = tasks[t]
      /\ UNCHANGED <<config, relaying>>
  BY DEF Reap
<1>2. /\ k \in DOMAIN requests /\ Handle(k) \in DOMAIN tasks /\ relaying = {}
      /\ Matches(tasks[Handle(k)], requests[k])
  BY <1>1 DEF LifeInv, FetchedFresh, TasksOwned, Handle, TypeOK
<1>3. /\ TasksOwned' /\ Evolves
      /\ \A q \in DOMAIN requests : q # k => q \in DOMAIN requests' /\ requests'[q] = requests[q]
  <2>1. CASE UNCHANGED requests
    BY <1>1, <2>1, SameEvolves, TasksKept DEF LifeInv, TasksOwned
  <2>2. CASE tasks[Handle(k)] = "err" /\ (HandleFailed(k, FALSE) \/ HandleFailedHalfway(k))
    <3>1. requests[k] \in Unrecoverable
      BY <1>2, <2>2 DEF Matches
    <3>2. PICK new : /\ requests' = Table({k}, new)
                     /\ \A q \in new : q \notin DOMAIN requests /\ q.config = config
      BY <2>2, HandleFailedRows
    <3> QED
      BY <1>1, <1>2, <3>1, <3>2, FailLife
  <2> QED
    BY <2>1, <2>2 DEF Reap
<1>4. FetchedFresh'
  <2>1. \A q \in worklist : /\ q \in DOMAIN requests /\ q.config = config
                            /\ Handle(q) \in DOMAIN tasks /\ tasks[Handle(q)] \in Finished
    BY <1>1 DEF LifeInv, FetchedFresh
  <2>2. \A q \in worklist : q # k => Handle(q) # Handle(k)
    BY DEF Handle
  <2> QED
    BY <1>1, <1>2, <1>3, <2>1, <2>2 DEF FetchedFresh
<1>5. TasksPrompt'
  BY <1>1 DEF LifeInv, TasksPrompt
<1> QED
  BY <1>3, <1>4, <1>5 DEF LifeInv

\* set_orphaned_tasks_to_failed.
LEMMA OrphanLife ==
    ASSUME TypeOK, LifeInv, NEW k \in worklist, FailOrphan(k)
    PROVE  LifeInv' /\ Evolves
<1>1. /\ pc = "orphans" /\ worklist' = worklist \ {k} /\ UNCHANGED <<pc, tasks, config, relaying>>
  BY DEF FailOrphan
<1>2. /\ k \in DOMAIN requests /\ relaying = {}
      /\ Handle(k) \in DOMAIN tasks \/ requests[k] \in {"WitnessGeneration", "Execution"}
  BY <1>1 DEF LifeInv, FetchedFresh, TypeOK
<1>3. /\ TasksOwned' /\ Evolves
      /\ \A q \in DOMAIN requests : q # k => q \in DOMAIN requests' /\ requests'[q] = requests[q]
  <2>1. CASE UNCHANGED requests
    BY <1>1, <2>1, SameEvolves, TasksKept DEF LifeInv, TasksOwned
  <2>2. CASE Handle(k) \notin DOMAIN tasks /\ requests' = Table({k}, {})
    <3>1. requests[k] \in Unrecoverable
      BY <1>2, <2>2 DEF Unrecoverable
    <3> QED
      BY <1>1, <1>2, <2>2, <3>1, FailLife
  <2> QED
    BY <2>1, <2>2 DEF FailOrphan
<1>4. FetchedFresh'
  BY <1>1, <1>2, <1>3 DEF LifeInv, FetchedFresh
<1>5. TasksPrompt'
  BY <1>1 DEF LifeInv, TasksPrompt
<1> QED
  BY <1>3, <1>4, <1>5 DEF LifeInv

\* handle_proving_requests, for a proof that has failed or timed out.
LEMMA PollFailedLife ==
    ASSUME TypeOK, LifeInv, NEW k \in worklist, PollFailed(k)
    PROVE  LifeInv' /\ Evolves
<1>1. /\ pc = "proving" /\ UNCHANGED <<tasks, config, relaying>>
      /\ \/ worklist' = worklist \ {k} /\ pc' = "proving"
         \/ worklist' = {} /\ pc' = "sleep"
  BY DEF PollFailed
<1>2. k \in DOMAIN requests /\ requests[k] = "Prove" /\ relaying = {}
  BY <1>1 DEF LifeInv, FetchedFresh, TypeOK
<1>3. PICK new : /\ requests' = Table({k}, new)
                 /\ \A q \in new : q \notin DOMAIN requests /\ q.config = config
  BY HandleFailedRows DEF PollFailed
<1>4. /\ TasksOwned' /\ Evolves
      /\ \A q \in DOMAIN requests : q # k => q \in DOMAIN requests' /\ requests'[q] = requests[q]
  BY <1>1, <1>2, <1>3, FailLife
<1>5. FetchedFresh'
  BY <1>1, <1>2, <1>4 DEF LifeInv, FetchedFresh
<1>6. TasksPrompt'
  BY <1>1 DEF LifeInv, TasksPrompt
<1> QED
  BY <1>4, <1>5, <1>6 DEF LifeInv

\* ... and for one that is pending or fulfilled.
LEMMA PollLife ==
    ASSUME TypeOK, LifeInv, NEW k \in worklist, PollPending(k) \/ PollFulfilled(k)
    PROVE  LifeInv' /\ Evolves
<1>1. /\ pc = "proving" /\ worklist' = worklist \ {k} /\ UNCHANGED <<pc, tasks, config, relaying>>
      /\ UNCHANGED requests \/ requests' = [requests EXCEPT ![k] = "Complete"]
  BY DEF PollPending, PollFulfilled
<1>2. k \in DOMAIN requests /\ requests[k] = "Prove" /\ relaying = {}
  BY <1>1 DEF LifeInv, FetchedFresh, TypeOK
<1>3. Evolves
  BY <1>1, <1>2, SameEvolves, UpdateEvolves DEF Lifecycle
<1>4. \A q \in DOMAIN requests : /\ q \in DOMAIN requests'
                                 /\ q # k => requests'[q] = requests[q]
                                 /\ requests'[q] = requests[q] \/ requests'[q] = "Complete"
  BY <1>1
<1>5. TasksOwned'
  <2> SUFFICES ASSUME NEW t \in DOMAIN tasks
               PROVE  /\ t = Handle(t[1]) /\ t[1] \in DOMAIN requests' /\ t[1].config = config
                      /\ Matches(tasks[t], requests'[t[1]])
    BY <1>1 DEF TasksOwned
  <2>1. /\ t = Handle(t[1]) /\ t[1] \in DOMAIN requests /\ t[1].config = config
        /\ Matches(tasks[t], requests[t[1]])
    BY DEF LifeInv, TasksOwned
  <2>2. CASE t[1] = k
    BY <1>2, <1>4, <2>1, <2>2 DEF Matches, Unrecoverable
  <2>3. CASE t[1] # k
    BY <1>4, <2>1, <2>3
  <2> QED
    BY <2>2, <2>3
<1>6. FetchedFresh'
  BY <1>1, <1>2, <1>4 DEF LifeInv, FetchedFresh
<1>7. TasksPrompt'
  BY <1>1 DEF LifeInv, TasksPrompt
<1> QED
  BY <1>3, <1>5, <1>6, <1>7 DEF LifeInv

\* A step that neither writes to the table nor to the tasks, and fetches no rows.
LEMMA QuietLife ==
    ASSUME LifeInv, UNCHANGED <<requests, tasks, config>>, worklist' = {}, pc' # "down",
           \/ pc' \in {"submit", "receipt", "sleep"}
           \/ pc \notin {"submit", "receipt", "sleep"},
           \A k \in relaying' :
             k \in DOMAIN requests /\ k.type = "Aggregation" /\ requests[k] = "Complete"
    PROVE  LifeInv' /\ Evolves
<1>1. TasksOwned'
  BY TasksKept DEF LifeInv, TasksOwned
<1>2. TasksPrompt' /\ FetchedFresh'
  BY DEF LifeInv, TasksPrompt, FetchedFresh
<1> QED
  BY <1>1, <1>2, SameEvolves DEF LifeInv

LEMMA QuietStepsLife ==
    ASSUME TypeOK, LifeInv,
           \/ NoNewFinalized \/ NoAggregation \/ SendCheckpoint \/ NothingQueued
           \/ SendRelay \/ NothingToRelay \/ RelayReverted \/ LoopError
    PROVE  LifeInv' /\ Evolves
<1>1. CASE NoNewFinalized \/ NoAggregation \/ SendCheckpoint \/ NothingQueued \/ NothingToRelay
  <2>1. /\ UNCHANGED <<requests, tasks, config, relaying, worklist>>
        /\ pc \in {"proving", "aggregation", "queue", "submit"} /\ (pc = "proving" => worklist = {})
        /\ pc' \in {"aggregation", "checkpoint", "queue", "submit", "sleep"}
        /\ pc = "submit" => pc' = "sleep"
    BY <1>1 DEF NoNewFinalized, NoAggregation, SendCheckpoint, NothingQueued, NothingToRelay
  <2>2. worklist = {} /\ relaying = {}
    BY <2>1 DEF TypeOK
  <2> QED
    BY <2>1, <2>2, QuietLife
<1>2. CASE SendRelay
  <2>1. PICK k \in AggregationsAfter({"Complete"}, latest) : relaying' = {k}
    BY <1>2 DEF SendRelay
  <2>2. k \in DOMAIN requests /\ k.type = "Aggregation" /\ requests[k] = "Complete"
    BY DEF AggregationsAfter, With
  <2>3. UNCHANGED <<requests, tasks, config, worklist>> /\ pc = "submit" /\ pc' = "receipt"
    BY <1>2 DEF SendRelay
  <2>4. worklist = {}
    BY <2>3 DEF TypeOK
  <2> QED
    BY <2>1, <2>2, <2>3, <2>4, QuietLife
<1>3. CASE RelayReverted \/ LoopError
  BY <1>3, QuietLife DEF RelayReverted, LoopError, Forget
<1> QED
  BY <1>1, <1>2, <1>3

\* The rows that should have a task, or a proof request.
LEMMA FetchLife ==
    ASSUME TypeOK, LifeInv, FetchOrphans \/ FetchProving
    PROVE  LifeInv' /\ Evolves
<1>1. /\ UNCHANGED <<requests, tasks, config, relaying>> /\ pc \in {"ongoing", "orphans"}
      /\ \/ pc' = "orphans" /\ worklist' = With({"WitnessGeneration", "Execution"})
         \/ pc' = "proving" /\ worklist' \subseteq With({"Prove"})
  BY DEF FetchOrphans, FetchProving
<1>2. TasksOwned'
  BY <1>1, TasksKept DEF LifeInv, TasksOwned
<1>3. FetchedFresh'
  BY <1>1 DEF TypeOK, FetchedFresh, With
<1>4. TasksPrompt'
  BY <1>1 DEF LifeInv, TasksPrompt
<1> QED
  BY <1>1, <1>2, <1>3, <1>4, SameEvolves DEF LifeInv

\* Rows are inserted: planned ranges, or an aggregation.
LEMMA InsertLife ==
    ASSUME TypeOK, LifeInv, AddNewRanges \/ ReuseCheckpoint \/ Checkpointed
    PROVE  LifeInv' /\ Evolves
<1>1. /\ UNCHANGED <<tasks, config, worklist, relaying>>
      /\ pc \in {"proving", "aggregation", "checkpoint"} /\ (pc = "proving" => worklist = {})
      /\ pc' \in {"aggregation", "queue"}
  BY DEF AddNewRanges, ReuseCheckpoint, Checkpointed
<1>2. worklist' = {} /\ relaying' = {}
  BY <1>1 DEF TypeOK
<1>3. PICK new : /\ requests' = Table({}, new)
                 /\ \A q \in new : q \notin DOMAIN requests /\ q.config = config
  <2>1. CASE AddNewRanges
    <3>1. PICK R : Room("Range", R) /\ requests' = Table({}, {NewRow("Range", r) : r \in R})
      BY <2>1 DEF AddNewRanges
    <3>2. \A q \in {NewRow("Range", r) : r \in R} : q \notin DOMAIN requests /\ q.config = config
      BY <3>1, RowsFresh
    <3> QED
      BY <3>1, <3>2
  <2>2. CASE ReuseCheckpoint \/ Checkpointed
    <3>1. PICK r : InsertAggregation(r)
      BY <2>2 DEF ReuseCheckpoint, Checkpointed
    <3>2. Unused("Aggregation", r) # {} /\ requests' = Table({}, {NewRow("Aggregation", r)})
      BY <3>1 DEF InsertAggregation, Room
    <3>3. NewRow("Aggregation", r) \notin DOMAIN requests
      BY <3>2, RowFresh
    <3>4. NewRow("Aggregation", r).config = config
      BY DEF NewRow
    <3> QED
      BY <3>2, <3>3, <3>4
  <2> QED
    BY <2>1, <2>2
<1>4. DOMAIN requests' = DOMAIN requests \cup new
      /\ \A q \in DOMAIN requests : requests'[q] = requests[q]
  BY <1>3, TableRows
<1>5. Evolves
  <2>1. \A k \in {} \cap DOMAIN requests : requests[k] \in Unrecoverable \cup {"Prove"}
    OBVIOUS
  <2> QED
    BY <1>1, <1>3, <2>1, TableEvolves
<1>6. TasksOwned'
  BY <1>1, <1>4, TasksKept DEF LifeInv, TasksOwned
<1>7. FetchedFresh' /\ TasksPrompt'
  BY <1>1, <1>2 DEF LifeInv, FetchedFresh, TasksPrompt
<1> QED
  BY <1>5, <1>6, <1>7 DEF LifeInv

\* request_queued_proofs: the row is Unrequested, so that a task the map may hold under its
\* id is over and no running task is dropped.
LEMMA SpawnTask ==
    ASSUME TypeOK, LifeInv, RequestQueued
    PROVE  \E k \in NextRequests :
             /\ k \in DOMAIN requests /\ k.config = config /\ requests[k] = "Unrequested"
             /\ tasks' = [t \in DOMAIN tasks \cup {Handle(k)} |->
                            IF t = Handle(k) THEN "spawned" ELSE tasks[t]]
<1>1. PICK k \in NextRequests :
        LET old == {t \in {Handle(k)} \cap DOMAIN tasks : tasks[t] \in Running}
            dropped == {Detached(k) : t \in old}
        IN  tasks' = [t \in DOMAIN tasks \cup {Handle(k)} \cup dropped |->
                        IF t = Handle(k) THEN "spawned"
                        ELSE IF t \in dropped THEN tasks[Handle(k)] ELSE tasks[t]]
  BY DEF RequestQueued
<1>2. k \in DOMAIN requests /\ k.config = config /\ requests[k] = "Unrequested"
  BY DEF NextRequests, FirstOf, AggregationsAfter, RangesAfter, With
<1>3. {t \in {Handle(k)} \cap DOMAIN tasks : tasks[t] \in Running} = {}
  <2> SUFFICES ASSUME Handle(k) \in DOMAIN tasks, tasks[Handle(k)] \in Running PROVE FALSE
    OBVIOUS
  <2>1. Matches(tasks[Handle(k)], requests[k])
    BY DEF LifeInv, TasksOwned, Handle
  <2>2. tasks[Handle(k)] = "spawned"
    BY <1>2, <2>1 DEF Matches, Running
  <2>3. pc = "queue"
    BY DEF RequestQueued
  <2> QED
    BY <2>2, <2>3 DEF LifeInv, TasksPrompt
<1>4. tasks' = [t \in DOMAIN tasks \cup {Handle(k)} |->
                  IF t = Handle(k) THEN "spawned" ELSE tasks[t]]
  <2>1. {Detached(k) : t \in {u \in {Handle(k)} \cap DOMAIN tasks : tasks[u] \in Running}} = {}
    BY <1>3
  <2> QED
    BY <1>1, <2>1
<1> QED
  BY <1>2, <1>4

LEMMA SpawnLife ==
    ASSUME TypeOK, LifeInv, RequestQueued
    PROVE  LifeInv' /\ Evolves
<1>1. PICK k \in NextRequests :
        /\ k \in DOMAIN requests /\ k.config = config /\ requests[k] = "Unrequested"
        /\ tasks' = [t \in DOMAIN tasks \cup {Handle(k)} |->
                       IF t = Handle(k) THEN "spawned" ELSE tasks[t]]
  BY SpawnTask
<1>2. /\ UNCHANGED <<requests, config, worklist, relaying>>
      /\ pc = "queue" /\ pc' = "submit"
  BY DEF RequestQueued
<1>3. TasksOwned'
  <2> SUFFICES ASSUME NEW t \in DOMAIN tasks'
               PROVE  /\ t = Handle(t[1]) /\ t[1] \in DOMAIN requests /\ t[1].config = config
                      /\ Matches(tasks'[t], requests[t[1]])
    BY <1>2 DEF TasksOwned
  <2>1. CASE t = Handle(k)
    <3>1. t[1] = k /\ tasks'[t] = "spawned"
      BY <1>1, <2>1 DEF Handle
    <3> QED
      BY <1>1, <2>1, <3>1 DEF Matches
  <2>2. CASE t # Handle(k)
    <3>1. t \in DOMAIN tasks /\ tasks'[t] = tasks[t]
      BY <1>1, <2>2
    <3> QED
      BY <3>1 DEF LifeInv, TasksOwned
  <2> QED
    BY <2>1, <2>2
<1>4. worklist = {} /\ relaying = {}
  BY <1>2 DEF TypeOK
<1>5. FetchedFresh' /\ TasksPrompt'
  BY <1>2, <1>4 DEF FetchedFresh, TasksPrompt
<1> QED
  BY <1>2, <1>3, <1>5, SameEvolves DEF LifeInv

LEMMA ConfirmLife ==
    ASSUME TypeOK, LifeInv, ConfirmRelay
    PROVE  LifeInv' /\ Evolves
<1>1. PICK k \in relaying : requests' = [requests EXCEPT ![k] = "Relayed"]
  BY DEF ConfirmRelay
<1>2. /\ UNCHANGED <<tasks, config, worklist>> /\ relaying' = {}
      /\ pc = "receipt" /\ pc' = "sleep"
  BY DEF ConfirmRelay
<1>3. k \in DOMAIN requests /\ k.type = "Aggregation" /\ requests[k] = "Complete"
  BY DEF LifeInv, FetchedFresh
<1>4. Evolves
  BY <1>1, <1>3, UpdateEvolves DEF Lifecycle
<1>5. TasksOwned'
  <2> SUFFICES ASSUME NEW t \in DOMAIN tasks
               PROVE  /\ t = Handle(t[1]) /\ t[1] \in DOMAIN requests' /\ t[1].config = config
                      /\ Matches(tasks[t], requests'[t[1]])
    BY <1>2 DEF TasksOwned
  <2>1. /\ t = Handle(t[1]) /\ t[1] \in DOMAIN requests /\ t[1].config = config
        /\ Matches(tasks[t], requests[t[1]])
    BY DEF LifeInv, TasksOwned
  <2>2. CASE t[1] = k
    <3>1. requests'[t[1]] = "Relayed"
      BY <1>1, <1>3, <2>2
    <3> QED
      BY <1>1, <1>3, <2>1, <2>2, <3>1 DEF Matches, Unrecoverable
  <2>3. CASE t[1] # k
    BY <1>1, <2>1, <2>3
  <2> QED
    BY <2>2, <2>3
<1>6. FetchedFresh' /\ TasksPrompt'
  <2>1. worklist' = {}
    BY <1>2 DEF TypeOK
  <2> QED
    BY <1>2, <2>1 DEF LifeInv, TasksPrompt, FetchedFresh
<1> QED
  BY <1>4, <1>5, <1>6 DEF LifeInv

LEMMA CrashLife ==
    ASSUME LifeInv, Crash
    PROVE  LifeInv' /\ Evolves
<1>1. /\ UNCHANGED <<requests, config>> /\ DOMAIN tasks' = {} /\ worklist' = {}
      /\ relaying' = {}
  BY DEF Crash, Forget
<1> QED
  BY <1>1, SameEvolves DEF LifeInv, TasksOwned, TasksPrompt, FetchedFresh

\* A running task moves on and takes its row along.
LEMMA TaskLife ==
    ASSUME TypeOK, LifeInv, NEW t \in DOMAIN tasks, tasks[t] \in Running,
           NEW phase, phase # "spawned", Becomes(t, phase),
           NEW status, requests' = [requests EXCEPT ![t[1]] = status],
           Matches(phase, status), Lifecycle(t[1], requests[t[1]], status),
           UNCHANGED loopVars
    PROVE  LifeInv' /\ Evolves
<1>1. /\ t = Handle(t[1]) /\ t[1] \in DOMAIN requests /\ t[1].config = config
      /\ Matches(tasks[t], requests[t[1]])
  BY DEF LifeInv, TasksOwned
<1>2. UNCHANGED <<pc, worklist, relaying, config>>
  BY DEF loopVars
<1>3. Evolves
  BY <1>1, UpdateEvolves
<1>4. requests[t[1]] \in Unrecoverable
  BY <1>1 DEF Matches, Running, Unrecoverable
<1>5. tasks' = [tasks EXCEPT ![t] = phase]
  <2>1. t[2] = "handle"
    BY <1>1 DEF Handle
  <2> QED
    BY <2>1 DEF Becomes
<1>6. TasksOwned'
  <2> SUFFICES ASSUME NEW u \in DOMAIN tasks
               PROVE  /\ u = Handle(u[1]) /\ u[1] \in DOMAIN requests' /\ u[1].config = config
                      /\ Matches(tasks'[u], requests'[u[1]])
    BY <1>2, <1>5 DEF TasksOwned
  <2>1. /\ u = Handle(u[1]) /\ u[1] \in DOMAIN requests /\ u[1].config = config
        /\ Matches(tasks[u], requests[u[1]])
    BY DEF LifeInv, TasksOwned
  <2>2. CASE u = t
    <3>1. tasks'[u] = phase /\ requests'[u[1]] = status
      BY <1>1, <1>5, <2>2
    <3> QED
      BY <2>1, <3>1
  <2>3. CASE u # t
    <3>1. u[1] # t[1]
      BY <1>1, <2>1, <2>3
    <3>2. tasks'[u] = tasks[u] /\ requests'[u[1]] = requests[u[1]]
      BY <1>5, <2>1, <2>3, <3>1
    <3> QED
      BY <2>1, <3>2
  <2> QED
    BY <2>2, <2>3
<1>7. TasksPrompt'
  BY <1>2, <1>5 DEF LifeInv, TasksPrompt
<1>8. \A q \in DOMAIN requests :
         q \in DOMAIN requests' /\ (requests[q] \notin Unrecoverable => requests'[q] = requests[q])
  BY <1>4
<1>9. ASSUME NEW q \in worklist
      PROVE  /\ q \in DOMAIN requests' /\ q.config = config'
             /\ pc' = "ongoing" =>
                  Handle(q) \in DOMAIN tasks' /\ tasks'[Handle(q)] \in Finished
             /\ pc' = "orphans" => \/ Handle(q) \in DOMAIN tasks'
                                   \/ requests'[q] \in {"WitnessGeneration", "Execution"}
             /\ pc' = "proving" => requests'[q] = "Prove"
  <2>1. /\ q \in DOMAIN requests /\ q.config = config
        /\ pc = "ongoing" => Handle(q) \in DOMAIN tasks /\ tasks[Handle(q)] \in Finished
        /\ pc = "orphans" => \/ Handle(q) \in DOMAIN tasks
                             \/ requests[q] \in {"WitnessGeneration", "Execution"}
        /\ pc = "proving" => requests[q] = "Prove"
    BY DEF LifeInv, FetchedFresh
  <2>2. pc = "ongoing" => Handle(q) # t
    BY <2>1 DEF Running, Finished
  <2>3. requests[q] = "Prove" => requests'[q] = "Prove"
    BY <1>8, <2>1 DEF Unrecoverable
  <2>4. Handle(q) = t \/ requests'[q] = requests[q]
    BY <1>1 
  <2> QED
    BY <1>2, <1>5, <1>8, <2>1, <2>2, <2>3, <2>4
<1>10. FetchedFresh'
  <2>1. \A q \in relaying :
          q \in DOMAIN requests' /\ q.type = "Aggregation" /\ requests'[q] = "Complete"
    BY <1>8 DEF LifeInv, FetchedFresh, Unrecoverable
  <2> QED
    BY <1>2, <1>9, <2>1 DEF FetchedFresh
<1> QED
  BY <1>3, <1>6, <1>7, <1>10 DEF LifeInv

LEMMA TasksLife ==
    ASSUME TypeOK, LifeInv, NEW t \in DOMAIN tasks,
           TaskBegin(t) \/ TaskWitness(t) \/ TaskFinish(t) \/ TaskFail(t)
    PROVE  LifeInv' /\ Evolves
<1>1. /\ t[1] \in DOMAIN requests /\ Matches(tasks[t], requests[t[1]]) /\ UNCHANGED loopVars
      /\ tasks[t] \in Running
  BY DEF LifeInv, TasksOwned, TaskBegin, TaskWitness, TaskFinish, TaskFail, Running
<1>2. requests = [requests EXCEPT ![t[1]] = requests[t[1]]]
  BY DEF TypeOK
<1>3. CASE TaskBegin(t)
  <2>1. requests[t[1]] = "Unrequested"
    BY <1>1, <1>3 DEF TaskBegin, Matches
  <2>2. /\ Matches("witness", "WitnessGeneration")
        /\ Lifecycle(t[1], requests[t[1]], "WitnessGeneration")
    <3>1. t[1] \in Spawned
      BY <1>3 DEF TaskBegin, LifeInv, TasksOwned, Spawned
    <3> QED
      BY <2>1, <3>1 DEF Matches, Lifecycle
  <2> QED
    BY <1>1, <1>3, <2>2, TaskLife DEF TaskBegin
<1>4. CASE TaskWitness(t)
  <2> DEFINE status == IF Proving = "mock" THEN "Execution" ELSE "WitnessGeneration"
  <2>1. requests[t[1]] = "WitnessGeneration"
    BY <1>1, <1>4 DEF TaskWitness, Matches
  <2>2. Matches("request", status) /\ Lifecycle(t[1], requests[t[1]], status)
    BY <2>1 DEF Matches, Lifecycle
  <2>3. requests' = [requests EXCEPT ![t[1]] = status]
    BY <1>2, <1>4, <2>1 DEF TaskWitness
  <2> QED
    BY <1>1, <1>4, <2>2, <2>3, TaskLife DEF TaskWitness
<1>5. CASE TaskFinish(t)
  <2> DEFINE status == IF Proving = "network" THEN "Prove" ELSE "Complete"
  <2>1. requests[t[1]] = IF Proving = "mock" THEN "Execution" ELSE "WitnessGeneration"
    BY <1>1, <1>5 DEF TaskFinish, Matches
  <2>2. Matches("ok", status) /\ Lifecycle(t[1], requests[t[1]], status)
    BY <2>1 DEF Matches, Lifecycle, Unrecoverable
  <2>3. requests' = [requests EXCEPT ![t[1]] = status]
    BY <1>5 DEF TaskFinish
  <2> QED
    BY <1>1, <1>5, <2>2, <2>3, TaskLife DEF TaskFinish
<1>6. CASE TaskFail(t)
  <2>1. requests' = [requests EXCEPT ![t[1]] = requests[t[1]]]
    BY <1>2, <1>6 DEF TaskFail
  <2>2. Matches("err", requests[t[1]]) /\ Lifecycle(t[1], requests[t[1]], requests[t[1]])
    BY <1>1 DEF Matches, Lifecycle, Running, Unrecoverable
  <2> QED
    BY <1>1, <1>6, <2>1, <2>2, TaskLife DEF TaskFail
<1> QED
  BY <1>3, <1>4, <1>5, <1>6

\* Steps of the chain, and steps that change nothing of the proposer.
LEMMA OutsideLife ==
    ASSUME LifeInv, UNCHANGED <<requests, tasks, pc, worklist, relaying, config>>
    PROVE  LifeInv' /\ Evolves
<1>1. TasksOwned'
  BY TasksKept DEF LifeInv, TasksOwned
<1> QED
  BY <1>1, SameEvolves DEF LifeInv, TasksPrompt, FetchedFresh

\* Every step.
LEMMA NextLife ==
    ASSUME TypeOK, LifeInv, PromptTasks, [Next]_vars
    PROVE  LifeInv' /\ Evolves
<1>1. CASE LoopProgress
  <2>1. CASE Start \/ Wake
    BY <2>1, StartLife, WakeLife
  <2>2. CASE \E k \in worklist : Reap(k) \/ FailOrphan(k)
    BY <2>2, ReapLife, OrphanLife
  <2>3. CASE \E k \in worklist : PollPending(k) \/ PollFulfilled(k)
    BY <2>3, PollLife
  <2>4. CASE FetchOrphans \/ FetchProving
    BY <2>4, FetchLife
  <2>5. CASE AddNewRanges \/ ReuseCheckpoint \/ Checkpointed
    BY <2>5, InsertLife
  <2>6. CASE \/ NoNewFinalized \/ NoAggregation \/ SendCheckpoint \/ NothingQueued
             \/ SendRelay \/ NothingToRelay \/ RelayReverted
    BY <2>6, QuietStepsLife
  <2>7. CASE RequestQueued \/ ConfirmRelay
    BY <2>7, SpawnLife, ConfirmLife
  <2> QED
    BY <1>1, <2>1, <2>2, <2>3, <2>4, <2>5, <2>6, <2>7 DEF LoopProgress
<1>2. CASE LoopFailure
  BY <1>2, QuietStepsLife, CrashLife, PollFailedLife DEF LoopFailure
<1>3. CASE TaskProgress \/ TaskFailure
  BY <1>3, TasksLife DEF TaskProgress, TaskFailure
<1>4. CASE ChainStep
  <2>1. UNCHANGED <<requests, tasks, pc, worklist, relaying, config>>
    BY <1>4 DEF ChainStep, Finalize, Mine, ProposeElsewhere, loopVars
  <2> QED
    BY <2>1, OutsideLife
<1>5. CASE UNCHANGED vars
  BY <1>5, OutsideLife DEF vars, loopVars
<1> QED
  BY <1>1, <1>2, <1>3, <1>4, <1>5 DEF Next

\* As long as spawned tasks begin in time, the invariant holds of every behaviour.
LEMMA LifeHolds ==
    ASSUME PromptTasks
    PROVE  Spec => []LifeInv
<1>1. Init => LifeInv
  BY DEF Init, LifeInv, TasksOwned, TasksPrompt, FetchedFresh
<1>2. TypeOK /\ LifeInv /\ [Next]_vars => LifeInv'
  BY NextLife
<1> QED
  BY <1>1, <1>2, TypeCorrect, PTL DEF Spec

\* Whatever the intervals, limits and failures, whoever proposes, and however often the
\* process dies and comes back under other commitments: every step of the loop and of the
\* tasks takes a row of the table along its life, and what is dropped can be made again.
\* The condition is that tasks begin in time.
THEOREM RowsEvolve ==
    ASSUME PromptTasks
    PROVE  Spec => [][Evolves]_vars
<1>1. TypeOK /\ LifeInv /\ [Next]_vars => [Evolves]_vars
  BY NextLife
<1> QED
  BY <1>1, LifeHolds, TypeCorrect, PTL DEF Spec

\* Under the same condition an outcome stands: a complete proof is not lost or requested
\* again, a failed or cancelled request does not come back.
THEOREM OutcomesStand ==
    ASSUME PromptTasks
    PROVE  Spec => OutcomesFinal
<1> DEFINE Stands == \A k \in DOMAIN requests :
             requests[k] \in {"Complete", "Relayed", "Failed", "Cancelled"} =>
               /\ k \in DOMAIN requests'
               /\ \/ requests'[k] = requests[k]
                  \/ requests[k] = "Complete" /\ requests'[k] = "Relayed"
<1>1. Evolves => Stands
  BY DEF Evolves, Lifecycle, Unrecoverable
<1>2. [Evolves]_vars => [Stands]_vars
  BY <1>1
<1> HIDE DEF Stands
<1>3. Spec => [][Stands]_vars
  BY <1>2, RowsEvolve, PTL
<1> QED
  BY <1>3 DEF OutcomesFinal, Stands

-----------------------------------------------------------------------------
\* Which steps insert rows.

\* The failed range k is replaced by its halves.
Splits(k) ==
    /\ k \in DOMAIN requests /\ k.config = config /\ requests[k] \in Active
    /\ k.type = "Range" /\ k.end - k.start > 1
    /\ requests' = Table({k}, {NewRow("Range", h) : h \in Halves(k)})
    /\ \A q \in {NewRow("Range", h) : h \in Halves(k)} : q \notin DOMAIN requests
    /\ UNCHANGED <<config, planned, latest, mempool>>

\* A failed row is only marked, or split.
LEMMA FailedSplits ==
    ASSUME NEW k \in DOMAIN requests, k.config = config, requests[k] \in Active,
           NEW u, HandleFailed(k, u) \/ HandleFailedHalfway(k),
           UNCHANGED <<config, planned, latest, mempool>>
    PROVE  DOMAIN requests' \subseteq DOMAIN requests \/ Splits(k)
<1>1. PICK new : /\ requests' = Table({k}, new)
                 /\ \A q \in new : q \notin DOMAIN requests
                 /\ \/ new = {}
                    \/ /\ k.type = "Range" /\ k.end - k.start > 1
                       /\ new = {NewRow("Range", h) : h \in Halves(k)}
  BY HandleFailedRows
<1>2. CASE new = {}
  BY <1>1, <1>2 DEF Table
<1>3. CASE new # {}
  BY <1>1, <1>3 DEF Splits
<1> QED
  BY <1>2, <1>3

LEMMA Insertions ==
    ASSUME TypeOK, LifeInv, [Next]_vars
    PROVE  \/ DOMAIN requests' \subseteq DOMAIN requests
           \/ AddNewRanges \/ ReuseCheckpoint \/ Checkpointed
           \/ \E k \in worklist : Splits(k)
<1>1. CASE UNCHANGED requests
  BY <1>1
<1>2. ASSUME NEW k \in worklist, Reap(k)
      PROVE  DOMAIN requests' \subseteq DOMAIN requests \/ Splits(k)
  <2>1. CASE tasks[Handle(k)] = "err" /\ (HandleFailed(k, FALSE) \/ HandleFailedHalfway(k))
    <3>1. /\ k \in DOMAIN requests /\ k.config = config /\ Handle(k) \in DOMAIN tasks
          /\ UNCHANGED <<config, planned, latest, mempool>>
      BY <1>2 DEF Reap, LifeInv, FetchedFresh, chainVars
    <3>2. requests[k] \in Active
      BY <2>1, <3>1 DEF LifeInv, TasksOwned, Handle, Matches, Unrecoverable, Active
    <3> QED
      BY <2>1, <3>1, <3>2, FailedSplits
  <2> QED
    BY <1>2, <2>1 DEF Reap
<1>3. ASSUME NEW k \in worklist, PollFailed(k)
      PROVE  DOMAIN requests' \subseteq DOMAIN requests \/ Splits(k)
  <2>1. /\ k \in DOMAIN requests /\ k.config = config /\ requests[k] = "Prove"
        /\ UNCHANGED <<config, planned, latest, mempool>>
    BY <1>3 DEF PollFailed, LifeInv, FetchedFresh, chainVars
  <2>2. PICK u : HandleFailed(k, u) \/ HandleFailedHalfway(k)
    BY <1>3 DEF PollFailed
  <2>3. requests[k] \in Active
    BY <2>1 DEF Active
  <2> QED
    BY <2>1, <2>2, <2>3, FailedSplits
<1>4. ASSUME NEW k \in worklist, FailOrphan(k) PROVE DOMAIN requests' \subseteq DOMAIN requests
  BY <1>4, TableRows DEF FailOrphan
<1>5. CASE Start
  BY <1>5 DEF Start
<1>6. ASSUME NEW k, NEW s, requests' = [requests EXCEPT ![k] = s]
      PROVE  DOMAIN requests' \subseteq DOMAIN requests
  BY <1>6
<1>7. CASE LoopProgress
  BY <1>1, <1>2, <1>4, <1>5, <1>6, <1>7
     DEF LoopProgress, Wake, FetchOrphans, FetchProving, PollPending, PollFulfilled,
         NoNewFinalized, NoAggregation, SendCheckpoint, RequestQueued, NothingQueued,
         SendRelay, NothingToRelay, ConfirmRelay, RelayReverted
<1>8. CASE LoopFailure
  BY <1>1, <1>3, <1>8 DEF LoopFailure, LoopError, Crash
<1>9. CASE TaskProgress \/ TaskFailure
  BY <1>1, <1>6, <1>9 DEF TaskProgress, TaskFailure, TaskBegin, TaskWitness, TaskFinish, TaskFail
<1>10. CASE ChainStep
  BY <1>1, <1>10 DEF ChainStep, Finalize, Mine, ProposeElsewhere
<1>11. CASE UNCHANGED vars
  BY <1>1, <1>11 DEF vars
<1> QED
  BY <1>7, <1>8, <1>9, <1>10, <1>11 DEF Next

\* A row that is active after a step was active, or has just been inserted.
LEMMA ActiveBefore ==
    ASSUME Evolves, NEW k \in DOMAIN requests, k \in DOMAIN requests', requests'[k] \in Active
    PROVE  requests[k] \in Active
  BY DEF Evolves, Lifecycle, Active, Unrecoverable

\* The one row that an aggregation's insertion adds.
LEMMA AggregationRow ==
    ASSUME NEW r, InsertAggregation(r), NEW k \in DOMAIN requests', k \notin DOMAIN requests
    PROVE  k = NewRow("Aggregation", r) /\ k.start = r.start /\ k.end = r.end
<1>1. Unused("Aggregation", r) # {} /\ requests' = Table({}, {NewRow("Aggregation", r)})
  BY DEF InsertAggregation, Room
<1>2. DOMAIN requests' = DOMAIN requests \cup {NewRow("Aggregation", r)}
  BY <1>1 DEF Table
<1> QED
  BY <1>2 DEF NewRow

\* A new row is a range, unless an aggregation is being inserted.
LEMMA NewRanges ==
    ASSUME TypeOK, LifeInv, [Next]_vars, ~ReuseCheckpoint, ~Checkpointed,
           NEW k \in DOMAIN requests', k \notin DOMAIN requests
    PROVE  k.type = "Range"
<1>1. CASE AddNewRanges
  <2>1. PICK R : requests' = Table({}, {NewRow("Range", r) : r \in R})
    BY <1>1 DEF AddNewRanges
  <2>2. k \in {NewRow("Range", r) : r \in R}
    BY <2>1 DEF Table
  <2> QED
    BY <2>2 DEF NewRow
<1>2. ASSUME NEW q, Splits(q) PROVE k.type = "Range"
  <2>1. k \in {NewRow("Range", h) : h \in Halves(q)}
    BY <1>2 DEF Splits, Table
  <2> QED
    BY <2>1 DEF NewRow
<1> QED
  BY <1>1, <1>2, Insertions

-----------------------------------------------------------------------------
\* At most one aggregation from one block is pending.  The decision to make one is taken
\* before the wait for its checkpoint, the row inserted after it: PlannedAlone says that
\* what was decided on still holds.

\* A step keeps what is planned, plans something, or leaves nothing planned.
LEMMA PlannedSteps ==
    ASSUME TypeOK, [Next]_vars
    PROVE  \/ planned' = {} \/ SendCheckpoint
           \/ UNCHANGED <<planned, config>> /\ DOMAIN requests' \subseteq DOMAIN requests
<1>1. CASE pc # "checkpoint" /\ UNCHANGED planned
  BY <1>1 DEF TypeOK
<1>2. CASE LoopProgress /\ ~SendCheckpoint /\ ~Checkpointed /\ ~RelayReverted
  <2>1. pc # "checkpoint" /\ UNCHANGED planned
    BY <1>2 DEF LoopProgress, Start, Wake, Reap, FailOrphan, FetchOrphans, FetchProving,
                PollPending, PollFulfilled, AddNewRanges, NoNewFinalized, NoAggregation,
                ReuseCheckpoint, RequestQueued, NothingQueued, SendRelay, NothingToRelay,
                ConfirmRelay
  <2> QED
    BY <1>1, <2>1
<1>3. CASE Checkpointed \/ RelayReverted
  BY <1>3 DEF Checkpointed, RelayReverted, Forget
<1>4. CASE LoopFailure
  BY <1>1, <1>4 DEF LoopFailure, LoopError, Crash, Forget, PollFailed
<1>5. CASE TaskProgress \/ TaskFailure
  BY <1>5 DEF TaskProgress, TaskFailure, TaskBegin, TaskWitness, TaskFinish, TaskFail, loopVars
<1>6. CASE ChainStep \/ UNCHANGED vars
  BY <1>6 DEF ChainStep, Finalize, Mine, ProposeElsewhere, loopVars, vars
<1> QED
  BY <1>2, <1>3, <1>4, <1>5, <1>6 DEF Next

LEMMA PlannedAloneStep ==
    ASSUME TypeOK, LifeInv, PromptTasks, PlannedAlone, [Next]_vars
    PROVE  PlannedAlone'
<1>0. Evolves
  BY NextLife
<1>1. CASE planned' = {}
  BY <1>1 DEF PlannedAlone
<1>2. CASE SendCheckpoint
  <2>1. PICK end : WantsAggregation(end) /\ planned' = {Span(latest, end)}
    BY <1>2 DEF SendCheckpoint
  <2>2. \A r \in planned' : r.start = latest
    BY <2>1 DEF Span
  <2>3. \A k \in DOMAIN requests :
          k.type = "Aggregation" /\ requests[k] \in Active /\ k.config = config
          => k.start # latest
    BY <2>1 DEF WantsAggregation, AggregationsAfter, With, TypeOK, Row
  <2>4. UNCHANGED <<requests, config>>
    BY <1>2 DEF SendCheckpoint
  <2> QED
    BY <2>2, <2>3, <2>4 DEF PlannedAlone
<1>3. CASE UNCHANGED <<planned, config>> /\ DOMAIN requests' \subseteq DOMAIN requests
  BY <1>0, <1>3, ActiveBefore DEF PlannedAlone
<1> QED
  BY <1>1, <1>2, <1>3, PlannedSteps

LEMMA OneAggregationStep ==
    ASSUME TypeOK, LifeInv, PromptTasks, PlannedAlone, OneAggregation, [Next]_vars
    PROVE  OneAggregation'
<1>0. Evolves
  BY NextLife
<1> DEFINE Pending(k) == k.type = "Aggregation" /\ requests[k] \in Active
           Pending1(k) == k.type = "Aggregation" /\ requests'[k] \in Active
<1>1. \A k \in DOMAIN requests' : Pending1(k) /\ k \in DOMAIN requests => Pending(k)
  BY <1>0, ActiveBefore
<1>2. ASSUME NEW k \in DOMAIN requests', NEW l \in DOMAIN requests', Pending1(k), Pending1(l),
             k.config = l.config, k.start = l.start, k \notin DOMAIN requests
      PROVE  k = l
  <2>1. ReuseCheckpoint \/ Checkpointed
    BY <1>2, NewRanges
  <2>2. PICK r : /\ InsertAggregation(r)
                 /\ \A q \in DOMAIN requests : Pending(q) /\ q.config = config
                                               => q.start # r.start
    <3>1. CASE Checkpointed
      BY <3>1 DEF Checkpointed, PlannedAlone
    <3>2. CASE ReuseCheckpoint
      <4>1. PICK end : WantsAggregation(end) /\ InsertAggregation(Span(latest, end))
        BY <3>2 DEF ReuseCheckpoint
      <4>2. \A q \in DOMAIN requests : Pending(q) /\ q.config = config => q.start # latest
        BY <4>1 DEF WantsAggregation, AggregationsAfter, With, TypeOK, Row
      <4>3. Span(latest, end).start = latest
        BY DEF Span
      <4> QED
        BY <4>1, <4>2, <4>3
    <3> QED
      BY <2>1, <3>1, <3>2
  <2>3. k = NewRow("Aggregation", r) /\ k.start = r.start
    BY <1>2, <2>2, AggregationRow
  <2>4. k.config = config
    BY <2>3 DEF NewRow
  <2>5. l \notin DOMAIN requests
    BY <1>1, <1>2, <2>2, <2>3, <2>4
  <2> QED
    BY <2>2, <2>3, <2>5, AggregationRow
<1>3. ASSUME NEW k \in DOMAIN requests', NEW l \in DOMAIN requests', Pending1(k), Pending1(l),
             k.config = l.config, k.start = l.start
      PROVE  k = l
  <2>1. CASE k \in DOMAIN requests /\ l \in DOMAIN requests
    BY <1>1, <1>3, <2>1 DEF OneAggregation
  <2> QED
    BY <1>2, <1>3, <2>1
<1> QED
  BY <1>3 DEF OneAggregation

\* Whatever fails while the checkpoint of an aggregation is waited for, whoever proposes
\* meanwhile, and however often it is retried or the process restarted: no two aggregations
\* of one commitment are pending from one block.
THEOREM AggregationAlone ==
    ASSUME PromptTasks
    PROVE  Spec => []OneAggregation
<1> DEFINE Single == OneAggregation /\ PlannedAlone
<1>1. Init => Single
  BY DEF Init, OneAggregation, PlannedAlone
<1>2. TypeOK /\ LifeInv /\ Single /\ [Next]_vars => Single'
  BY OneAggregationStep, PlannedAloneStep
<1>3. Single => OneAggregation
  OBVIOUS
<1> HIDE DEF Single
<1> QED
  BY <1>1, <1>2, <1>3, TypeCorrect, LifeHolds, PTL DEF Spec

-----------------------------------------------------------------------------
\* The limits.  The row of a task that has not begun is not in flight yet, but its place
\* is taken: Busy and Generating count it, so that only the step which checks the limits
\* can make them grow.

\* Only request_queued_proofs makes a task that has yet to begin.
LEMMA SpawnedBefore ==
    ASSUME TypeOK, LifeInv, PromptTasks, [Next]_vars, ~RequestQueued
    PROVE  Spawned' \subseteq Spawned
<1>0. Evolves
  BY NextLife
<1>1. \A k : Handle(k) \in DOMAIN tasks' /\ tasks'[Handle(k)] = "spawned"
             => Handle(k) \in DOMAIN tasks /\ tasks[Handle(k)] = "spawned"
  <2>1. CASE UNCHANGED tasks
    BY <2>1
  <2>2. CASE \E k \in worklist : Reap(k)
    BY <2>2 DEF Reap
  <2>3. CASE Crash
    BY <2>3 DEF Crash
  <2>4. CASE TaskProgress \/ TaskFailure
    <3>1. PICK t \in DOMAIN tasks : \E phase : phase # "spawned" /\ Becomes(t, phase)
      BY <2>4 DEF TaskProgress, TaskFailure, TaskBegin, TaskWitness, TaskFinish, TaskFail
    <3> QED
      BY <3>1 DEF Becomes
  <2>5. CASE LoopProgress /\ ~\E k \in worklist : Reap(k)
    BY <2>1, <2>5
       DEF LoopProgress, Start, Wake, FailOrphan, FetchOrphans, FetchProving, PollPending,
           PollFulfilled, AddNewRanges, NoNewFinalized, NoAggregation, ReuseCheckpoint,
           SendCheckpoint, Checkpointed, NothingQueued, SendRelay, NothingToRelay,
           ConfirmRelay, RelayReverted
  <2>6. CASE LoopFailure /\ ~Crash
    BY <2>1, <2>6 DEF LoopFailure, LoopError, PollFailed
  <2>7. CASE ChainStep \/ UNCHANGED vars
    BY <2>1, <2>7 DEF ChainStep, Finalize, Mine, ProposeElsewhere, vars
  <2> QED
    BY <2>2, <2>3, <2>4, <2>5, <2>6, <2>7 DEF Next
<1>2. \A k : Handle(k) \in DOMAIN tasks => k \in DOMAIN requests
  BY DEF LifeInv, TasksOwned, Handle
<1> QED
  BY <1>1, <1>2 DEF Spawned

\* Only the start of the process changes the commitments.
LEMMA ConfigSteps ==
    ASSUME [Next]_vars
    PROVE  UNCHANGED config \/ Start
<1>1. CASE LoopProgress
  BY <1>1
     DEF LoopProgress, Wake, Reap, FailOrphan, FetchOrphans, FetchProving, PollPending,
         PollFulfilled, AddNewRanges, NoNewFinalized, NoAggregation, ReuseCheckpoint,
         SendCheckpoint, Checkpointed, RequestQueued, NothingQueued, SendRelay,
         NothingToRelay, ConfirmRelay, RelayReverted
<1>2. CASE LoopFailure
  BY <1>2 DEF LoopFailure, LoopError, Crash, PollFailed
<1>3. CASE TaskProgress \/ TaskFailure
  BY <1>3 DEF TaskProgress, TaskFailure, TaskBegin, TaskWitness, TaskFinish, TaskFail, loopVars
<1>4. CASE ChainStep \/ UNCHANGED vars
  BY <1>4 DEF ChainStep, Finalize, Mine, ProposeElsewhere, loopVars, vars
<1> QED
  BY <1>1, <1>2, <1>3, <1>4 DEF Next

\* Every row in flight is of the running commitments.
InFlightOurs == \A k \in DOMAIN requests : requests[k] \in InFlight => k.config = config

\* A row comes to be in flight only from there or by the first write of its task, and to
\* generate its witness only by that write.
LEMMA InFlightBefore ==
    ASSUME LifeInv, Evolves, NEW k \in DOMAIN requests'
    PROVE  /\ requests'[k] \in InFlight
              => k \in DOMAIN requests /\ (requests[k] \in InFlight \/ k \in Spawned)
           /\ requests'[k] = "WitnessGeneration"
              => k \in DOMAIN requests /\ (requests[k] = "WitnessGeneration" \/ k \in Spawned)
<1>1. CASE k \in DOMAIN requests
  <2>1. Lifecycle(k, requests[k], requests'[k])
    BY <1>1 DEF Evolves
  <2> QED
    BY <1>1, <2>1 DEF Lifecycle, InFlight, Unrecoverable
<1>2. CASE k \notin DOMAIN requests
  BY <1>2 DEF Evolves, InFlight
<1> QED
  BY <1>1, <1>2

\* A task that has yet to begin is of the running commitments.
LEMMA SpawnedOurs ==
    ASSUME LifeInv
    PROVE  \A k \in Spawned : k.config = config
  BY DEF LifeInv, TasksOwned, Spawned, Handle

LEMMA InFlightOursStep ==
    ASSUME TypeOK, LifeInv, PromptTasks, InFlightOurs, [Next]_vars
    PROVE  InFlightOurs'
<1>0. Evolves
  BY NextLife
<1>1. CASE UNCHANGED config
  BY <1>0, <1>1, InFlightBefore, SpawnedOurs DEF InFlightOurs
<1>2. CASE Start
  BY <1>2 DEF Start, InFlightOurs, InFlight, Unrecoverable
<1> QED
  BY <1>1, <1>2, ConfigSteps

\* No other step makes the counted sets grow.
LEMMA CountedBefore ==
    ASSUME TypeOK, LifeInv, PromptTasks, InFlightOurs, [Next]_vars, ~RequestQueued
    PROVE  Busy' \subseteq Busy /\ Generating' \subseteq Generating
<1>0. Evolves /\ Spawned' \subseteq Spawned
  BY NextLife, SpawnedBefore
<1>1. ASSUME NEW k \in DOMAIN requests', requests'[k] \in InFlight
      PROVE  k \in Busy
  BY <1>0, <1>1, InFlightBefore DEF Busy, With, InFlightOurs
<1>2. ASSUME NEW k \in DOMAIN requests', requests'[k] = "WitnessGeneration"
      PROVE  k \in Generating
  BY <1>0, <1>2, InFlightBefore DEF Generating, With, InFlightOurs, InFlight
<1>3. Busy' \subseteq Busy
  BY <1>0, <1>1 DEF Busy, With
<1>4. Generating' \subseteq Generating
  BY <1>0, <1>2 DEF Generating, With
<1> QED
  BY <1>3, <1>4

\* That step makes them grow by one, from below the limits.
LEMMA CountedQueued ==
    ASSUME TypeOK, LifeInv, LimitsInv, RequestQueued
    PROVE  /\ IsFiniteSet(Busy') /\ Cardinality(Busy') <= MaxProofRequests
           /\ IsFiniteSet(Generating') /\ Cardinality(Generating') <= MaxWitnessGen
<1>1. PICK k : /\ k \in DOMAIN requests /\ k.config = config /\ requests[k] = "Unrequested"
               /\ tasks' = [t \in DOMAIN tasks \cup {Handle(k)} |->
                              IF t = Handle(k) THEN "spawned" ELSE tasks[t]]
  BY SpawnTask
<1>2. pc = "queue" /\ ~AtLimit /\ UNCHANGED <<requests, config>>
  BY DEF RequestQueued
<1>3. Spawned = {}
  BY <1>2 DEF LifeInv, TasksPrompt, Spawned
<1>4. Spawned' \subseteq {k}
  <2>1. \A q : Handle(q) = Handle(k) => q = k
    BY DEF Handle
  <2>2. \A q \in DOMAIN requests : Handle(q) \in DOMAIN tasks => tasks[Handle(q)] # "spawned"
    BY <1>3 DEF Spawned
  <2> QED
    BY <1>1, <1>2, <2>1, <2>2 DEF Spawned
<1>5. Busy = With(InFlight) /\ Generating = With({"WitnessGeneration"})
  BY <1>3 DEF Busy, Generating
<1>6. Busy' \subseteq Busy \cup {k} /\ Generating' \subseteq Generating \cup {k}
  BY <1>2, <1>4, <1>5 DEF Busy, Generating, With
<1>7. MaxProofRequests \in Nat /\ MaxWitnessGen \in Nat
  BY ConstantsAssumption
<1>8. ASSUME NEW S, IsFiniteSet(S), NEW T, T \subseteq S \cup {k}, NEW max \in Nat,
             ~(Cardinality(S) >= max)
      PROVE  IsFiniteSet(T) /\ Cardinality(T) <= max
  <2>1. /\ IsFiniteSet(S \cup {k}) /\ Cardinality(S) \in Nat
        /\ Cardinality(S \cup {k}) <= Cardinality(S) + 1
    BY <1>8, FS_AddElement, FS_CardinalityType
  <2>2. /\ IsFiniteSet(T) /\ Cardinality(T) <= Cardinality(S \cup {k})
        /\ Cardinality(T) \in Nat /\ Cardinality(S \cup {k}) \in Nat
    BY <1>8, <2>1, FS_Subset, FS_CardinalityType
  <2> QED
    BY <1>8, <2>1, <2>2
<1>9. /\ IsFiniteSet(Busy) /\ ~(Cardinality(Busy) >= MaxProofRequests)
      /\ IsFiniteSet(Generating) /\ ~(Cardinality(Generating) >= MaxWitnessGen)
  BY <1>2, <1>5 DEF AtLimit, LimitsInv
<1> QED
  BY <1>6, <1>7, <1>8, <1>9

LEMMA LimitsStep ==
    ASSUME TypeOK, LifeInv, PromptTasks, LimitsInv, [Next]_vars
    PROVE  LimitsInv'
<1>1. InFlightOurs'
  BY InFlightOursStep DEF LimitsInv, InFlightOurs
<1>2. /\ IsFiniteSet(Busy') /\ Cardinality(Busy') <= MaxProofRequests
      /\ IsFiniteSet(Generating') /\ Cardinality(Generating') <= MaxWitnessGen
  <2>1. CASE RequestQueued
    BY <2>1, CountedQueued
  <2>2. CASE ~RequestQueued
    <3>1. Busy' \subseteq Busy /\ Generating' \subseteq Generating
      BY <2>2, CountedBefore DEF LimitsInv, InFlightOurs
    <3>2. ASSUME NEW S, IsFiniteSet(S), NEW T, T \subseteq S, NEW max \in Nat,
                 Cardinality(S) <= max
          PROVE  IsFiniteSet(T) /\ Cardinality(T) <= max
      <4>1. /\ IsFiniteSet(T) /\ Cardinality(T) <= Cardinality(S)
            /\ Cardinality(T) \in Nat /\ Cardinality(S) \in Nat
        BY <3>2, FS_Subset, FS_CardinalityType
      <4> QED
        BY <3>2, <4>1
    <3> QED
      BY <3>1, <3>2, ConstantsAssumption DEF LimitsInv
  <2> QED
    BY <2>1, <2>2
<1> QED
  BY <1>1, <1>2 DEF LimitsInv, InFlightOurs

LEMMA LimitsHold ==
    ASSUME PromptTasks
    PROVE  Spec => []LimitsInv
<1>1. Init => LimitsInv
  <2> SUFFICES ASSUME Init PROVE LimitsInv
    OBVIOUS
  <2>1. DOMAIN requests = {}
    BY DEF Init
  <2>2. Busy = {} /\ Generating = {}
    BY <2>1 DEF Busy, Generating, With, Spawned
  <2>3. 0 <= MaxProofRequests /\ 0 <= MaxWitnessGen
    BY ConstantsAssumption
  <2> QED
    BY <2>1, <2>2, <2>3, FS_EmptySet DEF LimitsInv
<1>2. TypeOK /\ LifeInv /\ LimitsInv /\ [Next]_vars => LimitsInv'
  BY LimitsStep
<1> QED
  BY <1>1, <1>2, TypeCorrect, LifeHolds, PTL DEF Spec

\* Tasks are not more than the counted rows they stand for.
LEMMA TasksCounted ==
    ASSUME LifeInv, NEW S \in SUBSET DOMAIN tasks, NEW B, IsFiniteSet(B),
           \A t \in S : t[1] \in B, NEW max \in Nat, Cardinality(B) <= max
    PROVE  Cardinality(S) <= max
<1> DEFINE f == [t \in S |-> t[1]]
<1>1. \A t \in S : t = Handle(t[1])
  BY DEF LifeInv, TasksOwned
<1>2. f \in Injection(S, B)
  <2>1. f \in [S -> B]
    OBVIOUS
  <2>2. \A t, u \in S : f[t] = f[u] => t = u
    BY <1>1
  <2> QED
    BY <2>1, <2>2 DEF Injection, IsInjective
<1> HIDE DEF f
<1>3. IsFiniteSet(S) /\ Cardinality(S) <= Cardinality(B)
  BY <1>2, FS_Injection
<1>4. Cardinality(S) \in Nat /\ Cardinality(B) \in Nat
  BY <1>3, FS_CardinalityType
<1> QED
  BY <1>3, <1>4

\* A running task stands for a row that is in flight or about to be; one that counts
\* against the limit of witnesses stands for a row in WitnessGeneration.
LEMMA RunningCounted ==
    ASSUME LifeInv, NEW t \in DOMAIN tasks
    PROVE  /\ tasks[t] \in Running => t[1] \in Busy
           /\ t \in Witnessing => t[1] \in Generating
<1>1. /\ t = Handle(t[1]) /\ t[1] \in DOMAIN requests /\ t[1].config = config
      /\ Matches(tasks[t], requests[t[1]])
  BY DEF LifeInv, TasksOwned
<1>2. tasks[t] = "spawned" => t[1] \in Spawned
  BY <1>1 DEF Spawned
<1>3. ASSUME tasks[t] \in Running, tasks[t] # "spawned"
      PROVE  requests[t[1]] \in {"WitnessGeneration", "Execution"}
  BY <1>1, <1>3 DEF Matches, Running
<1>4. ASSUME t \in Witnessing, tasks[t] # "spawned"
      PROVE  requests[t[1]] = "WitnessGeneration"
  BY <1>1, <1>4 DEF Matches, Running, Witnessing
<1> QED
  BY <1>1, <1>2, <1>3, <1>4 DEF Busy, Generating, With, InFlight

\* In every mode no more rows are in flight and no more tasks run than
\* max_concurrent_proof_requests allows, nor more tasks make a witness than
\* max_concurrent_witness_gen does, whatever is left over from before a restart.
THEOREM LimitsKept ==
    ASSUME PromptTasks
    PROVE  Spec => []WithinLimits
<1>1. LifeInv /\ LimitsInv => WithinLimits
  <2> SUFFICES ASSUME LifeInv, LimitsInv PROVE WithinLimits
    OBVIOUS
  <2>1. /\ IsFiniteSet(Busy) /\ Cardinality(Busy) <= MaxProofRequests
        /\ IsFiniteSet(Generating) /\ Cardinality(Generating) <= MaxWitnessGen
        /\ MaxProofRequests \in Nat /\ MaxWitnessGen \in Nat
    BY ConstantsAssumption DEF LimitsInv
  <2>2. Cardinality(With(InFlight)) <= MaxProofRequests
    <3>1. With(InFlight) \in SUBSET Busy
      BY DEF Busy
    <3>2. IsFiniteSet(With(InFlight)) /\ Cardinality(With(InFlight)) <= Cardinality(Busy)
      BY <2>1, <3>1, FS_Subset
    <3>3. Cardinality(With(InFlight)) \in Nat /\ Cardinality(Busy) \in Nat
      BY <2>1, <3>2, FS_CardinalityType
    <3> QED
      BY <2>1, <3>2, <3>3
  <2>3. Cardinality({t \in DOMAIN tasks : tasks[t] \in Running}) <= MaxProofRequests
    <3> DEFINE R == {t \in DOMAIN tasks : tasks[t] \in Running}
    <3>1. R \in SUBSET DOMAIN tasks /\ \A t \in R : t[1] \in Busy
      BY RunningCounted
    <3> QED
      BY <2>1, <3>1, TasksCounted
  <2>4. Cardinality(Witnessing) <= MaxWitnessGen
    <3>1. Witnessing \in SUBSET DOMAIN tasks /\ \A t \in Witnessing : t[1] \in Generating
      BY RunningCounted DEF Witnessing
    <3> QED
      BY <2>1, <3>1, TasksCounted
  <2> QED
    BY <2>2, <2>3, <2>4 DEF WithinLimits
<1> QED
  BY <1>1, LifeHolds, LimitsHold, PTL

-----------------------------------------------------------------------------
\* Disjoint requests and tiled aggregations.  What both need is that no output is accepted
\* that ends inside an active range: then they hold for any commitments and proposers.  Of
\* a proposer under one commitment they are in turn what keeps its own outputs from doing
\* so: the aggregation that moves the latest block is tiled, and no other active range
\* overlaps a tile.

OneCommitment == \A c, d \in Configs : c = d

\* Every row is of the one commitment.
LEMMA RowsOurs ==
    ASSUME TypeOK, OneCommitment
    PROVE  \A k \in DOMAIN requests : k.config = config
  BY DEF TypeOK, Row, OneCommitment

\* Rows have block numbers for bounds.
LEMMA RowBounds ==
    ASSUME TypeOK
    PROVE  latest \in Nat /\ \A k \in DOMAIN requests : k.start \in Nat /\ k.end \in Nat
  BY DEF TypeOK, Row

\* The halves of a range lie within it, are not empty and do not overlap.
LEMMA HalvesWithin ==
    ASSUME NEW k, k.start \in Nat, k.end \in Nat, k.end - k.start > 1
    PROVE  /\ \A h \in Halves(k) : /\ h.start \in Nat /\ h.end \in Nat
                                   /\ k.start <= h.start /\ h.start < h.end /\ h.end <= k.end
           /\ \A g, h \in Halves(k) : Overlap(g, h) => g = h
<1>1. PICK mid \in Nat : mid = (k.start + k.end) \div 2
  OBVIOUS
<1>2. k.start < mid /\ mid < k.end
  BY <1>1
<1>3. Halves(k) = {Span(k.start, mid), Span(mid, k.end)}
  BY <1>1 DEF Halves
<1> QED
  BY <1>2, <1>3 DEF Span, Overlap

\* A row inserted for some blocks covers these.
LEMMA NewRowBlocks ==
    ASSUME NEW type, NEW r
    PROVE  NewRow(type, r).start = r.start /\ NewRow(type, r).end = r.end
  BY DEF NewRow

\* The oracle's latest block moves only forward by another's output, or to the end of an
\* aggregation that was sent, and that starts at it.
LEMMA LatestSteps ==
    ASSUME TypeOK, [Next]_vars
    PROVE  \/ UNCHANGED latest
           \/ \E x \in mempool : /\ x.aggregation.start = latest /\ latest' = x.aggregation.end
                                 /\ UNCHANGED <<requests, config>>
           \/ ProposeElsewhere /\ latest' \in Nat /\ latest <= latest'
<1>1. CASE LoopProgress
  BY <1>1
     DEF LoopProgress, Start, Wake, Reap, FailOrphan, FetchOrphans, FetchProving, PollPending,
         PollFulfilled, AddNewRanges, NoNewFinalized, NoAggregation, ReuseCheckpoint,
         SendCheckpoint, Checkpointed, RequestQueued, NothingQueued, SendRelay,
         NothingToRelay, ConfirmRelay, RelayReverted, chainVars
<1>2. CASE LoopFailure
  BY <1>2 DEF LoopFailure, LoopError, Crash, PollFailed, chainVars
<1>3. CASE TaskProgress \/ TaskFailure
  BY <1>3 DEF TaskProgress, TaskFailure, TaskBegin, TaskWitness, TaskFinish, TaskFail, chainVars
<1>4. ASSUME NEW x \in mempool, Mine(x)
      PROVE  \/ UNCHANGED latest
             \/ /\ x.aggregation.start = latest /\ latest' = x.aggregation.end
                /\ UNCHANGED <<requests, config>>
  BY <1>4 DEF Mine
<1>5. CASE Finalize
  BY <1>5 DEF Finalize
<1>6. CASE UNCHANGED vars
  BY <1>6 DEF vars, chainVars
<1>7. CASE ProposeElsewhere
  BY <1>7, ConstantsAssumption DEF ProposeElsewhere, TypeOK
<1> QED
  BY <1>1, <1>2, <1>3, <1>4, <1>5, <1>6, <1>7 DEF Next, ChainStep

\* The transactions after a step were sent before it, or by it for a proven aggregation.
LEMMA MempoolSteps ==
    ASSUME [Next]_vars, NEW x \in mempool'
    PROVE  \/ \E y \in mempool : y.aggregation = x.aggregation
           \/ /\ x.aggregation \in DOMAIN requests /\ x.aggregation.type = "Aggregation"
              /\ requests[x.aggregation] = "Complete"
<1>1. CASE UNCHANGED mempool
  BY <1>1
<1>2. CASE Forget
  BY <1>2 DEF Forget
<1>3. CASE SendRelay
  BY <1>3 DEF SendRelay, AggregationsAfter, With
<1>4. CASE LoopProgress
  BY <1>1, <1>2, <1>3, <1>4
     DEF LoopProgress, Start, Wake, Reap, FailOrphan, FetchOrphans, FetchProving, PollPending,
         PollFulfilled, AddNewRanges, NoNewFinalized, NoAggregation, ReuseCheckpoint,
         SendCheckpoint, Checkpointed, RequestQueued, NothingQueued, NothingToRelay,
         ConfirmRelay, RelayReverted, chainVars
<1>5. CASE LoopFailure
  BY <1>1, <1>2, <1>5 DEF LoopFailure, LoopError, Crash, PollFailed, chainVars
<1>6. CASE TaskProgress \/ TaskFailure
  BY <1>1, <1>6
     DEF TaskProgress, TaskFailure, TaskBegin, TaskWitness, TaskFinish, TaskFail, chainVars
<1>7. CASE ChainStep
  BY <1>1, <1>7 DEF ChainStep, Finalize, Mine, ProposeElsewhere
<1>8. CASE UNCHANGED vars
  BY <1>1, <1>8 DEF vars, chainVars
<1> QED
  BY <1>4, <1>5, <1>6, <1>7, <1>8 DEF Next

\* What has been sent stays proven.
LEMMA SentProvenStep ==
    ASSUME Evolves, SentProven, [Next]_vars
    PROVE  SentProven'
<1> SUFFICES ASSUME NEW x \in mempool'
             PROVE  /\ x.aggregation \in DOMAIN requests' /\ x.aggregation.type = "Aggregation"
                    /\ requests'[x.aggregation] \in {"Complete", "Relayed"}
  BY DEF SentProven
<1>1. PICK k \in DOMAIN requests : /\ k = x.aggregation /\ k.type = "Aggregation"
                                   /\ requests[k] \in {"Complete", "Relayed"}
  BY MempoolSteps DEF SentProven
<1>2. k \in DOMAIN requests'
  BY <1>1 DEF Evolves, Unrecoverable
<1>3. Lifecycle(k, requests[k], requests'[k])
  BY <1>2 DEF Evolves
<1>4. requests'[k] \in {"Complete", "Relayed"}
  BY <1>1, <1>3 DEF Lifecycle, Unrecoverable
<1> QED
  BY <1>1, <1>2, <1>4

-----------------------------------------------------------------------------
\* The rows add_new_ranges inserts.
LEMMA PlannedRows ==
    ASSUME TypeOK, RowsProper, AddNewRanges
    PROVE  \A k \in DOMAIN requests' \ DOMAIN requests :
             /\ k.start \in Nat /\ k.end \in Nat /\ latest <= k.start /\ k.start < k.end
             /\ \A q \in RangesAfter(Active, latest) : ~Overlap(k, q)
             /\ \A l \in DOMAIN requests' \ DOMAIN requests : Overlap(k, l) => k = l
<1> DEFINE R == RangesAfter(Active, latest)
           new == Planned(latest, finalized, R, RangeInterval)
<1>1. Proper(R) /\ Bounded(R)
  BY DEF RowsProper, RangesAfter, With, Proper, Bounded
<1>2. requests' = Table({}, {NewRow("Range", r) : r \in new})
  BY DEF AddNewRanges, Planned
<1>3. latest \in Nat /\ finalized \in Nat /\ RangeInterval \in Nat \ {0}
  BY ConstantsAssumption DEF TypeOK
<1>4. \A r \in new : /\ r \in Blocks /\ latest <= r.start /\ r.start < r.end
                     /\ \A q \in R : ~Overlap(r, q)
  BY <1>1, <1>3, PlannedFree
<1>5. \A r, s \in new : Overlap(r, s) => r = s
  BY <1>1, <1>3, PlannedDisjoint
<1> HIDE DEF new, R
<1>6. DOMAIN requests' = DOMAIN requests \cup {NewRow("Range", r) : r \in new}
  BY <1>2 DEF Table
<1>7. ASSUME NEW k \in DOMAIN requests', k \notin DOMAIN requests
      PROVE  \E r \in new : k = NewRow("Range", r) /\ k.start = r.start /\ k.end = r.end
  BY <1>6, <1>7, NewRowBlocks
<1>8. ASSUME NEW k \in DOMAIN requests', k \notin DOMAIN requests
      PROVE  /\ k.start \in Nat /\ k.end \in Nat /\ latest <= k.start /\ k.start < k.end
             /\ \A q \in R : ~Overlap(k, q)
  BY <1>4, <1>7, <1>8 DEF Overlap, Blocks
<1>9. ASSUME NEW k \in DOMAIN requests', k \notin DOMAIN requests,
             NEW l \in DOMAIN requests', l \notin DOMAIN requests, Overlap(k, l)
      PROVE  k = l
  <2>1. PICK r \in new : k = NewRow("Range", r) /\ k.start = r.start /\ k.end = r.end
    BY <1>7, <1>9
  <2>2. PICK s \in new : l = NewRow("Range", s) /\ l.start = s.start /\ l.end = s.end
    BY <1>7, <1>9
  <2>3. Overlap(r, s)
    BY <1>9, <2>1, <2>2 DEF Overlap
  <2> QED
    BY <1>5, <2>1, <2>2, <2>3
<1> QED
  BY <1>8, <1>9 DEF R

\* The rows a split inserts.
LEMMA SplitRows ==
    ASSUME TypeOK, NEW k, Splits(k)
    PROVE  /\ requests'[k] = "Failed"
           /\ \A n \in DOMAIN requests' \ DOMAIN requests :
                /\ n.start \in Nat /\ n.end \in Nat
                /\ k.start <= n.start /\ n.start < n.end /\ n.end <= k.end
                /\ \A l \in DOMAIN requests' \ DOMAIN requests : Overlap(n, l) => n = l
<1>1. k \in DOMAIN requests /\ k.start \in Nat /\ k.end \in Nat /\ k.end - k.start > 1
  BY RowBounds DEF Splits
<1>2. requests' = Table({k}, {NewRow("Range", h) : h \in Halves(k)})
      /\ \A q \in {NewRow("Range", h) : h \in Halves(k)} : q \notin DOMAIN requests
  BY DEF Splits
<1>3. requests'[k] = "Failed"
      /\ DOMAIN requests' = DOMAIN requests \cup {NewRow("Range", h) : h \in Halves(k)}
  <2> DEFINE new == {NewRow("Range", h) : h \in Halves(k)}
  <2> HIDE DEF new
  <2>1. requests' = Table({k}, new) /\ \A q \in new : q \notin DOMAIN requests
    BY <1>2 DEF new
  <2>2. requests'[k] = "Failed" /\ DOMAIN requests' = DOMAIN requests \cup new
    BY <1>1, <2>1, TableRows
  <2> QED
    BY <2>2 DEF new
<1>4. ASSUME NEW n \in DOMAIN requests', n \notin DOMAIN requests
      PROVE  \E h \in Halves(k) : n = NewRow("Range", h) /\ n.start = h.start /\ n.end = h.end
  BY <1>3, <1>4, NewRowBlocks
<1>5. /\ \A h \in Halves(k) : /\ h.start \in Nat /\ h.end \in Nat
                              /\ k.start <= h.start /\ h.start < h.end /\ h.end <= k.end
      /\ \A g, h \in Halves(k) : Overlap(g, h) => g = h
  BY <1>1, HalvesWithin
<1>6. ASSUME NEW n \in DOMAIN requests', n \notin DOMAIN requests
      PROVE  /\ n.start \in Nat /\ n.end \in Nat
             /\ k.start <= n.start /\ n.start < n.end /\ n.end <= k.end
  BY <1>4, <1>5, <1>6
<1>7. ASSUME NEW n \in DOMAIN requests', n \notin DOMAIN requests,
             NEW l \in DOMAIN requests', l \notin DOMAIN requests, Overlap(n, l)
      PROVE  n = l
  <2>1. PICK g \in Halves(k) : n = NewRow("Range", g) /\ n.start = g.start /\ n.end = g.end
    BY <1>4, <1>7
  <2>2. PICK h \in Halves(k) : l = NewRow("Range", h) /\ l.start = h.start /\ l.end = h.end
    BY <1>4, <1>7
  <2>3. Overlap(g, h)
    BY <1>7, <2>1, <2>2 DEF Overlap
  <2> QED
    BY <1>5, <2>1, <2>2, <2>3
<1> QED
  BY <1>3, <1>6, <1>7

-----------------------------------------------------------------------------
\* Every step keeps the invariant, one conjunct at a time.

\* An aggregation is planned only over at least one submission interval.
LEMMA AggregationProper ==
    ASSUME TypeOK, NEW end, end \in ContiguousEnds(RangesAfter({"Complete"}, latest)),
           WantsAggregation(end)
    PROVE  Proper({Span(latest, end)})
<1>1. Span(latest, end) \in Blocks
  BY PlannedType
<1>2. latest \in Nat /\ end \in Nat
  BY <1>1 DEF Blocks, Span
<1>3. end - latest >= SubmissionInterval /\ SubmissionInterval \in Nat \ {0}
  BY ConstantsAssumption DEF WantsAggregation
<1> QED
  BY <1>2, <1>3 DEF Proper, Span

LEMMA RowsProperStep ==
    ASSUME TypeOK, LifeInv, RowsProper, [Next]_vars
    PROVE  RowsProper'
<1>1. Proper(DOMAIN requests')
  <2> SUFFICES ASSUME NEW k \in DOMAIN requests', k \notin DOMAIN requests
               PROVE  k.start \in Nat /\ k.end \in Nat /\ k.start < k.end
    BY DEF RowsProper, Proper
  <2>1. CASE AddNewRanges
    BY <2>1, PlannedRows
  <2>2. CASE \E q \in worklist : Splits(q)
    BY <2>2, SplitRows
  <2>3. CASE ReuseCheckpoint \/ Checkpointed
    <3>1. PICK r : InsertAggregation(r) /\ Proper({r})
      <4>1. CASE Checkpointed
        BY <4>1 DEF Checkpointed, RowsProper, Proper
      <4>2. CASE ReuseCheckpoint
        BY <4>2, AggregationProper DEF ReuseCheckpoint
      <4> QED
        BY <2>3, <4>1, <4>2
    <3>2. k.start = r.start /\ k.end = r.end
      BY <3>1, AggregationRow
    <3> QED
      BY <3>1, <3>2 DEF Proper
  <2> QED
    BY <2>1, <2>2, <2>3, Insertions
<1>2. Proper(planned')
  <2>1. CASE SendCheckpoint
    BY <2>1, AggregationProper DEF SendCheckpoint
  <2>2. CASE planned' = {} \/ UNCHANGED planned
    BY <2>2 DEF RowsProper, Proper
  <2> QED
    BY <2>1, <2>2, PlannedSteps
<1> QED
  BY <1>1, <1>2 DEF RowsProper

\* The latest block does not go back.
LEMMA LatestGrows ==
    ASSUME TypeOK, RowsProper, SentProven, [Next]_vars
    PROVE  latest' \in Nat /\ latest <= latest'
<1>1. latest \in Nat
  BY DEF TypeOK
<1>2. ASSUME NEW x \in mempool, x.aggregation.start = latest, latest' = x.aggregation.end
      PROVE  latest' \in Nat /\ latest <= latest'
  <2>1. x.aggregation \in DOMAIN requests
    BY DEF SentProven
  <2> QED
    BY <1>2, <2>1 DEF RowsProper, Proper
<1> QED
  BY <1>1, <1>2, LatestSteps

\* A live range was live before, or is new.
LEMMA LiveBefore ==
    ASSUME TypeOK, Evolves, latest' \in Nat, latest <= latest',
           NEW c, NEW k \in LiveRanges(c)', k \in DOMAIN requests
    PROVE  k \in LiveRanges(c)
<1>1. /\ k \in DOMAIN requests' /\ requests'[k] \in Active /\ k.type = "Range"
      /\ k.config = c /\ k.start >= latest'
  BY DEF LiveRanges
<1>2. requests[k] \in Active
  BY <1>1, ActiveBefore
<1>3. k.start \in Nat /\ latest \in Nat
  BY RowBounds
<1> QED
  BY <1>1, <1>2, <1>3 DEF LiveRanges

\* The new ranges are disjoint from the live ones and from each other.
LEMMA DisjointStep ==
    ASSUME TypeOK, LifeInv, PromptTasks, RangesInv, NoStraddle, [Next]_vars, NEW c \in Configs
    PROVE  Disjoint(LiveRanges(c)')
<1>0. Evolves /\ latest' \in Nat /\ latest <= latest' /\ latest \in Nat
  BY NextLife, LatestGrows DEF RangesInv, TypeOK
<1>1. Disjoint(LiveRanges(c))
  BY DEF RangesInv, RangesDisjoint
<1>2. \A k \in LiveRanges(c)' : k \in DOMAIN requests => k \in LiveRanges(c)
  BY <1>0, LiveBefore
<1>3. \A k \in LiveRanges(c)' :
        /\ k \in DOMAIN requests' /\ k.type = "Range" /\ k.start >= latest'
        /\ requests'[k] \in Active /\ k.config = c
  BY DEF LiveRanges
<1>4. \A k \in DOMAIN requests : k.start \in Nat /\ k.end \in Nat
  BY RowBounds
<1>5. ASSUME \A k \in DOMAIN requests' \ DOMAIN requests : k.type # "Range" \/ k.config # c
      PROVE  Disjoint(LiveRanges(c)')
  <2>1. LiveRanges(c)' \subseteq LiveRanges(c)
    BY <1>2, <1>3, <1>5
  <2> QED
    BY <1>1, <2>1 DEF Disjoint
<1>6. ASSUME \A n \in LiveRanges(c)' \ DOMAIN requests :
               /\ \A q \in LiveRanges(c)' \cap LiveRanges(c) : ~Overlap(n, q)
               /\ \A l \in LiveRanges(c)' \ DOMAIN requests : Overlap(n, l) => n = l
      PROVE  Disjoint(LiveRanges(c)')
  <2> SUFFICES ASSUME NEW q \in LiveRanges(c)', NEW r \in LiveRanges(c)', q # r, Overlap(q, r)
               PROVE  FALSE
    BY DEF Disjoint
  <2>1. Overlap(r, q)
    BY DEF Overlap
  <2>2. CASE q \in DOMAIN requests /\ r \in DOMAIN requests
    BY <1>1, <1>2, <2>2 DEF Disjoint
  <2>3. CASE q \notin DOMAIN requests
    BY <1>2, <1>6, <2>3
  <2>4. CASE r \notin DOMAIN requests
    BY <1>2, <1>6, <2>1, <2>4
  <2> QED
    BY <2>2, <2>3, <2>4
<1>7. CASE DOMAIN requests' \subseteq DOMAIN requests \/ config # c
  <2>1. ASSUME NEW k \in DOMAIN requests', k \notin DOMAIN requests PROVE k.config # c
    BY <1>0, <1>7, <2>1 DEF Evolves
  <2> QED
    BY <1>5, <2>1
<1>8. CASE ReuseCheckpoint \/ Checkpointed
  <2>1. PICK r : InsertAggregation(r)
    BY <1>8 DEF ReuseCheckpoint, Checkpointed
  <2>2. ASSUME NEW k \in DOMAIN requests', k \notin DOMAIN requests PROVE k.type # "Range"
    BY <2>1, <2>2, AggregationRow DEF NewRow
  <2> QED
    BY <1>5, <2>2
<1>9. CASE AddNewRanges /\ config = c
  <2>1. \A k \in DOMAIN requests' \ DOMAIN requests :
          /\ \A q \in RangesAfter(Active, latest) : ~Overlap(k, q)
          /\ \A l \in DOMAIN requests' \ DOMAIN requests : Overlap(k, l) => k = l
    BY <1>9, PlannedRows DEF RangesInv
  <2>2. LiveRanges(c) = RangesAfter(Active, latest)
    BY <1>9 DEF LiveRanges, RangesAfter, With
  <2> QED
    BY <1>3, <1>6, <2>1, <2>2
<1>10. ASSUME NEW k \in worklist, Splits(k), config = c PROVE Disjoint(LiveRanges(c)')
  <2>1. /\ k \in DOMAIN requests /\ k.type = "Range" /\ k.config = c
        /\ requests[k] \in Active
    BY <1>10 DEF Splits
  <2>2. /\ requests'[k] = "Failed"
        /\ \A n \in DOMAIN requests' \ DOMAIN requests :
             /\ n.start \in Nat /\ n.end \in Nat
             /\ k.start <= n.start /\ n.start < n.end /\ n.end <= k.end
             /\ \A l \in DOMAIN requests' \ DOMAIN requests : Overlap(n, l) => n = l
    BY <1>10, SplitRows
  <2>3. ASSUME NEW n \in LiveRanges(c)', n \notin DOMAIN requests,
               NEW q \in LiveRanges(c)', q \in LiveRanges(c)
        PROVE  ~Overlap(n, q)
    <3>1. n \in DOMAIN requests' /\ n.start >= latest' /\ q \in DOMAIN requests
      BY <1>3, <2>3 DEF LiveRanges
    <3>2. /\ n.start \in Nat /\ n.end \in Nat
          /\ k.start <= n.start /\ n.start < n.end /\ n.end <= k.end
      BY <2>2, <2>3, <3>1
    <3>3. q # k
      BY <1>3, <2>2, <2>3 DEF Active
    <3>4. k \in LiveRanges(c)
      <4>1. ~(k.end <= latest)
        BY <1>0, <1>4, <2>1, <3>1, <3>2
      <4>2. latest <= k.start
        BY <1>10, <2>1, <4>1 DEF NoStraddle
      <4> QED
        BY <1>0, <1>4, <2>1, <4>2 DEF LiveRanges
    <3>5. ~Overlap(q, k)
      BY <1>1, <2>3, <3>3, <3>4 DEF Disjoint
    <3> QED
      BY <1>4, <2>1, <3>1, <3>2, <3>5 DEF Overlap
  <2> QED
    BY <1>3, <1>6, <2>2, <2>3
<1> QED
  BY <1>7, <1>8, <1>9, <1>10, Insertions

\* The tiles of a validated aggregation above the latest block are live.
LEMMA TilesLive ==
    ASSUME TypeOK, RowsProper, NEW k \in DOMAIN requests, latest <= k.start
    PROVE  Tiles(k) \subseteq LiveRanges(k.config) /\ Proper(Tiles(k))
<1> SUFFICES ASSUME NEW r \in Tiles(k) PROVE r \in LiveRanges(k.config) /\ Proper({r})
  BY DEF Proper
<1>1. /\ r \in DOMAIN requests /\ r.type = "Range" /\ requests[r] = "Complete"
      /\ r.config = k.config /\ k.start <= r.start
  BY DEF Tiles
<1>2. r.start \in Nat /\ k.start \in Nat /\ latest \in Nat
  BY <1>1, RowBounds
<1> QED
  BY <1>1, <1>2 DEF LiveRanges, Active, RowsProper, Proper

\* The tiles of a validated aggregation stay, and no tile is added: a range within its
\* bounds that was not complete would overlap a tile.
LEMMA TilesSame ==
    ASSUME TypeOK, LifeInv, PromptTasks, RangesInv, [Next]_vars,
           NEW k \in DOMAIN requests, latest <= k.start,
           ValidAggregation(Tiles(k), k.start, k.end)
    PROVE  Tiles(k)' = Tiles(k)
<1>0. Evolves
  BY NextLife
<1>1. ASSUME NEW r \in Tiles(k)
      PROVE  r \in DOMAIN requests' /\ requests'[r] = "Complete"
  <2>1. r \in DOMAIN requests /\ r.type = "Range" /\ requests[r] = "Complete"
    BY DEF Tiles
  <2>2. r \in DOMAIN requests' /\ Lifecycle(r, requests[r], requests'[r])
    BY <1>0, <2>1 DEF Evolves, Unrecoverable
  <2> QED
    BY <2>1, <2>2 DEF Lifecycle, Unrecoverable
<1>2. ASSUME NEW r \in DOMAIN requests', r.type = "Range", r.config = k.config,
             requests'[r] = "Complete", k.start <= r.start, r.end <= k.end
      PROVE  r \in Tiles(k)
  <2>1. r \in DOMAIN requests
    BY <1>0, <1>2 DEF Evolves
  <2>2. requests[r] \in Active
    BY <1>0, <1>2, <2>1, ActiveBefore DEF Active
  <2>3. /\ r.start \in Nat /\ r.end \in Nat /\ r.start < r.end
        /\ k.start \in Nat /\ k.end \in Nat /\ latest \in Nat
    BY <2>1 DEF RangesInv, RowsProper, Proper, TypeOK
  <2>4. r \in LiveRanges(k.config)
    BY <1>2, <2>1, <2>2, <2>3 DEF LiveRanges
  <2>5. Tiles(k) \subseteq LiveRanges(k.config) /\ Proper(Tiles(k))
    BY TilesLive DEF RangesInv
  <2>6. Proper({r})
    BY <2>3 DEF Proper
  <2>7. PICK t \in Tiles(k) : Overlap(t, r)
    BY <1>2, <2>3, <2>5, <2>6, TilingCovers
  <2>8. Disjoint(LiveRanges(k.config))
    BY DEF RangesInv, RangesDisjoint, TypeOK, Row
  <2>9. t = r
    BY <2>4, <2>5, <2>7, <2>8 DEF Disjoint
  <2> QED
    BY <2>7, <2>9
<1> QED
  BY <1>1, <1>2 DEF Tiles

\* An aggregation is validated when its task is spawned.
LEMMA SpawnedValid ==
    ASSUME TypeOK, NEW k \in NextRequests, k.type = "Aggregation"
    PROVE  ValidAggregation(Tiles(k), k.start, k.end)
<1>1. ValidAggregation(RangeProofs(k.start, k.end), k.start, k.end) /\ k.config = config
  BY DEF NextRequests, FirstOf, RangesAfter, AggregationsAfter, With
<1>2. RangeProofs(k.start, k.end) = Tiles(k)
  BY <1>1, RowBounds DEF RangeProofs, RangesAfter, With, Tiles
<1> QED
  BY <1>1, <1>2

LEMMA TilesStayStep ==
    ASSUME TypeOK, LifeInv, PromptTasks, RangesInv, [Next]_vars
    PROVE  TilesStay'
<1>0. Evolves /\ latest \in Nat /\ latest' \in Nat /\ latest <= latest'
  BY NextLife, LatestGrows DEF RangesInv, TypeOK
<1> SUFFICES ASSUME NEW k \in DOMAIN requests', Validated(k)', latest' <= k.start
             PROVE  ValidAggregation(Tiles(k)', k.start, k.end)
  BY DEF TilesStay
<1>1. k \in DOMAIN requests
  <2>1. CASE requests'[k] \in InFlight \cup {"Complete", "Relayed"}
    BY <1>0, <2>1 DEF Evolves, InFlight
  <2>2. CASE k \in Spawned'
    <3>1. CASE RequestQueued
      BY <3>1 DEF RequestQueued
    <3>2. CASE ~RequestQueued
      BY <2>2, <3>2, SpawnedBefore DEF Spawned
    <3> QED
      BY <3>1, <3>2
  <2> QED
    BY <2>1, <2>2 DEF Validated
<1>2. k.start \in Nat /\ latest <= k.start /\ k.type = "Aggregation"
  BY <1>0, <1>1, RowBounds DEF Validated
<1>3. ValidAggregation(Tiles(k), k.start, k.end)
  <2>1. CASE Validated(k)
    BY <1>1, <1>2, <2>1 DEF RangesInv, TilesStay
  <2>2. CASE RequestQueued /\ ~Validated(k)
    <3>1. PICK q \in NextRequests :
            tasks' = [t \in DOMAIN tasks \cup {Handle(q)} |->
                        IF t = Handle(q) THEN "spawned" ELSE tasks[t]]
      BY <2>2, SpawnTask
    <3>2. UNCHANGED requests
      BY <2>2 DEF RequestQueued
    <3>3. k \in Spawned' /\ k \notin Spawned
      BY <2>2, <3>2 DEF Validated
    <3>4. Handle(k) = Handle(q)
      BY <3>1, <3>2, <3>3 DEF Spawned
    <3>5. k = q
      BY <3>4 DEF Handle
    <3> QED
      BY <1>2, <3>5, SpawnedValid
  <2>3. CASE ~RequestQueued
    <3>1. Spawned' \subseteq Spawned
      BY <2>3, SpawnedBefore
    <3>2. Lifecycle(k, requests[k], requests'[k])
      BY <1>0, <1>1 DEF Evolves
    <3>3. Validated(k)
      BY <3>1, <3>2 DEF Validated, Lifecycle, InFlight, Unrecoverable
    <3> QED
      BY <2>1, <3>3
  <2> QED
    BY <2>1, <2>2, <2>3
<1> QED
  BY <1>1, <1>2, <1>3, TilesSame

LEMMA RangesInit == Init => RangesInv /\ NoStraddle
  BY DEF Init, RangesInv, RowsProper, Proper, RangesDisjoint, LiveRanges, Disjoint,
         NoStraddle, TilesStay, SentProven

\* A step from a state in which no active range is straddled keeps the rest.
LEMMA RangesStep ==
    ASSUME TypeOK, LifeInv, PromptTasks, RangesInv, NoStraddle, [Next]_vars
    PROVE  RangesInv'
<1>1. RowsProper' /\ SentProven'
  BY RowsProperStep, SentProvenStep, NextLife DEF RangesInv
<1>2. RangesDisjoint'
  BY DisjointStep DEF RangesDisjoint
<1>3. TilesStay'
  BY TilesStayStep
<1> QED
  BY <1>1, <1>2, <1>3 DEF RangesInv

\* What agg_proof_witnessgen reads for an aggregation are its tiles.
LEMMA TiledByTiles ==
    ASSUME TypeOK, RangesInv
    PROVE  AggregationsTiled
<1> SUFFICES ASSUME NEW k \in DOMAIN requests, k.type = "Aggregation", k.start >= latest,
                    requests[k] \in InFlight \cup {"Complete", "Relayed"}
             PROVE  ValidAggregation({r \in LiveRanges(k.config) :
                                        /\ requests[r] = "Complete"
                                        /\ r.start >= k.start /\ r.end <= k.end},
                                     k.start, k.end)
  BY DEF AggregationsTiled
<1>1. latest <= k.start
  BY RowBounds
<1>2. ValidAggregation(Tiles(k), k.start, k.end)
  BY <1>1 DEF RangesInv, TilesStay, Validated
<1>3. {r \in LiveRanges(k.config) : /\ requests[r] = "Complete"
                                   /\ r.start >= k.start /\ r.end <= k.end} = Tiles(k)
  <2>1. ASSUME NEW r \in DOMAIN requests, k.start <= r.start
        PROVE  r.start >= k.start /\ r.start >= latest
    BY <1>1, <2>1, RowBounds
  <2>2. ASSUME NEW r \in DOMAIN requests, r.start >= k.start
        PROVE  k.start <= r.start
    BY <2>2, RowBounds
  <2> QED
    BY <2>1, <2>2 DEF Tiles, LiveRanges, Active
<1> QED
  BY <1>2, <1>3

\* Whatever commitments the binary is started with and whoever else proposes: failures,
\* splits, insertions and restarts leave no two active requests that prove the same block,
\* as long as the latest output ends inside no active range of the commitment that runs.
THEOREM DisjointUnlessStraddled ==
    ASSUME PromptTasks
    PROVE  Spec /\ []NoStraddle => []RangesDisjoint
<1>1. Init => RangesInv
  BY RangesInit
<1>2. TypeOK /\ LifeInv /\ NoStraddle /\ RangesInv /\ [Next]_vars => RangesInv'
  BY RangesStep
<1>3. RangesInv => RangesDisjoint
  BY DEF RangesInv
<1> QED
  BY <1>1, <1>2, <1>3, LifeHolds, TypeCorrect, PTL DEF Spec

\* Under the same condition the range proofs that agg_proof_witnessgen reads for an
\* aggregation still tile it, however long after its validation it is proved or relayed.
THEOREM TiledUnlessStraddled ==
    ASSUME PromptTasks
    PROVE  Spec /\ []NoStraddle => []AggregationsTiled
<1>1. Init => RangesInv
  BY RangesInit
<1>2. TypeOK /\ LifeInv /\ NoStraddle /\ RangesInv /\ [Next]_vars => RangesInv'
  BY RangesStep
<1>3. TypeOK /\ RangesInv => AggregationsTiled
  BY TiledByTiles
<1> QED
  BY <1>1, <1>2, <1>3, LifeHolds, TypeCorrect, PTL DEF Spec

-----------------------------------------------------------------------------
\* Of one commitment, the proposer itself never moves the latest block into a range.

\* Others leave the latest block between the proposer's ranges.
Considerate == ProposeElsewhere => NoStraddle'

LEMMA NoStraddleStep ==
    ASSUME TypeOK, LifeInv, PromptTasks, OneCommitment, RangesInv, NoStraddle, [Next]_vars,
           Considerate
    PROVE  NoStraddle'
<1>0. Evolves /\ latest \in Nat
  BY NextLife DEF TypeOK
<1>1. \A k \in DOMAIN requests : k.start \in Nat /\ k.end \in Nat /\ k.start < k.end
  BY DEF RangesInv, RowsProper, Proper
<1>2. \A k \in DOMAIN requests :
        k.type = "Range" /\ requests[k] \in Active => k.end <= latest \/ latest <= k.start
  BY RowsOurs DEF NoStraddle
<1>3. ASSUME NEW k \in DOMAIN requests', k \notin DOMAIN requests, k.type = "Range"
      PROVE  k.end <= latest \/ latest <= k.start
  <2>1. CASE AddNewRanges
    BY <1>3, <2>1, PlannedRows DEF RangesInv
  <2>2. ASSUME NEW q \in worklist, Splits(q) PROVE k.end <= latest \/ latest <= k.start
    <3>1. q \in DOMAIN requests /\ q.type = "Range" /\ requests[q] \in Active
      BY <2>2 DEF Splits
    <3>2. k.start \in Nat /\ k.end \in Nat /\ q.start <= k.start /\ k.end <= q.end
      BY <1>3, <2>2, SplitRows
    <3> QED
      BY <1>0, <1>1, <1>2, <3>1, <3>2
  <2>3. CASE ReuseCheckpoint \/ Checkpointed
    <3>1. PICK r : InsertAggregation(r)
      BY <2>3 DEF ReuseCheckpoint, Checkpointed
    <3> QED
      BY <1>3, <3>1, AggregationRow DEF NewRow
  <2> QED
    BY <1>3, <2>1, <2>2, <2>3, Insertions
<1>4. CASE UNCHANGED latest
  <2> SUFFICES ASSUME NEW k \in DOMAIN requests', k.type = "Range", requests'[k] \in Active
               PROVE  k.end <= latest \/ latest <= k.start
    BY <1>4 DEF NoStraddle
  <2>1. CASE k \in DOMAIN requests
    BY <1>0, <1>2, <2>1, ActiveBefore
  <2> QED
    BY <1>3, <2>1
<1>5. ASSUME NEW x \in mempool, x.aggregation.start = latest, latest' = x.aggregation.end,
             UNCHANGED <<requests, config>>
      PROVE  NoStraddle'
  <2> DEFINE a == x.aggregation
  <2>1. a \in DOMAIN requests /\ Validated(a)
    BY DEF RangesInv, SentProven, Validated
  <2> HIDE DEF a
  <2>2. a.start = latest /\ a.end = latest' /\ a.start \in Nat /\ a.end \in Nat /\ a.start < a.end
    BY <1>1, <1>5, <2>1 DEF a
  <2>3. ValidAggregation(Tiles(a), a.start, a.end)
    BY <1>0, <2>1, <2>2 DEF RangesInv, TilesStay
  <2>4. PICK t \in Tiles(a) : t.end = a.end
    BY <2>3, TilingEnds
  <2>5. t \in LiveRanges(config) /\ Disjoint(LiveRanges(config))
    <3>1. a.config = config /\ config \in Configs
      BY <2>1, RowsOurs DEF TypeOK
    <3> QED
      BY <1>0, <2>1, <2>2, <2>4, <3>1, TilesLive DEF RangesInv, RangesDisjoint
  <2>6. ASSUME NEW k \in DOMAIN requests, k.type = "Range", requests[k] \in Active
        PROVE  k.end <= latest' \/ latest' <= k.start
    <3>1. CASE k.end <= latest
      BY <1>0, <1>1, <2>2, <3>1
    <3>2. CASE latest <= k.start /\ k # t
      <4>1. k \in LiveRanges(config)
        BY <1>0, <1>1, <2>6, <3>2, RowsOurs DEF LiveRanges
      <4>2. ~Overlap(k, t)
        BY <2>5, <3>2, <4>1 DEF Disjoint
      <4>3. t.start \in Nat /\ t.end \in Nat /\ t.start < t.end
        BY <1>1, <2>4 DEF Tiles
      <4> QED
        BY <1>1, <2>2, <2>4, <4>2, <4>3 DEF Overlap
    <3>3. CASE k = t
      BY <1>1, <2>2, <2>4, <3>3
    <3> QED
      BY <1>2, <2>6, <3>1, <3>2, <3>3
  <2> QED
    BY <1>5, <2>6 DEF NoStraddle
<1> QED
  BY <1>4, <1>5, LatestSteps DEF Considerate

\* What straddles an active range is another proposer's output: the proposer's own never
\* does while it runs under one commitment.
THEOREM OnlyOthersStraddle ==
    ASSUME PromptTasks, OneCommitment
    PROVE  Spec /\ [][Considerate]_vars => []NoStraddle
<1>1. Init => RangesInv /\ NoStraddle
  BY RangesInit
<1>2. TypeOK /\ LifeInv /\ RangesInv /\ NoStraddle /\ [Next]_vars /\ [Considerate]_vars
      => RangesInv' /\ NoStraddle'
  <2>1. TypeOK /\ LifeInv /\ RangesInv /\ NoStraddle /\ [Next]_vars /\ Considerate
        => RangesInv' /\ NoStraddle'
    BY RangesStep, NoStraddleStep
  <2>2. NoStraddle /\ UNCHANGED vars => Considerate
    BY DEF Considerate, NoStraddle, vars, loopVars, chainVars
  <2> QED
    BY <2>1, <2>2
<1> QED
  BY <1>1, <1>2, LifeHolds, TypeCorrect, PTL DEF Spec

\* A proposer alone on its chain, under one commitment, straddles nothing: its live ranges
\* never overlap, whatever the intervals and limits.
THEOREM RangesStayDisjoint ==
    ASSUME PromptTasks, ~OtherProposers, OneCommitment
    PROVE  Spec => []RangesDisjoint
<1>1. Considerate
  BY DEF Considerate, ProposeElsewhere
<1> QED
  BY <1>1, OnlyOthersStraddle, DisjointUnlessStraddled, PTL

\* And its aggregations stay tiled.
THEOREM AggregationsStayTiled ==
    ASSUME PromptTasks, ~OtherProposers, OneCommitment
    PROVE  Spec => []AggregationsTiled
<1>1. Considerate
  BY DEF Considerate, ProposeElsewhere
<1> QED
  BY <1>1, OnlyOthersStraddle, TiledUnlessStraddled, PTL

=============================================================================
