--------------------------- MODULE HostSearchProofs ---------------------------
(***************************************************************************)
(* The answers of the host's searches are right for chains of any length,  *)
(* however they grow and whichever calls fail meanwhile.                   *)
(***************************************************************************)
EXTENDS HostSearch, NaturalLemmas

-----------------------------------------------------------------------------
\* The inductive invariant

\* The chains are in order, and only grow.
ChainsOK ==
    /\ kind \in {"ethereum", "celestia"} /\ fallback \in BOOLEAN
    /\ time \in [L1Blocks -> Nat \ {0}]
    /\ \A a, b \in L1Blocks : a < b => time[a] < time[b]
    /\ post \in [L2Blocks -> 0 .. Never] /\ post[0] = 0
    /\ \A x, y \in L2Blocks : x <= y => post[x] <= post[y]
    /\ \A x \in 1 .. MaxL2 : Origin(x) < post[x]
    /\ height \in [L2Blocks -> CelestiaHeights]
    /\ kind = "celestia" => \A x \in 1 .. MaxL2 : height[x] >= 1
    /\ \A x, y \in L2Blocks : x <= y => height[x] <= height[y]
    /\ commits \in [L1Blocks -> CelestiaHeights] /\ commits[0] = 0
    /\ \A a, b \in L1Blocks : a <= b => commits[a] <= commits[b]
    /\ proposed \in 0 .. MaxL2 - 1 /\ post[proposed] <= finalized

\* Which layer a call belongs to, and whether it is about a request.
PhaseOK ==
    /\ pc \in {"idle", "bisect", "found"} => end = None
    /\ pc \in {"bisect", "locate", "scan"} => kind = "celestia"
    /\ pc \in {"origin", "safe", "estimate", "timestamp", "time", "buffer"} =>
         kind = "ethereum" /\ end # None /\ post[end] <= finalized
    /\ end # None => end \in 1 .. MaxL2
    /\ pc \in {"locate", "scan"} /\ end # None => block = end
    /\ wrapped \in BOOLEAN /\ clean \in BOOLEAN

Searching == pc = "bisect" \/ (pc \in {"locate", "scan"} /\ end = None)

\* The bisection: the best block is committed and just below the lower bound, the promised
\* one is not above the upper bound unless a call has failed or a commitment is overlooked.
SearchOK ==
    Searching =>
        /\ IF best = None THEN low = proposed
           ELSE best \in proposed .. MaxL2 /\ low = best + 1 /\ Available(best)
        /\ ~ wrapped => high <= FinalizedL2 /\ (best # None => best <= FinalizedL2)
        /\ promised # None => promised \in proposed .. MaxL2 /\ Available(promised)
        /\ clean /\ promised # None /\ Sighted(promised) => promised <= high
        /\ pc # "bisect" => low <= block /\ block <= high

\* The log scan has passed no event that covers the block.
ScanOK ==
    pc = "scan" =>
        /\ block \in 1 .. MaxL2 /\ cursor \in Nat /\ upto \in 0 .. latest
        /\ post[block] <= cursor /\ cursor <= upto
        /\ \A b \in post[block] .. cursor - 1 : ~ Covers(b, block)
        /\ end = None /\ promised # None => height[promised] <= commits[upto]

Close(x) == time[post[x]] <= L2Time(time, x) + Delay
Reached == Min({b \in L1Blocks : target <= time[b]})

\* The binary search for the block that the end block is safe at.
SafeOK ==
    pc = "safe" =>
        /\ target = 0 /\ low <= post[end]
        /\ IF best = None THEN post[end] <= high /\ high <= MaxL1
           ELSE best \in 1 .. MaxL1 /\ high = best - 1 /\ post[end] <= best

\* The target of the estimate, and the binary search for the block it is reached at.
TimeOK ==
    /\ pc \in {"estimate", "timestamp", "time"} => fallback
    /\ pc \in {"timestamp", "time"} =>
         /\ target \in time[0] .. time[finalized]
         /\ Close(end) => time[post[end]] <= target
    /\ pc = "time" => low <= Reached /\ Reached <= high + 1 /\ high <= MaxL1

\* The head before the buffer.
BufferOK ==
    pc = "buffer" =>
        /\ best \in L1Blocks
        /\ Close(end) \/ ~ fallback => post[end] <= best

FoundOK == pc = "found" => best \in L2Blocks \cup {None}

HostInv ==
    /\ HostTypeOK /\ ChainsOK /\ PhaseOK /\ SearchOK /\ ScanOK
    /\ SafeOK /\ TimeOK /\ BufferOK /\ FoundOK
    /\ OnlyGenesisWraps /\ AnswerProvable /\ AnswerHighest
    /\ HeadIsFirst /\ HeadReachesEnd

-----------------------------------------------------------------------------
\* What the chains' answers are

LEMMA MinIs ==
    ASSUME NEW S, S \subseteq Nat, S # {}
    PROVE  Min(S) \in S /\ \A y \in S : Min(S) <= y
BY Least DEF Min

LEMMA MaxIs ==
    ASSUME NEW S, S \subseteq Nat, S # {}, NEW n \in Nat, \A x \in S : x <= n
    PROVE  Max(S) \in S /\ \A y \in S : y <= Max(S)
<1>1. \E x \in S : \A y \in S : x >= y
    BY Greatest
<1>q. QED
    BY <1>1 DEF Max

LEMMA ChainTypes ==
    ASSUME ChainsOK
    PROVE  /\ \A x \in L2Blocks :
                /\ x \in Nat /\ x <= MaxL2 /\ post[x] \in Nat /\ post[x] <= Never
                /\ height[x] \in Nat
           /\ \A b \in L1Blocks :
                /\ b \in Nat /\ b <= MaxL1 /\ b < Never
                /\ time[b] \in Nat \ {0} /\ commits[b] \in Nat
BY HostAssumption DEF ChainsOK, L1Blocks, L2Blocks, Never, CelestiaHeights

\* The origin of an L2 block is an L1 block, so that its batch is not in the first one.
LEMMA OriginIs ==
    ASSUME ChainsOK, NEW x \in L2Blocks
    PROVE  Origin(x) \in L1Blocks /\ (x # 0 => post[x] >= 1)
<1> DEFINE S == {b \in L1Blocks : time[b] <= L2Time(time, x)}
<1>1. S \subseteq Nat /\ \A b \in S : b <= MaxL1
    BY HostAssumption DEF L1Blocks
<1>2. 0 \in S
    BY HostAssumption DEF ChainsOK, L1Blocks, L2Blocks, L2Time
<1>3. Max(S) \in S
    <2> HIDE DEF S
    <2>q. QED
        BY <1>1, <1>2, HostAssumption, MaxIs
<1>4. Origin(x) \in L1Blocks
    BY <1>3 DEF Origin, OriginAt
<1>5. x # 0 => Origin(x) < post[x]
    BY DEF ChainsOK, L2Blocks
<1>q. QED
    BY <1>4, <1>5, HostAssumption DEF ChainsOK, L1Blocks, L2Blocks, Never

\* The safe head at an L1 block is the last L2 block whose batch is posted.
LEMMA SafeHeadIs ==
    ASSUME ChainsOK, HostTypeOK, NEW b \in Nat
    PROVE  /\ SafeHead(b) \in L2Blocks
           /\ \A x \in L2Blocks : x <= SafeHead(b) <=> post[x] <= b
<1> DEFINE S == {x \in L2Blocks : post[x] <= b}
<1>1. S \subseteq Nat /\ 0 \in S /\ \A x \in S : x <= MaxL2
    BY HostAssumption DEF ChainsOK, L2Blocks
<1>2. Max(S) \in S /\ \A y \in S : y <= Max(S)
    <2> HIDE DEF S
    <2>q. QED
        BY <1>1, HostAssumption, MaxIs
<1>3. SafeHead(b) = Max(S)
    BY DEF SafeHead
<1>4. ASSUME NEW x \in L2Blocks, x <= Max(S)
      PROVE  post[x] <= b
    <2>1. Max(S) \in L2Blocks /\ post[Max(S)] <= b
        BY <1>2
    <2>2. post[x] <= post[Max(S)]
        BY <1>4, <2>1 DEF ChainsOK
    <2>3. post[x] \in Int /\ post[Max(S)] \in Int
        BY <2>1, HostAssumption DEF ChainsOK, Never
    <2>q. QED
        BY <2>1, <2>2, <2>3
<1>q. QED
    BY <1>2, <1>3, <1>4

\* A block's data is committed by an L1 block if that block's commitment reaches its height.
LEMMA CommitIs ==
    ASSUME ChainsOK, HostTypeOK, NEW x \in 1 .. MaxL2
    PROVE  /\ Commit(x) \in Nat
           /\ \A b \in L1Blocks : Commit(x) <= b <=> height[x] <= commits[b]
           /\ \A b \in 1 .. MaxL1 : Covers(b, x) => Commit(x) = b
<1> DEFINE S == {b \in L1Blocks : height[x] <= commits[b]} \cup {Never}
<1>1. S \subseteq Nat /\ Never \in S
    BY HostAssumption DEF L1Blocks, Never
<1>2. Min(S) \in S /\ \A y \in S : Min(S) <= y
    <2> HIDE DEF S
    <2>q. QED
        BY <1>1, MinIs
<1>3. Commit(x) = Min(S) /\ Commit(x) \in Nat
    BY <1>1, <1>2 DEF Commit
<1>0. /\ height[x] \in Nat
      /\ \A b \in L1Blocks : b \in Nat /\ b < Never /\ commits[b] \in Nat
    BY ChainTypes, HostAssumption DEF L2Blocks
<1>4. ASSUME NEW b \in L1Blocks
      PROVE  Commit(x) <= b <=> height[x] <= commits[b]
    <2>1. height[x] <= commits[b] => Commit(x) <= b
        BY <1>2, <1>3
    <2>2. ASSUME Commit(x) <= b
          PROVE  height[x] <= commits[b]
        <3>1. Commit(x) # Never
            BY <1>0, <1>1, <2>2, HostAssumption DEF Never
        <3>2. Commit(x) \in L1Blocks /\ height[x] <= commits[Commit(x)]
            BY <1>2, <1>3, <3>1
        <3>3. commits[Commit(x)] <= commits[b]
            BY <2>2, <3>2 DEF ChainsOK
        <3>q. QED
            BY <1>0, <3>2, <3>3
    <2>q. QED
        BY <2>1, <2>2
<1>5. ASSUME NEW b \in 1 .. MaxL1, Covers(b, x)
      PROVE  Commit(x) = b
    <2>1. b \in L1Blocks /\ b - 1 \in L1Blocks /\ b \in Nat
        BY HostAssumption DEF L1Blocks
    <2>2. Commit(x) <= b /\ ~(Commit(x) <= b - 1)
        BY <1>0, <1>4, <1>5, <2>1 DEF Covers
    <2>q. QED
        BY <1>3, <2>1, <2>2
<1>q. QED
    BY <1>3, <1>4, <1>5

\* Blobstream's commitments have an event for every height they have come to, and a scan from
\* the block of the batch on meets it unless it came before.
LEMMA EventExists ==
    ASSUME ChainsOK, HostTypeOK, kind = "celestia", NEW x \in 1 .. MaxL2, NEW u \in L1Blocks,
           height[x] <= commits[u], ~ Overlooked(x)
    PROVE  \E b \in post[x] .. u : Covers(b, x)
<1>0. /\ height[x] \in Nat /\ height[x] >= 1 /\ post[x] \in Nat
      /\ \A b \in L1Blocks : b \in Nat /\ commits[b] \in Nat
    BY ChainTypes DEF L2Blocks, ChainsOK
<1>1. PICK c : c = Commit(x)
    OBVIOUS
<1>2. c \in Nat /\ \A b \in L1Blocks : c <= b <=> height[x] <= commits[b]
    BY <1>1, CommitIs
<1>3. c <= u /\ c \in L1Blocks /\ u \in Nat
    BY <1>2, HostAssumption DEF L1Blocks
<1>4. height[x] <= commits[c] /\ post[x] <= c
    BY <1>0, <1>1, <1>2, <1>3 DEF Overlooked
<1>5. c # 0
    BY <1>0, <1>4 DEF ChainsOK
<1>6. c - 1 \in L1Blocks /\ ~(c <= c - 1)
    BY HostAssumption, <1>3, <1>5 DEF L1Blocks
<1>7. commits[c - 1] < height[x]
    BY <1>0, <1>2, <1>6
<1>q. QED
    BY <1>0, <1>3, <1>4, <1>7 DEF Covers

-----------------------------------------------------------------------------
\* What steps leave alone

\* Where the chains do not move, what is known of them does not.
LEMMA Fixed ==
    ASSUME UNCHANGED <<chains, growth>>, HostInv
    PROVE  /\ ChainsOK'
           /\ FinalizedL2' = FinalizedL2
           /\ \A x : Available(x)' <=> Available(x)
           /\ \A x : Commit(x)' = Commit(x)
           /\ \A x : Close(x)' <=> Close(x)
           /\ \A x : Sighted(x)' <=> Sighted(x)
<1>1. UNCHANGED <<kind, fallback, time, post, height, commits, proposed, latest, finalized>>
    BY DEF chains, growth
<1>2. ChainsOK'
    BY <1>1 DEF HostInv, ChainsOK, Origin, OriginAt
<1>3. FinalizedL2' = FinalizedL2
    BY <1>1 DEF FinalizedL2, SafeHead
<1>4. ASSUME NEW x
      PROVE  Commit(x)' = Commit(x)
    BY <1>1 DEF Commit
<1>5. \A x : Available(x)' <=> Available(x)
    BY <1>1, <1>4 DEF Available
<1>6. \A x : Close(x)' <=> Close(x)
    BY <1>1 DEF Close
<1>7. \A x : Sighted(x)' <=> Sighted(x)
    BY <1>1, <1>4 DEF Sighted, Overlooked
<1>q. QED
    BY <1>2, <1>3, <1>4, <1>5, <1>6, <1>7

\* What has to be shown of a step depends on the call that comes next.
LEMMA NextCall ==
    ASSUME HostTypeOK', ChainsOK', PhaseOK', OnlyGenesisWraps',
           pc' \in {"bisect", "locate", "scan"} => SearchOK',
           pc' = "scan" => ScanOK',
           pc' = "safe" => SafeOK',
           pc' \in {"estimate", "timestamp", "time"} => TimeOK',
           pc' = "buffer" => BufferOK' /\ HeadIsFirst',
           pc' = "found" => FoundOK' /\ AnswerProvable' /\ AnswerHighest',
           pc' = "done" => HeadReachesEnd'
    PROVE  HostInv'
BY DEF HostInv, SearchOK, Searching, ScanOK, SafeOK, TimeOK, BufferOK, FoundOK,
       AnswerProvable, AnswerHighest, HeadIsFirst, HeadReachesEnd

LEMMA GrowthKeeps ==
    ASSUME HostInv, Grow \/ Finalize
    PROVE  HostInv'
<1>0. HostTypeOK /\ ChainsOK /\ latest \in Nat /\ finalized \in Nat
    BY HostAssumption DEF HostInv, HostTypeOK, L1Blocks
<1>1. /\ latest' \in L1Blocks /\ latest <= latest' /\ latest' \in Nat
      /\ finalized' \in 0 .. latest' /\ finalized <= finalized' /\ finalized' \in L1Blocks
    BY <1>0, HostAssumption DEF Grow, Finalize, HostTypeOK, L1Blocks
<1>2. /\ UNCHANGED <<kind, fallback, time, post, height, commits, proposed>>
      /\ UNCHANGED <<pc, end, low, high, best, block, cursor, upto, target, head>>
      /\ UNCHANGED <<clean, wrapped, promised>>
    BY DEF Grow, Finalize, chains, bounds, scan, history
<1>3. ChainsOK'
    <2>1. post[proposed] \in Nat
        BY <1>0, ChainTypes, HostAssumption DEF ChainsOK, L2Blocks
    <2>2. post[proposed] <= finalized'
        BY <1>0, <1>1, <2>1 DEF ChainsOK
    <2>q. QED
        BY <1>0, <1>2, <2>2 DEF ChainsOK, Origin, OriginAt
<1>4. FinalizedL2 \in Nat /\ FinalizedL2' \in Nat /\ FinalizedL2 <= FinalizedL2'
    <2>1. FinalizedL2' = SafeHead(finalized')
        BY <1>2 DEF FinalizedL2, SafeHead
    <2>2. SafeHead(finalized) \in L2Blocks /\ SafeHead(finalized') \in L2Blocks
        BY <1>0, <1>1, SafeHeadIs
    <2>3. post[SafeHead(finalized)] <= finalized /\ post[SafeHead(finalized)] \in Nat
        BY <1>0, <2>2, SafeHeadIs, ChainTypes
    <2>4. SafeHead(finalized) <= SafeHead(finalized')
        BY <1>0, <1>1, <2>2, <2>3, SafeHeadIs
    <2>q. QED
        BY <2>1, <2>2, <2>4, HostAssumption DEF FinalizedL2, L2Blocks
<1>5. ASSUME NEW x
      PROVE  Commit(x)' = Commit(x)
    BY <1>2 DEF Commit
<1>6. ASSUME NEW x, Available(x)
      PROVE  Available(x)'
    <2>1. /\ x \in 1 .. MaxL2 /\ Commit(x) \in Nat /\ Commit(x) <= latest
          /\ post[x] \in Nat /\ post[x] <= latest
        BY <1>0, <1>6, CommitIs, ChainTypes DEF Available, L2Blocks
    <2>q. QED
        BY <1>0, <1>1, <1>2, <1>5, <2>1 DEF Available
<1>7. \A b, x : Covers(b, x)' <=> Covers(b, x)
    BY <1>2 DEF Covers
<1>8. \A x : Close(x)' <=> Close(x)
    BY <1>2 DEF Close
<1>17. \A x : Sighted(x)' <=> Sighted(x)
    BY <1>2, <1>5 DEF Sighted, Overlooked
<1>9. HostTypeOK'
    BY <1>1, <1>2 DEF HostInv, HostTypeOK
<1>10. PhaseOK'
    <2>1. end \in 1 .. MaxL2 => post[end] \in Nat
        BY <1>0, ChainTypes DEF L2Blocks
    <2>q. QED
        BY <1>0, <1>1, <1>2, <2>1 DEF HostInv, PhaseOK
<1>11. SearchOK'
    <2>1. (~ wrapped => high <= FinalizedL2) => (~ wrapped => high <= FinalizedL2')
        BY <1>0, <1>4 DEF HostTypeOK, U64
    <2>2. best # None /\ best <= FinalizedL2 => best <= FinalizedL2'
        BY <1>0, <1>4 DEF HostTypeOK, U64
    <2>q. QED
        BY <1>2, <1>6, <1>17, <2>1, <2>2 DEF HostInv, SearchOK, Searching
<1>12. ScanOK'
    BY <1>0, <1>1, <1>2, <1>7 DEF HostInv, ScanOK
<1>13. SafeOK' /\ BufferOK' /\ FoundOK' /\ OnlyGenesisWraps' /\ AnswerHighest' /\ HeadIsFirst'
    BY <1>2, <1>8, <1>17
       DEF HostInv, SafeOK, BufferOK, FoundOK, OnlyGenesisWraps, AnswerHighest, HeadIsFirst
<1>14. TimeOK'
    <2>1. finalized \in L1Blocks
        BY <1>0, HostAssumption DEF HostTypeOK, L1Blocks
    <2>2. time[finalized] <= time[finalized'] /\ time[finalized] \in Nat /\ time[finalized'] \in Nat
        BY <1>0, <1>1, <2>1, ChainTypes DEF ChainsOK
    <2>3. 0 \in L1Blocks /\ time[0] \in Nat
        BY <1>0, ChainTypes, HostAssumption DEF L1Blocks
    <2>4. target \in time[0] .. time[finalized] => target \in time[0] .. time[finalized']
        BY <2>2, <2>3
    <2>5. Reached' = Reached
        BY <1>2 DEF Reached
    <2>q. QED
        BY <1>2, <1>8, <2>4, <2>5 DEF HostInv, TimeOK
<1>15. AnswerProvable'
    <2>1. best # None /\ best <= FinalizedL2 => best <= FinalizedL2'
        BY <1>0, <1>4 DEF HostTypeOK, U64
    <2>q. QED
        BY <1>2, <1>6, <2>1 DEF HostInv, AnswerProvable
<1>16. HeadReachesEnd'
    <2>1. head \in L1Blocks /\ head <= finalized => head <= finalized'
        BY <1>0, <1>1, ChainTypes
    <2>2. pc = "done" => head \in L1Blocks
        BY <1>0 DEF HostTypeOK
    <2>3. CASE kind = "celestia"
        BY <1>2, <1>5, <2>3 DEF HostInv, HeadReachesEnd
    <2>4. CASE kind = "ethereum"
        BY <1>2, <2>1, <2>2, <2>4 DEF HostInv, HeadReachesEnd, L2Time
    <2>q. QED
        BY <1>0, <2>3, <2>4 DEF ChainsOK
<1>q. QED
    BY <1>3, <1>9, <1>10, <1>11, <1>12, <1>13, <1>14, <1>15, <1>16 DEF HostInv

-----------------------------------------------------------------------------
\* The search for the highest provable block

LEMMA AnswersKeep ==
    ASSUME HostInv, AskFinalized \/ BisectEnds \/ FindNothing
    PROVE  HostInv'
<1>1. UNCHANGED <<chains, growth, end, bounds, scan, target, head, history>>
    BY DEF AskFinalized, BisectEnds, FindNothing
<1>2. HostTypeOK /\ ChainsOK /\ finalized \in Nat
    BY DEF HostInv, HostTypeOK
<1>3. FinalizedL2 \in L2Blocks /\ FinalizedL2 \in U64
    BY <1>2, SafeHeadIs, HostAssumption DEF FinalizedL2, L2Blocks, U64
<1>4. /\ ChainsOK' /\ FinalizedL2' = FinalizedL2 /\ \A x : Available(x)' <=> Available(x)
      /\ \A x : Sighted(x)' <=> Sighted(x)
    BY <1>1, Fixed
<1>5. HostTypeOK' /\ PhaseOK' /\ OnlyGenesisWraps'
    BY <1>1, <1>3 DEF AskFinalized, BisectEnds, FindNothing, HostInv, HostTypeOK, PhaseOK,
                      OnlyGenesisWraps, chains, growth, bounds, scan, history
<1>6. CASE AskFinalized
    <2>1. pc' = "found" /\ kind' = "ethereum" /\ best' = FinalizedL2
        BY <1>1, <1>6 DEF AskFinalized, chains
    <2>2. FoundOK' /\ AnswerProvable' /\ AnswerHighest'
        BY <1>3, <1>4, <2>1, HostAssumption DEF FoundOK, AnswerProvable, AnswerHighest, L2Blocks
    <2>q. QED
        BY <1>4, <1>5, <2>1, <2>2, NextCall
<1>7. CASE BisectEnds
    <2>1. pc' = "found" /\ best' = best /\ pc = "bisect" /\ high < low /\ kind = "celestia"
        BY <1>7 DEF BisectEnds, HostInv, PhaseOK
    <2>2. UNCHANGED <<kind, proposed, wrapped, clean, promised>>
        BY <1>1 DEF chains, history
    <2>3. SearchOK /\ Searching
        BY <2>1 DEF HostInv, Searching
    <2>4. low \in Nat /\ high \in Nat /\ proposed \in Nat
        BY <1>2, HostAssumption DEF HostTypeOK, ChainsOK, U64
    <2>5. FoundOK' /\ AnswerProvable'
        BY <1>2, <1>4, <2>1, <2>2, <2>3, HostAssumption
           DEF FoundOK, AnswerProvable, SearchOK, ChainsOK, L2Blocks
    <2>6. ASSUME clean, promised # None, Sighted(promised)
          PROVE  best # None /\ promised <= best
        <3>1. promised \in proposed .. MaxL2 /\ promised <= high
            BY <2>3, <2>6 DEF SearchOK
        <3>2. promised \in Nat /\ proposed <= promised
            BY <1>2, <2>4, <3>1, HostAssumption
        <3>3. best # None
            BY <2>1, <2>3, <2>4, <3>1, <3>2 DEF SearchOK
        <3>4. best \in Nat /\ low = best + 1
            BY <2>3, <2>4, <3>3, HostAssumption DEF SearchOK
        <3>q. QED
            BY <2>1, <2>4, <3>1, <3>2, <3>3, <3>4
    <2>7. AnswerHighest'
        BY <1>4, <2>1, <2>2, <2>6 DEF AnswerHighest
    <2>q. QED
        BY <1>4, <1>5, <2>1, <2>5, <2>7, NextCall
<1>8. CASE FindNothing
    <2>1. pc' = "idle"
        BY <1>8 DEF FindNothing
    <2>q. QED
        BY <1>4, <1>5, <2>1, NextCall
<1>q. QED
    BY <1>6, <1>7, <1>8

LEMMA BeginBisectKeeps ==
    ASSUME HostInv, BeginBisect
    PROVE  HostInv'
<1> DEFINE known == {x \in proposed .. FinalizedL2 : Available(x)}
<1>1. /\ UNCHANGED <<chains, growth, end, scan, target, head, errors>>
      /\ low' = proposed /\ high' = FinalizedL2 /\ best' = None
      /\ promised' = IF known = {} THEN None ELSE Max(known)
      /\ clean' = TRUE /\ wrapped' = FALSE
      /\ pc' = "bisect" /\ pc = "idle" /\ kind = "celestia"
    BY DEF BeginBisect
<1>2. HostTypeOK /\ ChainsOK /\ finalized \in Nat /\ proposed \in L2Blocks
    BY HostAssumption DEF HostInv, HostTypeOK, ChainsOK, L2Blocks
<1>3. FinalizedL2 \in L2Blocks /\ proposed <= FinalizedL2
    BY <1>2, SafeHeadIs DEF FinalizedL2, ChainsOK
<1>4. /\ ChainsOK' /\ FinalizedL2' = FinalizedL2 /\ \A x : Available(x)' <=> Available(x)
      /\ proposed' = proposed
    BY <1>1, Fixed DEF chains
<1>5. HostTypeOK' /\ PhaseOK' /\ OnlyGenesisWraps'
    BY <1>1, <1>2, <1>3, HostAssumption
       DEF HostInv, HostTypeOK, PhaseOK, OnlyGenesisWraps, chains, growth, scan, L2Blocks, U64
<1>6. promised' # None => promised' \in proposed .. FinalizedL2 /\ Available(promised')
    <2>1. known \subseteq Nat /\ FinalizedL2 \in Nat /\ \A x \in known : x <= FinalizedL2
        BY <1>2, <1>3, HostAssumption DEF L2Blocks
    <2>2. known # {} => Max(known) \in known
        <3> HIDE DEF known
        <3>q. QED
            BY <2>1, MaxIs
    <2>q. QED
        BY <1>1, <2>2
<1>7. SearchOK'
    <2>1. FinalizedL2 \in Nat /\ FinalizedL2 <= MaxL2 /\ proposed \in Nat
        BY <1>2, <1>3, HostAssumption DEF L2Blocks
    <2>2. promised' # None => Available(promised)'
        <3>1. promised' # None => Available(promised')
            BY <1>6
        <3>q. QED
            BY <1>1, <3>1 DEF Available, Commit, chains, growth
    <2>3. promised' # None => promised' \in proposed' .. MaxL2 /\ promised' <= high'
        BY <1>1, <1>4, <1>6, <2>1, HostAssumption
    <2>4. high' <= FinalizedL2' /\ low' = proposed' /\ best' = None /\ pc' = "bisect"
        BY <1>1, <1>4, <2>1
    <2> HIDE DEF known
    <2>q. QED
        BY <2>2, <2>3, <2>4 DEF SearchOK
<1>q. QED
    BY <1>1, <1>4, <1>5, <1>7, NextCall

\* The middle lies between the bounds.
LEMMA MiddleIs ==
    ASSUME low \in Nat, high \in Nat, low <= high
    PROVE  Middle \in Nat /\ low <= Middle /\ Middle <= high
<1>1. PICK d \in Nat : d = high - low
    OBVIOUS
<1>2. d \div 2 \in Nat /\ d \div 2 <= d
    BY <1>1
<1>q. QED
    BY <1>1, <1>2 DEF Middle

LEMMA BisectKeeps ==
    ASSUME HostInv, Bisect
    PROVE  HostInv'
<1>1. /\ UNCHANGED <<chains, growth, end, bounds, best, cursor, upto, target, head, history>>
      /\ pc = "bisect" /\ low <= high /\ block' = Middle /\ pc' = "locate"
    BY DEF Bisect
<1>2. HostTypeOK /\ low \in Nat /\ high \in Nat /\ high <= MaxWord
    BY HostAssumption DEF HostInv, HostTypeOK, U64
<1>3. Middle \in U64 /\ low <= Middle /\ Middle <= high
    BY <1>1, <1>2, MiddleIs, HostAssumption DEF U64
<1>4. /\ ChainsOK' /\ FinalizedL2' = FinalizedL2 /\ \A x : Available(x)' <=> Available(x)
      /\ \A x : Sighted(x)' <=> Sighted(x)
    BY <1>1, Fixed
<1>5. HostTypeOK' /\ PhaseOK' /\ OnlyGenesisWraps'
    BY <1>1, <1>3 DEF HostInv, HostTypeOK, PhaseOK, OnlyGenesisWraps, chains, growth, bounds, history
<1>6. SearchOK'
    <2>1. SearchOK /\ Searching
        BY <1>1 DEF HostInv, Searching
    <2>q. QED
        BY <1>1, <1>3, <1>4, <2>1 DEF SearchOK, chains, bounds, history
<1>q. QED
    BY <1>1, <1>4, <1>5, <1>6, NextCall

\* Looking lower is right if no call has failed only because the block lies above the
\* promised one, or is the genesis block.
LEMMA UnavailableKeeps ==
    ASSUME HostInv, pc \in {"locate", "scan"}, Unavailable, clean' \in BOOLEAN,
           UNCHANGED <<chains, growth, end, low, best, scan, target, head, promised>>,
           end = None /\ clean' /\ promised # None /\ Sighted(promised) =>
               clean /\ (promised < block \/ block = 0)
    PROVE  HostInv'
<1>1. HostTypeOK /\ ChainsOK /\ PhaseOK
    BY DEF HostInv
<1>2. /\ ChainsOK' /\ FinalizedL2' = FinalizedL2 /\ \A x : Available(x)' <=> Available(x)
      /\ \A x : Sighted(x)' <=> Sighted(x)
    BY Fixed
<1>3. CASE end # None
    <2>1. pc' = "failed" /\ UNCHANGED <<high, wrapped>>
        BY <1>3 DEF Unavailable
    <2>2. HostTypeOK' /\ PhaseOK' /\ OnlyGenesisWraps'
        BY <1>1, <2>1 DEF HostInv, HostTypeOK, PhaseOK, OnlyGenesisWraps, chains, growth, scan
    <2>q. QED
        BY <1>2, <2>1, <2>2, NextCall
<1>4. CASE end = None
    <2>1. high' = Decrement(block) /\ wrapped' = (wrapped \/ block = 0) /\ pc' = "bisect"
        BY <1>4 DEF Unavailable
    <2>2. SearchOK /\ Searching /\ kind = "celestia"
        BY <1>1, <1>4 DEF HostInv, Searching, PhaseOK
    <2>3. /\ block \in Nat /\ block <= MaxWord /\ high \in Nat /\ low \in Nat
          /\ low <= block /\ block <= high
        BY <1>1, <2>2, HostAssumption DEF SearchOK, HostTypeOK, U64
    <2>4. high' \in U64 /\ (block # 0 => high' = block - 1) /\ (block = 0 => high' = MaxWord)
        BY <2>1, <2>3, HostAssumption DEF Decrement, U64
    <2>5. block = 0 => proposed = 0
        <3>1. best # None => best \in Nat /\ low = best + 1
            BY <1>1, <2>2, HostAssumption DEF SearchOK, ChainsOK
        <3>2. best = None => low = proposed
            BY <2>2 DEF SearchOK
        <3>3. proposed \in Nat
            BY <1>1, HostAssumption DEF ChainsOK
        <3>q. QED
            BY <2>3, <3>1, <3>2, <3>3
    <2>6. wrapped \in BOOLEAN /\ wrapped' \in BOOLEAN /\ (~ wrapped' => ~ wrapped /\ block # 0)
        BY <1>1, <2>1 DEF PhaseOK
    <2>7. /\ UNCHANGED <<kind, fallback, time, post, height, commits, proposed, latest, finalized>>
          /\ UNCHANGED <<end, low, best, block, cursor, upto, target, head, promised>>
        BY DEF chains, growth, scan
    <2>8. OnlyGenesisWraps'
        BY <2>2, <2>5, <2>1, <2>7 DEF HostInv, OnlyGenesisWraps
    <2>9. HostTypeOK' /\ PhaseOK'
        BY <1>1, <1>4, <2>1, <2>2, <2>4, <2>6, <2>7 DEF HostTypeOK, PhaseOK
    <2>10. SearchOK'
        <3>1. FinalizedL2 \in Nat
            BY <1>1, SafeHeadIs, HostAssumption DEF FinalizedL2, L2Blocks, HostTypeOK
        <3>2. ~ wrapped' => high' <= FinalizedL2'
            BY <1>2, <2>2, <2>3, <2>4, <2>6, <3>1 DEF SearchOK
        <3>3. promised # None => promised \in proposed .. MaxL2 /\ promised \in Nat
            BY <1>1, <2>2, HostAssumption DEF SearchOK, ChainsOK
        <3>4. clean' /\ promised # None /\ Sighted(promised) => promised <= high'
            BY <1>4, <2>3, <2>4, <3>3, HostAssumption
        <3>5. promised' # None => Available(promised)'
            BY <1>2, <2>2, <2>7 DEF SearchOK, Available, Commit
        <3>6. best' # None => Available(best)'
            BY <1>2, <2>2, <2>7 DEF SearchOK, Available, Commit
        <3>7. ~ wrapped' => (best' # None => best' <= FinalizedL2')
            BY <1>2, <2>2, <2>6, <2>7 DEF SearchOK
        <3>8. /\ best' = None => low' = proposed'
              /\ best' # None => best' \in proposed' .. MaxL2 /\ low' = best' + 1
            BY <2>2, <2>7 DEF SearchOK
        <3>q. QED
            BY <1>2, <2>1, <2>7, <3>2, <3>3, <3>4, <3>5, <3>6, <3>7, <3>8 DEF SearchOK
    <2>q. QED
        BY <1>2, <2>1, <2>8, <2>9, <2>10, NextCall
<1>q. QED
    BY <1>3, <1>4

\* What was committed when the search began is located, and its event found.
LEMMA NothingKeeps ==
    ASSUME HostInv, LocateNothing \/ ScanNothing \/ ProbeFails
    PROVE  HostInv'
<1>1. /\ pc \in {"locate", "scan"} /\ Unavailable
      /\ UNCHANGED <<chains, growth, end, low, best, scan, target, head, promised>>
    BY DEF LocateNothing, ScanNothing, ProbeFails
<1>2. HostTypeOK /\ ChainsOK /\ PhaseOK /\ latest \in L1Blocks
    BY DEF HostInv, HostTypeOK
<1>3. CASE ProbeFails
    BY <1>1, <1>3, UnavailableKeeps DEF ProbeFails
<1>4. ASSUME end = None, promised # None, Sighted(promised), LocateNothing \/ ScanNothing,
             block # 0
      PROVE  promised < block
    <2>1. SearchOK /\ Searching
        BY <1>1, <1>4 DEF HostInv, Searching
    <2>2. promised \in 1 .. MaxL2 /\ Commit(promised) <= latest
        BY <1>4, <2>1 DEF SearchOK, Available
    <2>3. height[promised] <= commits[latest] /\ promised \in L2Blocks
        BY <1>2, <2>2, CommitIs DEF L2Blocks
    <2>4. block \in Nat /\ proposed <= block
        <3>1. best # None => best \in Nat /\ proposed <= best /\ low = best + 1
            BY <1>2, <2>1, HostAssumption DEF SearchOK, ChainsOK
        <3>2. best = None => low = proposed
            BY <2>1 DEF SearchOK
        <3>3. low <= block /\ block \in Nat /\ low \in Nat /\ proposed \in Nat
            BY <1>1, <1>2, <2>1, HostAssumption DEF SearchOK, HostTypeOK, ChainsOK, U64
        <3>q. QED
            BY <3>1, <3>2, <3>3
    <2>5. SUFFICES ASSUME block <= promised PROVE FALSE
        BY <2>2, <2>4
    <2>6. block \in 1 .. MaxL2 /\ block \in L2Blocks /\ ~ Overlooked(block)
        <3>1. block \in 1 .. MaxL2 /\ block \in proposed .. promised
            BY <1>2, <1>4, <2>2, <2>4, <2>5, HostAssumption DEF ChainsOK
        <3>q. QED
            BY <1>4, <3>1 DEF Sighted, L2Blocks
    <2>7. ASSUME NEW u \in L1Blocks, height[promised] <= commits[u]
          PROVE  \E b \in post[block] .. u : Covers(b, block)
        <3>1. height[block] <= height[promised]
            BY <1>2, <2>3, <2>5, <2>6 DEF ChainsOK
        <3>2. height[block] \in Nat /\ height[promised] \in Nat /\ commits[u] \in Nat
            BY <1>2, <2>3, <2>6, ChainTypes
        <3>q. QED
            BY <1>1, <1>2, <2>6, <2>7, <3>1, <3>2, EventExists DEF PhaseOK
    <2>8. CASE LocateNothing
        <3>1. ~ (post[block] <= latest)
            BY <2>6, <2>8 DEF LocateNothing
        <3>2. latest \in Nat /\ post[block] \in Nat
            BY <1>2, <2>6, ChainTypes
        <3>q. QED
            BY <1>2, <2>3, <2>7, <3>1, <3>2
    <2>9. CASE ScanNothing
        <3>1. /\ ScanOK /\ pc = "scan" /\ WindowEnd >= upto
              /\ \A b \in cursor .. WindowEnd : ~ Covers(b, block)
            BY <2>9 DEF ScanNothing, HostInv
        <3>2. /\ cursor \in Nat /\ upto \in 0 .. latest
              /\ \A b \in post[block] .. cursor - 1 : ~ Covers(b, block)
              /\ height[promised] <= commits[upto]
            BY <1>4, <3>1 DEF ScanOK
        <3>3. /\ upto \in L1Blocks /\ upto \in Nat /\ WindowEnd \in Int
              /\ post[block] \in Nat
            <4>1. upto \in L1Blocks /\ upto \in Nat
                BY <1>2, <3>2, HostAssumption DEF L1Blocks
            <4>q. QED
                BY <1>2, <2>6, <3>2, <4>1, ChainTypes, HostAssumption DEF WindowEnd
        <3>4. \A b \in post[block] .. upto : ~ Covers(b, block)
            BY <3>1, <3>2, <3>3
        <3>q. QED
            BY <2>7, <3>2, <3>3, <3>4
    <2>q. QED
        BY <1>4, <2>8, <2>9
<1>5. CASE LocateNothing \/ ScanNothing
    <2>1. clean' = clean /\ clean \in BOOLEAN
        BY <1>2, <1>5 DEF LocateNothing, ScanNothing, PhaseOK
    <2>q. QED
        BY <1>1, <1>4, <1>5, <2>1, UnavailableKeeps
<1>q. QED
    BY <1>3, <1>5

\* The search goes on with the bounds it has while a block is looked up.
LEMMA SearchStays ==
    ASSUME HostInv, pc \in {"locate", "scan"}, pc' \in {"locate", "scan"},
           UNCHANGED <<chains, growth, end, bounds, best, block, history>>
    PROVE  SearchOK'
<1>1. \A x : Available(x)' <=> Available(x)
    BY Fixed
<1>2. FinalizedL2' = FinalizedL2
    BY Fixed
<1>3. UNCHANGED <<proposed, end, low, high, best, block, wrapped, clean, promised>>
    BY DEF chains, bounds, history
<1>6. Sighted(promised)' <=> Sighted(promised)
    BY <1>3, Fixed
<1>4. /\ best' # None /\ Available(best) => Available(best)'
      /\ promised' # None /\ Available(promised) => Available(promised)'
    BY <1>1, <1>3
<1>5. Searching' => Searching /\ SearchOK
    BY <1>3 DEF HostInv, Searching
<1>q. QED
    BY <1>2, <1>3, <1>4, <1>5, <1>6 DEF SearchOK, Searching

LEMMA LocateKeeps ==
    ASSUME HostInv, Locate
    PROVE  HostInv'
<1>1. /\ UNCHANGED <<chains, growth, end, bounds, best, block, target, head, history>>
      /\ pc = "locate" /\ block \in 1 .. MaxL2 /\ post[block] <= latest
      /\ cursor' = post[block] /\ upto' = latest /\ pc' = "scan"
    BY DEF Locate
<1>2. HostTypeOK /\ ChainsOK /\ latest \in L1Blocks /\ latest \in Nat
    BY HostAssumption DEF HostInv, HostTypeOK, L1Blocks
<1>3. ChainsOK' /\ SearchOK'
    BY <1>1, Fixed, SearchStays
<1>4. HostTypeOK' /\ PhaseOK' /\ OnlyGenesisWraps'
    BY <1>1 DEF HostInv, HostTypeOK, PhaseOK, OnlyGenesisWraps, chains, growth, bounds, history
<1>5. ScanOK'
    <2>1. post[block] \in Nat /\ block \in L2Blocks
        BY <1>1, <1>2, ChainTypes DEF L2Blocks
    <2>2. ASSUME end = None, promised # None
          PROVE  height[promised] <= commits[latest]
        <3>1. SearchOK /\ Searching
            BY <1>1, <2>2 DEF HostInv, Searching
        <3>2. promised \in 1 .. MaxL2 /\ Commit(promised) <= latest
            BY <2>2, <3>1 DEF SearchOK, Available
        <3>q. QED
            BY <1>2, <3>2, CommitIs
    <2>3. UNCHANGED <<post, height, commits, latest, end, block, promised>>
        BY <1>1 DEF chains, growth, history
    <2>q. QED
        BY <1>1, <1>2, <2>1, <2>2, <2>3 DEF ScanOK
<1>q. QED
    BY <1>1, <1>3, <1>4, <1>5, NextCall

LEMMA ScanOnKeeps ==
    ASSUME HostInv, ScanOn
    PROVE  HostInv'
<1>1. /\ UNCHANGED <<chains, growth, pc, end, bounds, best, block, upto, target, head, history>>
      /\ pc = "scan" /\ \A b \in cursor .. WindowEnd : ~ Covers(b, block)
      /\ WindowEnd < upto /\ cursor' = WindowEnd + 1
    BY DEF ScanOn
<1>2. HostTypeOK /\ ChainsOK /\ ScanOK
    BY DEF HostInv
<1>3. ChainsOK' /\ SearchOK'
    BY <1>1, Fixed, SearchStays
<1>4. HostTypeOK' /\ PhaseOK' /\ OnlyGenesisWraps'
    BY <1>1 DEF HostInv, HostTypeOK, PhaseOK, OnlyGenesisWraps, chains, growth, bounds, history
<1>5. ScanOK'
    <2>1. /\ block \in 1 .. MaxL2 /\ cursor \in Nat /\ upto \in Nat /\ post[block] \in Nat
          /\ post[block] <= cursor /\ upto \in 0 .. latest
          /\ \A b \in post[block] .. cursor - 1 : ~ Covers(b, block)
        BY <1>1, <1>2, ChainTypes DEF ScanOK, L2Blocks
    <2>2. WindowEnd \in Nat /\ cursor <= WindowEnd
        BY <1>1, <2>1, HostAssumption DEF WindowEnd
    <2>3. \A b \in post[block] .. cursor' - 1 : ~ Covers(b, block)
        BY <1>1, <2>1, <2>2
    <2>4. UNCHANGED <<post, height, commits, latest, end, block, upto, promised, pc>>
        BY <1>1 DEF chains, growth, history
    <2>5. \A b \in post[block] .. cursor' - 1 : ~ Covers(b, block)'
        BY <2>3, <2>4 DEF Covers
    <2>6. cursor' \in Nat /\ post[block] <= cursor' /\ cursor' <= upto
        BY <1>1, <2>1, <2>2
    <2>q. QED
        BY <1>1, <1>2, <2>1, <2>4, <2>5, <2>6 DEF ScanOK
<1>q. QED
    BY <1>1, <1>3, <1>4, <1>5, NextCall

LEMMA ScanFindsKeeps ==
    ASSUME HostInv, ScanFinds
    PROVE  HostInv'
<1>1. PICK b \in cursor .. WindowEnd :
        /\ pc = "scan" /\ Covers(b, block)
        /\ IF end = None
           THEN best' = block /\ low' = block + 1 /\ pc' = "bisect" /\ head' = head
           ELSE best' = b /\ head' = b /\ pc' = "done" /\ low' = low
        /\ UNCHANGED <<chains, growth, end, high, scan, target, history>>
    BY DEF ScanFinds
<1>2. HostTypeOK /\ ChainsOK /\ ScanOK /\ PhaseOK /\ latest \in L1Blocks
    BY DEF HostInv, HostTypeOK
<1>3. /\ ChainsOK' /\ FinalizedL2' = FinalizedL2 /\ \A x : Available(x)' <=> Available(x)
      /\ \A x : Commit(x)' = Commit(x) /\ (Sighted(x)' <=> Sighted(x))
    BY <1>1, Fixed
<1>4. UNCHANGED <<kind, fallback, time, post, height, commits, proposed, latest, finalized, end, high,
                  block, cursor, upto, target, wrapped, clean, promised>>
    BY <1>1 DEF chains, growth, scan, history
<1>5. /\ block \in 1 .. MaxL2 /\ block \in Nat /\ post[block] \in Nat /\ post[block] >= 1
      /\ post[block] <= cursor /\ cursor \in Nat /\ upto \in Nat /\ upto <= latest /\ latest \in Nat
      /\ latest <= MaxL1
    <2>1. block \in L2Blocks /\ block # 0
        BY <1>1, <1>2 DEF ScanOK, L2Blocks
    <2>q. QED
        BY <1>1, <1>2, <2>1, ChainTypes, OriginIs DEF ScanOK
<1>6. b \in 1 .. MaxL1 /\ b <= latest /\ post[block] <= b
    <2>1. WindowEnd \in Int /\ WindowEnd <= upto
        BY <1>5, HostAssumption DEF WindowEnd
    <2>q. QED
        BY <1>5, <2>1, HostAssumption
<1>7. Commit(block) = b
    BY <1>1, <1>2, <1>5, <1>6, CommitIs
<1>8. CASE end = None
    <2>1. best' = block /\ low' = block + 1 /\ pc' = "bisect" /\ head' = head
        BY <1>1, <1>8
    <2>2. SearchOK /\ Searching
        BY <1>1, <1>8 DEF HostInv, Searching
    <2>3. Available(block)
        BY <1>5, <1>6, <1>7 DEF Available
    <2>4. HostTypeOK' /\ PhaseOK' /\ OnlyGenesisWraps'
        BY <1>1, <1>2, <1>4, <1>5, <2>1, HostAssumption
           DEF HostInv, HostTypeOK, PhaseOK, OnlyGenesisWraps, U64
    <2>5. SearchOK'
        <3>1. block \in proposed .. MaxL2
            <4>1. best # None => best \in Nat /\ proposed <= best /\ low = best + 1
                BY <1>2, <2>2, HostAssumption DEF SearchOK, ChainsOK
            <4>2. best = None => low = proposed
                BY <2>2 DEF SearchOK
            <4>3. low <= block /\ low \in Nat /\ proposed \in Nat
                BY <1>1, <1>2, <2>2, HostAssumption DEF SearchOK, ChainsOK, HostTypeOK, U64
            <4>q. QED
                BY <1>5, <4>1, <4>2, <4>3
        <3>2. best' # None /\ best' \in proposed' .. MaxL2 /\ low' = best' + 1
            BY <1>4, <1>5, <2>1, <3>1, HostAssumption
        <3>3. Available(best)'
            BY <1>4, <2>1, <2>3 DEF Available, Commit
        <3>4. promised' # None => Available(promised)' /\ promised' \in proposed' .. MaxL2
            BY <1>4, <2>2 DEF SearchOK, Available, Commit
        <3>5. ~ wrapped' => high' <= FinalizedL2' /\ best' <= FinalizedL2'
            <4>1. FinalizedL2 \in Nat /\ high \in Nat
                BY <1>2, SafeHeadIs, HostAssumption DEF FinalizedL2, L2Blocks, HostTypeOK, U64
            <4>q. QED
                BY <1>1, <1>3, <1>4, <1>5, <2>1, <2>2, <4>1 DEF SearchOK
        <3>q. QED
            BY <1>3, <1>4, <2>1, <2>2, <3>2, <3>3, <3>4, <3>5 DEF SearchOK
    <2>q. QED
        BY <1>3, <2>1, <2>4, <2>5, NextCall
<1>9. CASE end # None
    <2>1. best' = b /\ head' = b /\ pc' = "done" /\ low' = low /\ end = block /\ kind = "celestia"
        BY <1>1, <1>2, <1>9 DEF PhaseOK
    <2>2. b \in L1Blocks /\ b \in U64 /\ b \in Int
        BY <1>6, HostAssumption DEF L1Blocks, U64
    <2>3. HostTypeOK' /\ PhaseOK' /\ OnlyGenesisWraps'
        BY <1>1, <1>2, <1>4, <1>9, <2>1, <2>2, HostAssumption
           DEF HostInv, HostTypeOK, PhaseOK, OnlyGenesisWraps
    <2>4. HeadReachesEnd'
        <3>1. Commit(end)' = b
            BY <1>4, <1>7, <2>1 DEF Commit
        <3>q. QED
            BY <1>4, <1>6, <2>1, <3>1 DEF HeadReachesEnd
    <2>q. QED
        BY <1>3, <2>1, <2>3, <2>4, NextCall
<1>q. QED
    BY <1>8, <1>9

-----------------------------------------------------------------------------
\* The fetch of a request, and the searches for its L1 head

LEMMA RequestKeeps ==
    ASSUME HostInv, Request
    PROVE  HostInv'
<1>1. /\ UNCHANGED <<chains, growth, bounds, best, cursor, upto, target, head, history>>
      /\ pc = "found" /\ best # None /\ end' \in proposed + 1 .. best
      /\ IF kind = "ethereum" THEN pc' = "origin" /\ block' = block
                              ELSE pc' = "locate" /\ block' = end'
    BY DEF Request
<1>2. HostTypeOK /\ ChainsOK /\ PhaseOK /\ finalized \in Nat
    BY DEF HostInv, HostTypeOK
<1>3. ChainsOK'
    BY <1>1, Fixed
<1>4. UNCHANGED <<kind, fallback, time, post, height, commits, proposed, latest, finalized, low, high,
                  best, cursor, upto, target, head, wrapped, clean, promised>>
    BY <1>1 DEF chains, growth, bounds, history
<1>5. best \in L2Blocks /\ end' \in 1 .. MaxL2 /\ end' <= best /\ end' # None
    <2>1. best \in L2Blocks
        BY <1>1 DEF HostInv, FoundOK
    <2>q. QED
        BY <1>1, <1>2, <2>1, HostAssumption DEF L2Blocks, ChainsOK
<1>6. kind = "ethereum" => post[end'] <= finalized
    <2>1. SUFFICES ASSUME kind = "ethereum" PROVE post[end'] <= finalized
        OBVIOUS
    <2>2. ~ wrapped
        BY <2>1 DEF HostInv, OnlyGenesisWraps
    <2>3. best <= FinalizedL2
        BY <1>1, <2>2 DEF HostInv, AnswerProvable
    <2>4. FinalizedL2 \in L2Blocks
        BY <1>2, SafeHeadIs DEF FinalizedL2
    <2>5. end' <= FinalizedL2 /\ end' \in L2Blocks
        BY <1>5, <2>3, <2>4, HostAssumption DEF L2Blocks
    <2>q. QED
        BY <1>2, <2>5, SafeHeadIs DEF FinalizedL2
<1>7. HostTypeOK' /\ PhaseOK' /\ OnlyGenesisWraps'
    <2>1. end' \in L2Blocks /\ end' \in U64
        BY <1>5, HostAssumption DEF L2Blocks, U64
    <2>q. QED
        BY <1>1, <1>2, <1>4, <1>5, <1>6, <2>1 DEF HostInv, HostTypeOK, PhaseOK, OnlyGenesisWraps, ChainsOK
<1>8. SearchOK'
    BY <1>1, <1>5 DEF SearchOK, Searching
<1>q. QED
    BY <1>1, <1>3, <1>7, <1>8, NextCall

\* A step of the fetch from L1 that leaves the bounds and what is known alone.
LEMMA FetchStays ==
    ASSUME HostInv, UNCHANGED <<chains, growth, end, scan, wrapped, promised>>,
           clean' \in BOOLEAN, head' \in L1Blocks \cup {None},
           low' \in U64, high' \in U64, best' \in U64 \cup {None},
           pc \in {"origin", "safe", "estimate", "timestamp", "time", "buffer"},
           pc' \in {"safe", "estimate", "timestamp", "time", "buffer", "done", "failed"},
           pc' = "done" => head' # None
    PROVE  HostTypeOK' /\ ChainsOK' /\ PhaseOK' /\ OnlyGenesisWraps'
<1>1. ChainsOK'
    BY Fixed
<1>2. UNCHANGED <<kind, fallback, time, post, height, commits, proposed, latest, finalized, end,
                  block, cursor, upto, wrapped, promised>>
    BY DEF chains, growth, scan
<1>q. QED
    BY <1>1, <1>2 DEF HostInv, HostTypeOK, PhaseOK, OnlyGenesisWraps

LEMMA RequestTypes ==
    ASSUME HostInv, pc \in {"origin", "safe", "estimate", "timestamp", "time", "buffer"}
    PROVE  /\ end \in 1 .. MaxL2 /\ end \in L2Blocks /\ kind = "ethereum" /\ ~ wrapped
           /\ post[end] \in 1 .. MaxL1 /\ post[end] <= finalized /\ Origin(end) < post[end]
           /\ latest \in 0 .. MaxL1 /\ finalized \in 0 .. latest
           /\ Origin(end) \in 0 .. MaxL1
           /\ low \in 0 .. MaxWord /\ high \in 0 .. MaxWord
<1>1. HostTypeOK /\ ChainsOK
    BY DEF HostInv
<1>2. end \in 1 .. MaxL2 /\ kind = "ethereum" /\ post[end] <= finalized
    BY DEF HostInv, PhaseOK
<1>3. ~ wrapped
    BY <1>2 DEF HostInv, OnlyGenesisWraps
<1>4. end \in L2Blocks /\ end # 0
    BY <1>2 DEF L2Blocks
<1>5. /\ latest \in 0 .. MaxL1 /\ finalized \in 0 .. latest
      /\ low \in 0 .. MaxWord /\ high \in 0 .. MaxWord
    BY <1>1 DEF HostTypeOK, L1Blocks, U64
<1>6. post[end] \in Nat /\ post[end] >= 1 /\ Origin(end) \in 0 .. MaxL1
    BY <1>1, <1>4, ChainTypes, OriginIs DEF L1Blocks
<1>7. Origin(end) < post[end]
    BY <1>1, <1>2 DEF ChainsOK
<1>q. QED
    BY <1>2, <1>3, <1>4, <1>5, <1>6, <1>7, HostAssumption

\* The binary search over safe heads.
LEMMA SafeKeeps ==
    ASSUME HostInv, SafeBegin \/ SafeProbe \/ SafeEnds
    PROVE  HostInv'
<1>1. /\ UNCHANGED <<chains, growth, end, scan, head, errors, clean, promised>>
      /\ pc \in {"origin", "safe"}
    BY DEF SafeBegin, SafeProbe, SafeEnds, history
<1>2. UNCHANGED <<fallback, time, post, end, kind, proposed>>
    BY <1>1 DEF chains
<1>0. HostTypeOK /\ ChainsOK /\ clean' \in BOOLEAN /\ head' \in L1Blocks \cup {None}
    BY <1>1 DEF HostInv, HostTypeOK, PhaseOK
<1>3. /\ end \in 1 .. MaxL2 /\ end \in L2Blocks /\ ~ wrapped
      /\ post[end] \in 1 .. MaxL1 /\ post[end] <= finalized /\ Origin(end) < post[end]
      /\ latest \in 0 .. MaxL1 /\ finalized \in 0 .. latest
      /\ Origin(end) \in 0 .. MaxL1
      /\ low \in 0 .. MaxWord /\ high \in 0 .. MaxWord
    BY <1>1, RequestTypes
<1>4. CASE SafeBegin
    <2>1. /\ low' = Origin(end) /\ high' = finalized /\ best' = None /\ target' = 0
          /\ pc' = "safe" /\ UNCHANGED wrapped
        BY <1>4 DEF SafeBegin, history
    <2>2. low' \in U64 /\ high' \in U64
        BY <1>3, <2>1, HostAssumption DEF U64
    <2>3. HostTypeOK' /\ ChainsOK' /\ PhaseOK' /\ OnlyGenesisWraps'
        BY <1>0, <1>1, <2>1, <2>2, FetchStays
    <2>4. SafeOK'
        BY <1>2, <1>3, <2>1, HostAssumption DEF SafeOK
    <2>q. QED
        BY <2>1, <2>3, <2>4, NextCall
<1>5. CASE SafeProbe
    <2>1. pc = "safe" /\ low <= high /\ pc' = "safe" /\ UNCHANGED target
        BY <1>5 DEF SafeProbe
    <2>2. PICK middle : middle = Middle
        OBVIOUS
    <2>3. middle \in Nat /\ low <= middle /\ middle <= high
        BY <1>3, <2>1, <2>2, MiddleIs
    <2>4. end <= SafeHead(middle) <=> post[end] <= middle
        BY <1>0, <1>3, <2>3, SafeHeadIs
    <2>5. SafeOK
        BY DEF HostInv
    <2>6. high <= MaxL1 /\ low <= post[end]
        BY <1>3, <2>1, <2>5, HostAssumption DEF SafeOK
    <2>7. CASE post[end] <= middle
        <3>1. middle \in 1 .. MaxL1
            BY <1>3, <2>3, <2>6, <2>7, HostAssumption
        <3>2. best' = middle /\ high' = middle - 1 /\ low' = low /\ wrapped' = wrapped
            <4>1. /\ best' = middle /\ high' = Decrement(middle) /\ low' = low
                  /\ wrapped' = (wrapped \/ middle = 0)
                BY <1>5, <2>2, <2>4, <2>7 DEF SafeProbe
            <4>2. wrapped \in BOOLEAN /\ middle # 0
                BY <3>1 DEF HostInv, PhaseOK
            <4>q. QED
                BY <3>1, <4>1, <4>2 DEF Decrement
        <3>3. low' \in U64 /\ high' \in U64 /\ best' \in U64
            BY <1>3, <3>1, <3>2, HostAssumption DEF U64
        <3>4. HostTypeOK' /\ ChainsOK' /\ PhaseOK' /\ OnlyGenesisWraps'
            BY <1>0, <1>1, <2>1, <3>2, <3>3, FetchStays
        <3>5. SafeOK'
            BY <1>2, <2>1, <2>5, <2>6, <2>7, <3>1, <3>2, HostAssumption DEF SafeOK
        <3>q. QED
            BY <2>1, <3>4, <3>5, NextCall
    <2>8. CASE ~ (post[end] <= middle)
        <3>1. low' = middle + 1 /\ UNCHANGED <<best, high, wrapped>>
            BY <1>5, <2>2, <2>4, <2>8 DEF SafeProbe
        <3>2. low' \in U64 /\ high' \in U64 /\ best' \in U64 \cup {None} /\ low' <= post[end]
            BY <1>0, <1>3, <2>3, <2>6, <2>8, <3>1, HostAssumption DEF U64, HostTypeOK
        <3>3. HostTypeOK' /\ ChainsOK' /\ PhaseOK' /\ OnlyGenesisWraps'
            BY <1>0, <1>1, <2>1, <3>1, <3>2, FetchStays
        <3>4. SafeOK'
            BY <1>2, <2>1, <2>5, <3>1, <3>2 DEF SafeOK
        <3>q. QED
            BY <2>1, <3>3, <3>4, NextCall
    <2>q. QED
        BY <2>7, <2>8
<1>6. CASE SafeEnds
    <2>1. /\ pc = "safe" /\ high < low /\ UNCHANGED <<low, high, best, target, wrapped>>
          /\ IF best # None THEN pc' = "buffer" ELSE WithoutSafeHead
        BY <1>6 DEF SafeEnds, bounds, history
    <2>2. SafeOK
        BY DEF HostInv
    <2>3. best # None
        BY <1>3, <2>1, <2>2 DEF SafeOK
    <2>4. best = post[end] /\ best \in L1Blocks /\ target = 0 /\ pc' = "buffer"
        BY <1>3, <2>1, <2>2, <2>3, HostAssumption DEF SafeOK, L1Blocks
    <2>5. HostTypeOK' /\ ChainsOK' /\ PhaseOK' /\ OnlyGenesisWraps'
        BY <1>0, <1>1, <2>1, <2>4, FetchStays DEF HostTypeOK
    <2>6. BufferOK' /\ HeadIsFirst'
        BY <1>2, <1>3, <2>1, <2>4 DEF BufferOK, HeadIsFirst
    <2>q. QED
        BY <2>4, <2>5, <2>6, NextCall
<1>q. QED
    BY <1>4, <1>5, <1>6

\* The block the estimate is after is the first that has come to the target.
LEMMA ReachedIs ==
    ASSUME ChainsOK, HostTypeOK, target \in time[0] .. time[finalized]
    PROVE  /\ Reached \in L1Blocks /\ Reached <= finalized
           /\ \A b \in L1Blocks : target <= time[b] <=> Reached <= b
<1> DEFINE S == {b \in L1Blocks : target <= time[b]}
<1>1. finalized \in L1Blocks /\ 0 \in L1Blocks /\ finalized \in Nat
    BY HostAssumption DEF HostTypeOK, L1Blocks
<1>2. time[finalized] \in Nat /\ time[0] \in Nat /\ target \in Nat
    BY <1>1, ChainTypes
<1>3. S \subseteq Nat /\ finalized \in S
    <2>1. target <= time[finalized]
        BY <1>2
    <2>2. L1Blocks \subseteq Nat
        BY HostAssumption DEF L1Blocks
    <2>q. QED
        BY <1>1, <2>1, <2>2
<1>4. Min(S) \in S /\ \A y \in S : Min(S) <= y
    <2> HIDE DEF S
    <2>q. QED
        BY <1>3, MinIs
<1>5. PICK r : r = Reached
    OBVIOUS
<1>6. r = Min(S) /\ r \in L1Blocks /\ target <= time[r] /\ r <= finalized
    BY <1>3, <1>4, <1>5 DEF Reached
<1>7. ASSUME NEW b \in L1Blocks
      PROVE  target <= time[b] <=> r <= b
    <2>1. target <= time[b] => r <= b
        BY <1>4, <1>6
    <2>2. r \in Nat /\ b \in Nat /\ time[r] \in Nat /\ time[b] \in Nat
        BY <1>6, ChainTypes
    <2>3. r <= b => time[r] <= time[b]
        BY <1>6, <2>2 DEF ChainsOK
    <2>q. QED
        BY <1>2, <1>6, <2>1, <2>2, <2>3
<1>q. QED
    BY <1>5, <1>6, <1>7

LEMMA EstimateKeeps ==
    ASSUME HostInv, Estimate
    PROVE  HostInv'
<1>1. /\ UNCHANGED <<chains, growth, end, bounds, best, scan, head, history>>
      /\ pc = "estimate" /\ pc' = "timestamp"
      /\ target' = Min({L2Time(time, end) + Delay, time[finalized]})
    BY DEF Estimate
<1>2. UNCHANGED <<fallback, time, post, end, kind, proposed, finalized>>
    BY <1>1 DEF chains, growth
<1>3. HostTypeOK /\ ChainsOK /\ PhaseOK /\ fallback
    BY <1>1 DEF HostInv, TimeOK
<1>4. HostTypeOK' /\ ChainsOK' /\ PhaseOK' /\ OnlyGenesisWraps'
    BY <1>1, <1>3, FetchStays DEF HostTypeOK, PhaseOK, bounds, history
<1>5. /\ end \in Nat /\ post[end] \in L1Blocks /\ finalized \in L1Blocks /\ 0 \in L1Blocks
      /\ post[end] <= finalized
    BY <1>1, RequestTypes, HostAssumption DEF L1Blocks
<1>6. /\ time[0] \in Nat /\ time[finalized] \in Nat /\ time[post[end]] \in Nat
      /\ time[0] <= time[finalized] /\ time[post[end]] <= time[finalized]
    <2>1. time[0] \in Nat /\ time[finalized] \in Nat /\ time[post[end]] \in Nat
        BY <1>3, <1>5, ChainTypes
    <2>2. finalized \in Nat /\ post[end] \in Nat
        BY <1>5, HostAssumption DEF L1Blocks
    <2>3. /\ 0 < finalized => time[0] < time[finalized]
          /\ post[end] < finalized => time[post[end]] < time[finalized]
        BY <1>3, <1>5 DEF ChainsOK
    <2>q. QED
        BY <1>5, <2>1, <2>2, <2>3
<1>7. PICK t : t = L2Time(time, end) + Delay
    OBVIOUS
<1>8. t \in Nat /\ time[0] <= t
    BY <1>5, <1>6, <1>7, HostAssumption DEF L2Time
<1>9. target' \in {t, time[finalized]} /\ target' <= t /\ target' <= time[finalized]
    <2>1. {t, time[finalized]} \subseteq Nat
        BY <1>6, <1>8
    <2>q. QED
        BY <1>1, <1>7, <2>1, MinIs
<1>10. TimeOK'
    <2>1. target' \in time'[0] .. time'[finalized']
        BY <1>2, <1>6, <1>8, <1>9
    <2>2. Close(end)' => time[post[end]] <= target'
        BY <1>2, <1>6, <1>7, <1>9 DEF Close
    <2>q. QED
        BY <1>1, <1>2, <1>3, <2>1, <2>2 DEF TimeOK
<1>q. QED
    BY <1>1, <1>4, <1>10, NextCall

\* The binary search over timestamps.
LEMMA TimeKeeps ==
    ASSUME HostInv, TimeBegin \/ TimeProbe \/ TimeEnds
    PROVE  HostInv'
<1>1. /\ UNCHANGED <<chains, growth, end, scan, target, head, errors, clean, promised>>
      /\ pc \in {"timestamp", "time"}
    BY DEF TimeBegin, TimeProbe, TimeEnds, history
<1>2. UNCHANGED <<fallback, time, post, end, kind, proposed, finalized, latest, target>>
    BY <1>1 DEF chains, growth
<1>0. HostTypeOK /\ ChainsOK /\ clean' \in BOOLEAN /\ head' \in L1Blocks \cup {None}
    BY <1>1 DEF HostInv, HostTypeOK, PhaseOK
<1>3. /\ latest \in 0 .. MaxL1 /\ finalized \in 0 .. latest
      /\ low \in 0 .. MaxWord /\ high \in 0 .. MaxWord
      /\ post[end] \in L1Blocks /\ post[end] \in Nat
    BY <1>1, RequestTypes, HostAssumption DEF L1Blocks
<1>4. /\ TimeOK /\ fallback /\ target \in time[0] .. time[finalized]
      /\ Close(end) => time[post[end]] <= target
    BY <1>1 DEF HostInv, TimeOK
<1>5. PICK r : r = Reached
    OBVIOUS
<1>6. /\ r \in L1Blocks /\ r \in Nat /\ r <= finalized /\ r <= MaxL1
      /\ \A b \in L1Blocks : target <= time[b] <=> r <= b
    BY <1>0, <1>4, <1>5, ReachedIs, ChainTypes
<1>7. Reached' = r
    BY <1>2, <1>5 DEF Reached
<1>8. Close(end)' <=> Close(end)
    BY <1>2 DEF Close
<1>9. target \in Nat \ {0} /\ 0 \in L1Blocks
    <2>1. finalized \in L1Blocks /\ 0 \in L1Blocks
        BY <1>3, HostAssumption DEF L1Blocks
    <2>2. time[0] \in Nat \ {0} /\ time[finalized] \in Nat
        BY <1>0, <2>1, ChainTypes
    <2>q. QED
        BY <1>4, <2>1, <2>2
\* The answer, once it is the block reached, is a head before the buffer.
<1>10. ASSUME best' = r, pc' = "buffer", UNCHANGED wrapped, low' \in U64, high' \in U64
       PROVE  HostInv'
    <2>1. r \in U64
        BY <1>6, HostAssumption DEF U64
    <2>2. HostTypeOK' /\ ChainsOK' /\ PhaseOK' /\ OnlyGenesisWraps'
        BY <1>0, <1>1, <1>10, <2>1, FetchStays
    <2>3. ASSUME Close(end)
          PROVE  post[end] <= r
        <3>1. time[post[end]] \in Nat /\ time[r] \in Nat
            BY <1>0, <1>3, <1>6, ChainTypes
        <3>2. time[post[end]] <= time[r]
            BY <1>4, <1>6, <1>9, <2>3, <3>1
        <3>3. ~ (r < post[end])
            BY <1>0, <1>3, <1>6, <3>1, <3>2 DEF ChainsOK
        <3>q. QED
            BY <1>3, <1>6, <3>3
    <2>4. BufferOK'
        BY <1>2, <1>4, <1>6, <1>8, <1>10, <2>3 DEF BufferOK
    <2>5. HeadIsFirst'
        BY <1>2, <1>7, <1>9, <1>10 DEF HeadIsFirst, Reached
    <2>q. QED
        BY <1>10, <2>2, <2>4, <2>5, NextCall
\* The search goes on.
<1>11. ASSUME pc' = "time", UNCHANGED wrapped, low' \in U64, high' \in U64, best' \in U64 \cup {None},
              low' <= r, r <= high' + 1, high' <= MaxL1
       PROVE  HostInv'
    <2>1. HostTypeOK' /\ ChainsOK' /\ PhaseOK' /\ OnlyGenesisWraps'
        BY <1>0, <1>1, <1>11, FetchStays
    <2>2. TimeOK'
        BY <1>2, <1>4, <1>7, <1>8, <1>11 DEF TimeOK
    <2>q. QED
        BY <1>11, <2>1, <2>2, NextCall
<1>12. CASE TimeBegin
    <2>1. low' = 0 /\ high' = finalized /\ best' = None /\ pc' = "time" /\ UNCHANGED wrapped
        BY <1>12 DEF TimeBegin, history
    <2>2. low' \in U64 /\ high' \in U64 /\ r <= high' + 1 /\ high' <= MaxL1
        BY <1>3, <1>6, <2>1, HostAssumption DEF U64
    <2>q. QED
        BY <1>6, <1>11, <2>1, <2>2
<1>13. CASE TimeProbe
    <2>1. PICK middle : middle = Middle
        OBVIOUS
    <2>2. pc = "time" /\ low <= high /\ middle \in L1Blocks
        BY <1>13, <2>1 DEF TimeProbe
    <2>3. middle \in Nat /\ low <= middle /\ middle <= high
        BY <1>3, <2>1, <2>2, MiddleIs
    <2>4. low <= r /\ r <= high + 1 /\ high <= MaxL1
        BY <1>4, <1>5, <2>2 DEF TimeOK
    <2>5. time[middle] \in Nat /\ (target <= time[middle] <=> r <= middle) /\ time[r] \in Nat
        BY <1>0, <1>6, <2>2, ChainTypes
    <2>6. best \in U64 \cup {None} /\ low \in U64 /\ high \in U64
        BY <1>0 DEF HostTypeOK
    <2>7. CASE time[middle] = target
        <3>1. best' = middle /\ pc' = "buffer" /\ UNCHANGED <<low, high, wrapped>>
            BY <1>9, <1>13, <2>1, <2>7 DEF TimeProbe, bounds
        <3>2. middle = r
            <4>1. target <= time[r] /\ r <= middle
                BY <1>6, <1>9, <2>5, <2>7
            <4>2. ~ (r < middle)
                BY <1>0, <1>6, <1>9, <2>2, <2>5, <2>7, <4>1 DEF ChainsOK
            <4>q. QED
                BY <1>6, <2>3, <4>1, <4>2
        <3>q. QED
            BY <1>10, <2>6, <3>1, <3>2
    <2>8. CASE time[middle] < target
        <3>1. low' = middle + 1 /\ UNCHANGED <<high, best, pc, wrapped>>
            BY <1>9, <1>13, <2>1, <2>5, <2>8 DEF TimeProbe
        <3>2. low' <= r /\ low' \in U64
            BY <1>6, <1>9, <2>3, <2>5, <2>8, <3>1, HostAssumption DEF U64
        <3>q. QED
            BY <1>11, <2>2, <2>4, <2>6, <3>1, <3>2
    <2>9. CASE time[middle] > target
        <3>1. /\ high' = Decrement(middle) /\ wrapped' = (wrapped \/ middle = 0)
              /\ UNCHANGED <<low, best, pc>>
            BY <1>9, <1>13, <2>1, <2>5, <2>9 DEF TimeProbe
        <3>2. middle # 0
            <4>1. time[finalized] \in Nat /\ time[0] \in Nat
                BY <1>0, <1>3, <1>9, ChainTypes, HostAssumption DEF L1Blocks
            <4>2. ~ (target < time[0])
                BY <1>4, <4>1
            <4>q. QED
                BY <1>9, <2>9, <4>2
        <3>3. wrapped \in BOOLEAN /\ wrapped' = wrapped
            BY <3>1, <3>2 DEF HostInv, PhaseOK
        <3>4. high' = middle - 1
            BY <3>1, <3>2 DEF Decrement
        <3>5. r <= middle /\ middle <= MaxL1
            BY <1>9, <2>2, <2>3, <2>4, <2>5, <2>9, HostAssumption DEF L1Blocks
        <3>6. high' \in U64 /\ high' <= MaxL1 /\ r <= high' + 1
            BY <1>6, <2>3, <3>2, <3>4, <3>5, HostAssumption DEF U64
        <3>q. QED
            BY <1>11, <2>2, <2>4, <2>6, <3>1, <3>3, <3>6
    <2>q. QED
        BY <1>9, <2>5, <2>7, <2>8, <2>9
<1>14. CASE TimeEnds
    <2>1. /\ pc = "time" /\ high < low /\ UNCHANGED <<low, high, wrapped>>
          /\ IF low <= latest THEN best' = low /\ pc' = "buffer" ELSE best' = best /\ pc' = "failed"
        BY <1>14 DEF TimeEnds, bounds, history
    <2>2. low = r
        BY <1>3, <1>4, <1>5, <1>6, <2>1 DEF TimeOK
    <2>3. low <= latest
        BY <1>3, <1>6, <2>2
    <2>q. QED
        BY <1>0, <1>10, <2>1, <2>2, <2>3 DEF HostTypeOK
<1>q. QED
    BY <1>12, <1>13, <1>14

LEMMA AddBufferKeeps ==
    ASSUME HostInv, AddBuffer
    PROVE  HostInv'
<1>1. /\ UNCHANGED <<chains, growth, end, bounds, best, scan, target, history>>
      /\ pc = "buffer" /\ head' = Min({best + Buffer, finalized}) /\ pc' = "done"
    BY DEF AddBuffer
<1>2. UNCHANGED <<kind, fallback, time, post, height, commits, end, finalized>>
    BY <1>1 DEF chains, growth
<1>3. /\ HostTypeOK /\ BufferOK /\ best \in L1Blocks /\ kind = "ethereum"
      /\ best \in Nat /\ finalized \in Nat /\ finalized <= MaxL1
      /\ post[end] \in Nat /\ post[end] <= finalized
    <2>1. BufferOK /\ best \in L1Blocks
        BY <1>1 DEF HostInv, BufferOK
    <2>q. QED
        BY <1>1, <2>1, RequestTypes, HostAssumption DEF HostInv, L1Blocks
<1>4. /\ head' \in {best + Buffer, finalized}
      /\ head' <= best + Buffer /\ head' <= finalized
    <2>1. {best + Buffer, finalized} \subseteq Nat
        BY <1>3, HostAssumption
    <2>q. QED
        BY <1>1, <2>1, MinIs
<1>5. head' \in Nat /\ head' \in L1Blocks /\ head' # None
    BY <1>3, <1>4, HostAssumption DEF L1Blocks
<1>6. HostTypeOK' /\ ChainsOK' /\ PhaseOK' /\ OnlyGenesisWraps'
    BY <1>1, <1>3, <1>5, FetchStays DEF HostTypeOK, HostInv, PhaseOK, bounds, history
<1>7. HeadReachesEnd'
    <2>1. Close(end) \/ ~ fallback => post[end] <= head'
        BY <1>1, <1>3, <1>4, HostAssumption DEF BufferOK
    <2>q. QED
        BY <1>1, <1>2, <1>3, <1>4, <2>1 DEF HeadReachesEnd, Close, L2Time
<1>q. QED
    BY <1>1, <1>6, <1>7, NextCall

LEMMA OthersKeep ==
    ASSUME HostInv, NoSafeDB \/ SafeFails \/ FetchFails \/ Again
    PROVE  HostInv'
<1>1. UNCHANGED <<chains, growth, bounds, scan, target, wrapped, promised>>
    BY DEF NoSafeDB, SafeFails, FetchFails, Again, Fail, history
<1>2. ChainsOK' /\ HostTypeOK /\ PhaseOK
    BY <1>1, Fixed DEF HostInv
<1>3. CASE NoSafeDB \/ SafeFails \/ FetchFails
    <2>1. /\ UNCHANGED <<end, best, head, low, high>> /\ clean' \in BOOLEAN
          /\ pc \in {"origin", "safe", "estimate", "timestamp", "time", "buffer"}
          /\ pc' = "failed" \/ (pc' = "estimate" /\ fallback)
        BY <1>2, <1>3 DEF NoSafeDB, SafeFails, FetchFails, Fail, WithoutSafeHead, bounds, history, PhaseOK
    <2>2. HostTypeOK' /\ PhaseOK' /\ OnlyGenesisWraps'
        BY <1>1, <1>2, <2>1, FetchStays DEF HostTypeOK
    <2>3. pc' = "estimate" => TimeOK'
        BY <1>1, <2>1 DEF TimeOK, chains
    <2>q. QED
        BY <1>2, <2>1, <2>2, <2>3, NextCall
<1>4. CASE Again
    <2>1. pc' = "idle" /\ end' = None /\ head' = None /\ best' = None /\ UNCHANGED history
        BY <1>4 DEF Again
    <2>2. HostTypeOK' /\ PhaseOK' /\ OnlyGenesisWraps'
        BY <1>1, <1>2, <2>1
           DEF HostInv, HostTypeOK, PhaseOK, OnlyGenesisWraps, chains, growth, bounds, scan, history
    <2>q. QED
        BY <1>2, <2>1, <2>2, NextCall
<1>q. QED
    BY <1>3, <1>4

-----------------------------------------------------------------------------
\* The invariant, and what follows

LEMMA InitInv == Init => HostInv
<1> SUFFICES ASSUME Init
             PROVE  HostInv
    OBVIOUS
<1>1. /\ time \in [L1Blocks -> Nat \ {0}]
      /\ \A b \in 1 .. MaxL1 : time[b - 1] < time[b]
    <2>1. CASE kind = "ethereum"
        <3>1. /\ time \in [L1Blocks -> 1 .. 3 * MaxL1 + 1]
              /\ \A b \in 1 .. MaxL1 : time[b] - time[b - 1] \in {2, 3}
            BY <2>1 DEF Init, Times
        <3>2. \A b \in 1 .. MaxL1 : time[b] \in Int /\ time[b - 1] \in Int
            BY <3>1, HostAssumption DEF L1Blocks
        <3>q. QED
            BY <3>1, <3>2
    <2>2. CASE kind = "celestia"
        <3>1. time = [b \in L1Blocks |-> 2 * b + 1]
            BY <2>2 DEF Init
        <3>q. QED
            BY <3>1, HostAssumption DEF L1Blocks
    <2>q. QED
        BY <2>1, <2>2 DEF Init
<1>2. \A a, b \in L1Blocks : a < b => time[a] < time[b]
    <2>1. \A b \in 0 .. MaxL1 : time[b] \in Int
        BY <1>1 DEF L1Blocks
    <2>2. \A b \in 1 .. MaxL1 : time[b - 1] \in Int /\ time[b] \in Int
        BY <2>1, HostAssumption
    <2>3. \A b \in 1 .. MaxL1 : time[b - 1] <= time[b]
        BY <1>1, <2>2
    <2>4. \A a, b \in 0 .. MaxL1 : a <= b => time[a] <= time[b]
        BY <2>1, <2>3, HostAssumption, Monotone
    <2>5. ASSUME NEW a \in L1Blocks, NEW b \in L1Blocks, a < b
          PROVE  time[a] < time[b]
        <3>1. PICK c \in 1 .. MaxL1 : c = a + 1
            BY <2>5, HostAssumption DEF L1Blocks
        <3>2. c - 1 = a /\ c \in 0 .. MaxL1 /\ c <= b
            BY <2>5, <3>1, HostAssumption DEF L1Blocks
        <3>3. time[c - 1] < time[c]
            BY <1>1
        <3>4. time[c] <= time[b]
            BY <2>4, <3>2 DEF L1Blocks
        <3>q. QED
            BY <2>1, <3>2, <3>3, <3>4 DEF L1Blocks
    <2>q. QED
        BY <2>5
<1>3. /\ post \in [L2Blocks -> 0 .. Never] /\ post[0] = 0
      /\ \A x \in 1 .. MaxL2 : OriginAt(time, x) < post[x] /\ post[x - 1] <= post[x]
    BY DEF Init, Posts
<1>4. \A x, y \in L2Blocks : x <= y => post[x] <= post[y]
    <2>1. \A x \in 0 .. MaxL2 : post[x] \in Int
        BY <1>3, HostAssumption DEF L2Blocks, Never
    <2>q. QED
        BY <1>3, <2>1, HostAssumption, Monotone DEF L2Blocks
<1>5. /\ commits \in [L1Blocks -> CelestiaHeights] /\ commits[0] = 0
      /\ \A b \in 1 .. MaxL1 : commits[b - 1] <= commits[b]
    <2>1. CASE kind = "ethereum"
        <3>1. commits = [b \in L1Blocks |-> 0]
            BY <2>1 DEF Init
        <3>q. QED
            BY <3>1, HostAssumption DEF L1Blocks, CelestiaHeights
    <2>2. CASE kind = "celestia"
        BY <2>2 DEF Init, Commits
    <2>q. QED
        BY <2>1, <2>2 DEF Init
<1>6. \A a, b \in L1Blocks : a <= b => commits[a] <= commits[b]
    <2>1. \A b \in 0 .. MaxL1 : commits[b] \in Int
        BY <1>5, HostAssumption DEF L1Blocks, CelestiaHeights
    <2>q. QED
        BY <1>5, <2>1, HostAssumption, Monotone DEF L1Blocks
<1>11. /\ height \in [L2Blocks -> CelestiaHeights]
       /\ kind = "celestia" => \A x \in 1 .. MaxL2 : height[x] >= 1
       /\ \A x \in 1 .. MaxL2 : height[x - 1] <= height[x]
    <2>1. CASE kind = "ethereum"
        <3>1. height = [x \in L2Blocks |-> 0]
            BY <2>1 DEF Init
        <3>q. QED
            BY <2>1, <3>1, HostAssumption DEF L2Blocks, CelestiaHeights
    <2>2. CASE kind = "celestia"
        <3>1. /\ height \in [L2Blocks -> CelestiaHeights]
              /\ \A x \in 1 .. MaxL2 : 1 <= height[x] /\ height[x - 1] <= height[x]
            BY <2>2 DEF Init, Heights
        <3>2. \A x \in 1 .. MaxL2 : height[x] \in Int
            BY <3>1, HostAssumption DEF L2Blocks, CelestiaHeights
        <3>q. QED
            BY <3>1, <3>2
    <2>q. QED
        BY <2>1, <2>2 DEF Init
<1>12. \A x, y \in L2Blocks : x <= y => height[x] <= height[y]
    <2>1. \A x \in 0 .. MaxL2 : height[x] \in Int
        BY <1>11, HostAssumption DEF L2Blocks, CelestiaHeights
    <2>q. QED
        BY <1>11, <2>1, HostAssumption, Monotone DEF L2Blocks
<1>7. /\ proposed \in 0 .. MaxL2 - 1 /\ post[proposed] \in 0 .. MaxL1
      /\ latest = post[proposed] /\ finalized = post[proposed]
    <2>1. /\ proposed \in 0 .. MaxL2 - 1 /\ post[proposed] # Never
          /\ latest = post[proposed] /\ finalized = latest
        BY DEF Init
    <2>2. proposed \in L2Blocks
        BY <2>1, HostAssumption DEF L2Blocks
    <2>3. post[proposed] \in 0 .. MaxL1 + 1
        BY <1>3, <2>2 DEF Never
    <2>q. QED
        BY <2>1, <2>3, HostAssumption DEF Never
<1>8. ChainsOK
    <2>1. kind \in {"ethereum", "celestia"} /\ fallback \in BOOLEAN
        BY DEF Init
    <2>2. \A x \in 1 .. MaxL2 : Origin(x) < post[x]
        BY <1>3 DEF Origin
    <2>q. QED
        BY <1>1, <1>2, <1>3, <1>4, <1>5, <1>6, <1>7, <1>11, <1>12, <2>1, <2>2 DEF ChainsOK
<1>9. /\ pc = "idle" /\ end = None /\ low = 0 /\ high = 0 /\ best = None /\ block = 0
      /\ head = None /\ clean = TRUE /\ wrapped = FALSE
    BY DEF Init
<1>10. HostTypeOK
    BY <1>7, <1>9, HostAssumption DEF HostTypeOK, L1Blocks, U64
<1>q. QED
    BY <1>8, <1>9, <1>10
       DEF HostInv, PhaseOK, SearchOK, Searching, ScanOK, SafeOK, TimeOK, BufferOK, FoundOK,
           OnlyGenesisWraps, AnswerProvable, AnswerHighest, HeadIsFirst, HeadReachesEnd

LEMMA StepInv == HostInv /\ [Next]_vars => HostInv'
<1> SUFFICES ASSUME HostInv, [Next]_vars
             PROVE  HostInv'
    OBVIOUS
<1>1. CASE Grow \/ Finalize
    BY <1>1, GrowthKeeps
<1>2. CASE AskFinalized \/ BisectEnds \/ FindNothing
    BY <1>2, AnswersKeep
<1>3. CASE BeginBisect
    BY <1>3, BeginBisectKeeps
<1>4. CASE Bisect
    BY <1>4, BisectKeeps
<1>5. CASE LocateNothing \/ ScanNothing \/ ProbeFails
    BY <1>5, NothingKeeps
<1>6. CASE Locate
    BY <1>6, LocateKeeps
<1>7. CASE ScanOn
    BY <1>7, ScanOnKeeps
<1>8. CASE ScanFinds
    BY <1>8, ScanFindsKeeps
<1>9. CASE Request
    BY <1>9, RequestKeeps
<1>10. CASE SafeBegin \/ SafeProbe \/ SafeEnds
    BY <1>10, SafeKeeps
<1>11. CASE Estimate
    BY <1>11, EstimateKeeps
<1>12. CASE TimeBegin \/ TimeProbe \/ TimeEnds
    BY <1>12, TimeKeeps
<1>13. CASE AddBuffer
    BY <1>13, AddBufferKeeps
<1>14. CASE NoSafeDB \/ SafeFails \/ FetchFails \/ Again
    BY <1>14, OthersKeep
<1>15. CASE UNCHANGED vars
    <2>1. /\ UNCHANGED <<kind, fallback, safeDB, time, post, height, commits, proposed>>
          /\ UNCHANGED <<latest, finalized, pc, end>>
          /\ UNCHANGED <<low, high, best, block, cursor, upto, target, head, errors>>
          /\ UNCHANGED <<clean, wrapped, promised>>
        BY <1>15 DEF vars, chains, growth, bounds, scan, history
    <2>7. Sighted(promised)' <=> Sighted(promised)
        BY <2>1 DEF Sighted, Overlooked, Commit
    <2>2. HostTypeOK' /\ PhaseOK' /\ FoundOK' /\ OnlyGenesisWraps' /\ AnswerHighest'
        BY <2>1, <2>7 DEF HostInv, HostTypeOK, PhaseOK, FoundOK, OnlyGenesisWraps, AnswerHighest
    <2>3. ChainsOK' /\ FinalizedL2' = FinalizedL2
        BY <2>1, Fixed DEF chains, growth
    <2>4. SearchOK' /\ AnswerProvable'
        BY <2>1, <2>3, <2>7
           DEF HostInv, SearchOK, Searching, AnswerProvable, Available, Commit
    <2>5. ScanOK' /\ SafeOK' /\ TimeOK' /\ BufferOK'
        BY <2>1 DEF HostInv, ScanOK, Covers, SafeOK, TimeOK, Reached, BufferOK, Close
    <2>6. HeadIsFirst' /\ HeadReachesEnd'
        BY <2>1 DEF HostInv, HeadIsFirst, HeadReachesEnd, Commit, L2Time
    <2>q. QED
        BY <2>2, <2>3, <2>4, <2>5, <2>6 DEF HostInv
<1>q. QED
    BY <1>1, <1>2, <1>3, <1>4, <1>5, <1>6, <1>7, <1>8, <1>9, <1>10, <1>11, <1>12, <1>13,
       <1>14, <1>15 DEF Next, Host

LEMMA AlwaysInv == Spec => []HostInv
BY InitInv, StepInv, PTL DEF Spec

\* Block numbers stay within an unsigned integer, and a finished fetch has a head.
THEOREM HostTypesHold == Spec => []HostTypeOK
<1>1. HostInv => HostTypeOK
    BY DEF HostInv
<1>q. QED
    BY <1>1, AlwaysInv, PTL

\* Only a Celestia host that nothing but genesis has been proposed to searches below block
\* zero (fetcher.rs:298 and 512, blobstream_utils.rs:303 and 308).
THEOREM WrapsAtGenesisOnly == Spec => []OnlyGenesisWraps
<1>1. HostInv => OnlyGenesisWraps
    BY DEF HostInv
<1>q. QED
    BY <1>1, AlwaysInv, PTL

\* What the search for the highest block answers is committed, and finalized unless the
\* search has wrapped (blobstream_utils.rs:270-331).
THEOREM AnswersAreProvable == Spec => []AnswerProvable
<1>1. HostInv => AnswerProvable
    BY DEF HostInv
<1>q. QED
    BY <1>1, AlwaysInv, PTL

\* A search no call of which failed answers at least the highest block that could be
\* proved when it began, unless a commitment below it came before its batch
\* (blobstream_utils.rs:286-311).
THEOREM AnswersAreHighest == Spec => []AnswerHighest
<1>1. HostInv => AnswerHighest
    BY DEF HostInv
<1>q. QED
    BY <1>1, AlwaysInv, PTL

\* The head before the buffer is the first that will do (fetcher.rs:261-312, 482-529).
THEOREM HeadsAreFirst == Spec => []HeadIsFirst
<1>1. HostInv => HeadIsFirst
    BY DEF HostInv
<1>q. QED
    BY <1>1, AlwaysInv, PTL

\* The end block can be derived from the L1 head of its host arguments
\* (fetcher.rs:535-569, host.rs:59-78).
THEOREM HeadsReachEnds == Spec => []HeadReachesEnd
<1>1. HostInv => HeadReachesEnd
    BY DEF HostInv
<1>q. QED
    BY <1>1, AlwaysInv, PTL
===============================================================================
