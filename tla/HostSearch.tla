------------------------------ MODULE HostSearch ------------------------------
(***************************************************************************)
(* How a proposer's host decides which L2 blocks can be proved and with    *)
(* which L1 head: op-succinct/utils/host/src/fetcher.rs, the hosts of both *)
(* data-availability layers and the Blobstream lookups.  Every answer is   *)
(* found by a search of many RPC calls, while the chains grow under it and *)
(* any call may fail.  One action is one call (or one turn of a loop).     *)
(***************************************************************************)
EXTENDS Integers, FiniteSetsExt

CONSTANTS
    MaxL1, MaxL2,  \* bounds: blocks are 0 .. MaxL1 and 0 .. MaxL2
    MaxHeight,     \* bound: Celestia's heights
    MaxWord,       \* the largest unsigned integer (u64::MAX)
    ScanWindow,    \* DEFAULT_FILTER_BLOCK_RANGE (5000)
    Buffer,        \* blocks added to the head found (20)
    Delay,         \* max_batch_post_delay_minutes
    MaxErrors,     \* bound: RPC calls that fail
    None

ASSUME HostAssumption ==
    /\ MaxL1 \in Nat \ {0} /\ MaxL2 \in Nat \ {0} /\ MaxWord \in Nat
    /\ MaxHeight \in Nat \ {0}
    /\ MaxL1 < MaxWord /\ MaxL2 < MaxWord
    /\ ScanWindow \in Nat \ {0} /\ Buffer \in Nat /\ Delay \in Nat /\ MaxErrors \in Nat
    /\ None \notin Int

L1Blocks == 0 .. MaxL1
L2Blocks == 0 .. MaxL2
Never == MaxL1 + 1
CelestiaHeights == 0 .. MaxHeight
U64 == 0 .. MaxWord

VARIABLES
    kind,       \* layer the host is built for: "ethereum" or "celestia"
    fallback,   \* safe_db_fallback
    safeDB,     \* the L2 node has its safeDB activated
    time,       \* timestamp of each L1 block
    post,       \* L1 block each L2 block's batch is posted in
    height,     \* Celestia height of each L2 block's batch
    commits,    \* highest Celestia height Blobstream has committed to, by L1 block
    proposed,   \* latest proposed L2 block number
    latest,     \* L1's latest block
    finalized,  \* L1's finalized block
    pc,         \* call the host is about to make
    end,        \* l2_end_block of the request, None while there is none
    low, high,  \* bounds of the running binary search
    best,       \* result, first_valid or the block found so far
    block,      \* L2 block being looked up on Celestia
    cursor, upto, \* current_start and latest_block of the log scan
    target,     \* target_timestamp of the estimate, 0 while there is none
    head,       \* l1_head of the host arguments
    errors,     \* calls that failed so far
    clean,      \* history: no call failed in the running search
    wrapped,    \* history: the running search has passed below zero
    promised    \* history: highest block available when the search began

chains == <<kind, fallback, safeDB, time, post, height, commits, proposed>>
growth == <<latest, finalized>>
bounds == <<low, high>>
scan == <<block, cursor, upto>>
history == <<errors, clean, wrapped, promised>>
vars == <<chains, growth, pc, end, bounds, best, scan, target, head, history>>

-----------------------------------------------------------------------------
\* The chains, as far as the nodes' answers tell them apart (external)

L2Time(t, x) == t[0] + 2 * x
OriginAt(t, x) == Max({b \in L1Blocks : t[b] <= L2Time(t, x)})
Origin(x) == OriginAt(time, x)

\* A slot may be missed, so timestamps are uneven.
Times == {t \in [L1Blocks -> 1 .. 3 * MaxL1 + 1] :
             t[0] = 1 /\ \A b \in 1 .. MaxL1 : t[b] - t[b - 1] \in {2, 3}}

\* A batch names the hash of its epoch's L1 block, so it is posted after it.
Posts(t) == {p \in [L2Blocks -> 0 .. Never] :
                /\ p[0] = 0
                /\ \A x \in 1 .. MaxL2 : OriginAt(t, x) < p[x] /\ p[x - 1] <= p[x]}

SafeHead(b) == Max({x \in L2Blocks : post[x] <= b})
FinalizedL2 == SafeHead(finalized)

\* Batches follow each other on Celestia, too.  Genesis has none.
Heights == {h \in [L2Blocks -> CelestiaHeights] :
              /\ h[0] = 0
              /\ \A x \in 1 .. MaxL2 : 1 <= h[x] /\ h[x - 1] <= h[x]}

\* Blobstream follows Celestia with a lag of its own; a step up is an event.
Commits == {c \in [L1Blocks -> CelestiaHeights] :
              c[0] = 0 /\ \A b \in 1 .. MaxL1 : c[b - 1] <= c[b]}

\* A height is committed to in one L1 block, which need not come after the one in which
\* the batch is posted.
Commit(x) == Min({b \in L1Blocks : height[x] <= commits[b]} \cup {Never})
Available(x) == x \in 1 .. MaxL2 /\ post[x] <= latest /\ Commit(x) <= latest

\* The commitment lies before the L1 block from which it is looked for.
Overlooked(x) == Commit(x) < post[x]
Sighted(x) == \A y \in proposed .. x : ~ Overlooked(y)

-----------------------------------------------------------------------------

Init ==
    /\ kind \in {"ethereum", "celestia"}
    /\ fallback \in (IF kind = "ethereum" THEN BOOLEAN ELSE {FALSE})
    /\ time \in (IF kind = "ethereum" THEN Times ELSE {[b \in L1Blocks |-> 2 * b + 1]})
    /\ post \in Posts(time)
    /\ safeDB \in (IF kind = "ethereum" THEN BOOLEAN ELSE {TRUE})
    /\ height \in (IF kind = "ethereum" THEN {[x \in L2Blocks |-> 0]} ELSE Heights)
    /\ commits \in (IF kind = "ethereum" THEN {[b \in L1Blocks |-> 0]} ELSE Commits)
    /\ proposed \in {x \in 0 .. MaxL2 - 1 : post[x] # Never}
    /\ latest = post[proposed] /\ finalized = latest
    /\ pc = "idle" /\ end = None /\ low = 0 /\ high = 0 /\ best = None
    /\ block = 0 /\ cursor = 0 /\ upto = 0 /\ target = 0 /\ head = None
    /\ errors = 0 /\ clean = TRUE /\ wrapped = FALSE /\ promised = None

\* L1 produces and finalizes blocks whatever the host does.
Grow ==
    /\ latest < MaxL1
    /\ latest' = latest + 1
    /\ UNCHANGED <<chains, finalized, pc, end, bounds, best, scan, target, head, history>>

Finalize ==
    /\ finalized < latest
    /\ finalized' = finalized + 1
    /\ UNCHANGED <<chains, latest, pc, end, bounds, best, scan, target, head, history>>

Fail ==
    /\ errors < MaxErrors
    /\ errors' = errors + 1
    /\ clean' = FALSE
    /\ UNCHANGED <<wrapped, promised>>

\* mid - 1 on an unsigned integer, as a release build computes it.
Decrement(n) == IF n = 0 THEN MaxWord ELSE n - 1

Middle == low + (high - low) \div 2

-----------------------------------------------------------------------------
\* get_finalized_l2_block_number

\* The Ethereum host takes the L2 node's word.
AskFinalized ==
    /\ pc = "idle" /\ kind = "ethereum"
    /\ best' = FinalizedL2
    /\ pc' = "found"
    /\ UNCHANGED <<chains, growth, end, bounds, scan, target, head, history>>

\* Mutant: the search begins at genesis and not at the latest proposed block.
BeginBisectAtGenesis ==
    /\ pc = "idle" /\ kind = "celestia"
    /\ low' = 0 /\ high' = FinalizedL2 /\ best' = None
    /\ LET known == {x \in proposed .. FinalizedL2 : Available(x)}
       IN  promised' = IF known = {} THEN None ELSE Max(known)
    /\ clean' = TRUE /\ wrapped' = FALSE
    /\ pc' = "bisect"
    /\ UNCHANGED <<chains, growth, end, scan, target, head, errors>>

\* The Celestia host searches down from the finalized block.
BeginBisect ==
    /\ pc = "idle" /\ kind = "celestia"
    /\ low' = proposed /\ high' = FinalizedL2 /\ best' = None
    /\ LET known == {x \in proposed .. FinalizedL2 : Available(x)}
       IN  promised' = IF known = {} THEN None ELSE Max(known)
    /\ clean' = TRUE /\ wrapped' = FALSE
    /\ pc' = "bisect"
    /\ UNCHANGED <<chains, growth, end, scan, target, head, errors>>

\* The head of the loop: the next block to look up, or the answer.
Bisect ==
    /\ pc = "bisect" /\ low <= high
    /\ block' = Middle
    /\ pc' = "locate"
    /\ UNCHANGED <<chains, growth, end, bounds, best, cursor, upto, target, head, history>>

BisectEnds ==
    /\ pc = "bisect" /\ high < low
    /\ pc' = "found"
    /\ UNCHANGED <<chains, growth, end, bounds, best, scan, target, head, history>>

\* Mutant: the search goes on at the block that was not available.
UnavailableStays ==
    IF end = None
    THEN high' = block /\ pc' = "bisect" /\ wrapped' = wrapped
    ELSE pc' = "failed" /\ UNCHANGED <<high, wrapped>>

\* get_celestia_safe_head_info found nothing: the bisection looks lower, a request fails.
Unavailable ==
    IF end = None
    THEN /\ high' = Decrement(block)
         /\ wrapped' = (wrapped \/ block = 0)
         /\ pc' = "bisect"
    ELSE pc' = "failed" /\ UNCHANGED <<high, wrapped>>

\* The indexer gives the height and the L1 block of the batch, and the scan, from there on,
\* reads the latest block.
Locate ==
    /\ pc = "locate" /\ block \in 1 .. MaxL2 /\ post[block] <= latest
    /\ cursor' = post[block] /\ upto' = latest
    /\ pc' = "scan"
    /\ UNCHANGED <<chains, growth, end, bounds, best, block, target, head, history>>

LocateNothing ==
    /\ pc = "locate" /\ ~ (block \in 1 .. MaxL2 /\ post[block] <= latest)
    /\ Unavailable
    /\ UNCHANGED <<chains, growth, end, low, best, scan, target, head, errors, clean, promised>>

WindowEnd == IF cursor + ScanWindow - 1 <= upto THEN cursor + ScanWindow - 1 ELSE upto

\* Mutant: any event counts.
CoversAny(b, x) == commits[b - 1] < commits[b]

\* verify_data_commitment_event: the event in L1 block b covers the height of x.
Covers(b, x) == commits[b - 1] < height[x] /\ height[x] <= commits[b]

\* A window of logs holds the event: the bisection looks higher, a request has its head.
ScanFinds ==
    /\ pc = "scan"
    /\ \E b \in cursor .. WindowEnd :
        /\ Covers(b, block)
        /\ IF end = None
           THEN best' = block /\ low' = block + 1 /\ pc' = "bisect" /\ head' = head
           ELSE best' = b /\ head' = b /\ pc' = "done" /\ low' = low
    /\ UNCHANGED <<chains, growth, end, high, scan, target, history>>

\* Mutant: the next window leaves a block out.
ScanOnPast ==
    /\ pc = "scan" /\ \A b \in cursor .. WindowEnd : ~ Covers(b, block)
    /\ WindowEnd < upto
    /\ cursor' = WindowEnd + 2
    /\ UNCHANGED <<chains, growth, pc, end, bounds, best, block, upto, target, head, history>>

ScanOn ==
    /\ pc = "scan" /\ \A b \in cursor .. WindowEnd : ~ Covers(b, block)
    /\ WindowEnd < upto
    /\ cursor' = WindowEnd + 1
    /\ UNCHANGED <<chains, growth, pc, end, bounds, best, block, upto, target, head, history>>

ScanNothing ==
    /\ pc = "scan" /\ \A b \in cursor .. WindowEnd : ~ Covers(b, block)
    /\ WindowEnd >= upto
    /\ Unavailable
    /\ UNCHANGED <<chains, growth, end, low, best, scan, target, head, errors, clean, promised>>

\* An error of the indexer or of L1 counts as unavailable.
ProbeFails ==
    /\ pc \in {"locate", "scan"}
    /\ errors < MaxErrors /\ errors' = errors + 1 /\ clean' = FALSE
    /\ Unavailable
    /\ UNCHANGED <<chains, growth, end, low, best, scan, target, head, promised>>

\* Without a block above the latest proposed one nothing is planned.
FindNothing ==
    /\ pc = "found" /\ (best # None => best <= proposed)
    /\ pc' = "idle"
    /\ UNCHANGED <<chains, growth, end, bounds, best, scan, target, head, history>>

-----------------------------------------------------------------------------
\* fetch: the host arguments of a range that ends at or below the answer

Request ==
    /\ pc = "found" /\ best # None
    /\ end' \in proposed + 1 .. best
    /\ IF kind = "ethereum" THEN pc' = "origin" /\ block' = block
                            ELSE pc' = "locate" /\ block' = end'
    /\ UNCHANGED <<chains, growth, bounds, best, cursor, upto, target, head, history>>

\* get_safe_l1_block_for_l2_block, from the end block's origin to the finalized block.
SafeBegin ==
    /\ pc = "origin"
    /\ low' = Origin(end) /\ high' = finalized /\ best' = None
    /\ target' = 0
    /\ pc' = "safe"
    /\ UNCHANGED <<chains, growth, end, scan, head, history>>

\* Mutant: any L1 block that already has the safe head ends the search.
SafeProbeEager ==
    /\ pc = "safe" /\ safeDB /\ low <= high
    /\ IF end <= SafeHead(Middle)
       THEN best' = Middle /\ low' = high + 1 /\ high' = high
       ELSE low' = Middle + 1 /\ UNCHANGED <<best, high>>
    /\ UNCHANGED <<chains, growth, pc, end, scan, target, head, history>>

SafeProbe ==
    /\ pc = "safe" /\ safeDB /\ low <= high
    /\ IF end <= SafeHead(Middle)
       THEN /\ best' = Middle /\ high' = Decrement(Middle) /\ low' = low
            /\ wrapped' = (wrapped \/ Middle = 0)
       ELSE low' = Middle + 1 /\ UNCHANGED <<best, high, wrapped>>
    /\ UNCHANGED <<chains, growth, pc, end, scan, target, head, errors, clean, promised>>

\* Without an answer, or without a safeDB, the head is estimated or the fetch fails.
WithoutSafeHead == pc' = IF fallback THEN "estimate" ELSE "failed"

SafeEnds ==
    /\ pc = "safe" /\ high < low
    /\ IF best # None THEN pc' = "buffer" ELSE WithoutSafeHead
    /\ UNCHANGED <<chains, growth, end, bounds, best, scan, target, head, history>>

\* optimism_safeHeadAtL1Block is an error on a node without a safeDB, whenever it is called.
NoSafeDB ==
    /\ pc = "safe" /\ ~ safeDB /\ low <= high
    /\ WithoutSafeHead
    /\ UNCHANGED <<chains, growth, end, bounds, best, scan, target, head, history>>

SafeFails ==
    /\ pc \in {"origin", "safe"}
    /\ Fail
    /\ WithoutSafeHead
    /\ UNCHANGED <<chains, growth, end, bounds, best, scan, target, head>>

\* get_l1_head's estimate: the L2 block's time and a delay, or L1's finalized time.
Estimate ==
    /\ pc = "estimate"
    /\ target' = Min({L2Time(time, end) + Delay, time[finalized]})
    /\ pc' = "timestamp"
    /\ UNCHANGED <<chains, growth, end, bounds, best, scan, head, history>>

\* find_block_by_timestamp, over every block up to the finalized one read now.
TimeBegin ==
    /\ pc = "timestamp"
    /\ low' = 0 /\ high' = finalized /\ best' = None
    /\ pc' = "time"
    /\ UNCHANGED <<chains, growth, end, scan, target, head, history>>

TimeProbe ==
    /\ pc = "time" /\ low <= high /\ Middle \in L1Blocks
    /\ \/ /\ time[Middle] = target
          /\ best' = Middle /\ pc' = "buffer" /\ UNCHANGED <<bounds, wrapped>>
       \/ /\ time[Middle] < target
          /\ low' = Middle + 1 /\ UNCHANGED <<high, best, pc, wrapped>>
       \/ /\ time[Middle] > target
          /\ high' = Decrement(Middle) /\ wrapped' = (wrapped \/ Middle = 0)
          /\ UNCHANGED <<low, best, pc>>
    /\ UNCHANGED <<chains, growth, end, scan, target, head, errors, clean, promised>>

\* The block after the last one below the target, which has to exist by now.
TimeEnds ==
    /\ pc = "time" /\ high < low
    /\ IF low <= latest THEN best' = low /\ pc' = "buffer"
                        ELSE best' = best /\ pc' = "failed"
    /\ UNCHANGED <<chains, growth, end, bounds, scan, target, head, history>>

\* Mutant: the buffer is added without the cap.
BufferUncapped ==
    /\ pc = "buffer"
    /\ head' = best + Buffer
    /\ pc' = "done"
    /\ UNCHANGED <<chains, growth, end, bounds, best, scan, target, history>>

\* calculate_safe_l1_head: some blocks more, up to the finalized block read last.
AddBuffer ==
    /\ pc = "buffer"
    /\ head' = Min({best + Buffer, finalized})
    /\ pc' = "done"
    /\ UNCHANGED <<chains, growth, end, bounds, best, scan, target, history>>

\* Any other call that fails fails the fetch.
FetchFails ==
    /\ pc \in {"estimate", "timestamp", "time", "buffer"}
    /\ Fail
    /\ pc' = "failed"
    /\ UNCHANGED <<chains, growth, end, bounds, best, scan, target, head>>

\* The proposer's next turn starts over, after a failure as after a success.
Again ==
    /\ pc \in {"done", "failed"}
    /\ pc' = "idle" /\ end' = None /\ head' = None /\ best' = None
    /\ UNCHANGED <<chains, growth, bounds, scan, target, history>>

-----------------------------------------------------------------------------

Host ==
    \/ AskFinalized \/ BeginBisect \/ Bisect \/ BisectEnds
    \/ Locate \/ LocateNothing \/ ScanFinds \/ ScanOn \/ ScanNothing
    \/ FindNothing \/ Request \/ SafeBegin \/ SafeProbe \/ NoSafeDB \/ SafeEnds
    \/ Estimate \/ TimeBegin \/ TimeProbe \/ TimeEnds \/ AddBuffer \/ Again

Next == Grow \/ Finalize \/ Host \/ ProbeFails \/ SafeFails \/ FetchFails

\* The host's task goes on; nothing is assumed of the chains or of failures.
Spec == Init /\ [][Next]_vars /\ WF_vars(Host)

-----------------------------------------------------------------------------
\* Properties

\* Types: block numbers stay within an unsigned integer, and a finished fetch has a head.
HostTypeOK ==
    /\ latest \in L1Blocks /\ finalized \in 0 .. latest
    /\ low \in U64 /\ high \in U64 /\ block \in U64
    /\ best \in U64 \cup {None} /\ end \in L2Blocks \cup {None}
    /\ head \in L1Blocks \cup {None}
    /\ pc \in {"idle", "bisect", "locate", "scan", "found", "origin", "safe", "estimate",
               "timestamp", "time", "buffer", "done", "failed"}
    /\ pc = "done" => head # None /\ end # None

\* No search passes below block zero (fetcher.rs:298 and 512, blobstream_utils.rs:303 and
\* 308), except the one of the Celestia host when L2's genesis block is the latest
\* proposed one: it has no Celestia data, and mid - 1 is then the largest integer.
OnlyGenesisWraps == wrapped => kind = "celestia" /\ proposed = 0

\* What the search for the highest provable block answers is committed through
\* Blobstream and, unless the search has wrapped, finalized
\* (blobstream_utils.rs:270-331), whatever happens meanwhile.
AnswerProvable ==
    pc = "found" /\ best # None =>
        /\ ~ wrapped => best <= FinalizedL2
        /\ kind = "celestia" => Available(best)

\* A search no call of which failed answers at least the highest block that could be
\* proved when it began, although availability grows between its probes
\* (blobstream_utils.rs:286-311).  A commitment that lies before the L1 block of its batch
\* is not found by a scan that starts there (line 99), and misleads the search like a
\* block that is not committed.
AnswerHighest ==
    pc = "found" /\ kind = "celestia" /\ clean /\ promised # None /\ Sighted(promised) =>
        best # None /\ promised <= best

\* The head before the buffer is the first L1 block the end block is safe at, or the
\* first one at or after the estimated time, although finality moves between the calls
\* that set the target, the search's bounds and the cap (fetcher.rs:261-312, 482-529).
HeadIsFirst ==
    pc = "buffer" =>
        best = IF target = 0 THEN post[end] ELSE Min({b \in L1Blocks : target <= time[b]})

\* The data of the end block can be derived from the L1 head of the host arguments:
\* its batch, and on Celestia its commitment, are at or below it.  The estimate keeps
\* this for batches posted within the delay only (fetcher.rs:535-569, host.rs:59-78).
HeadReachesEnd ==
    pc = "done" =>
        CASE kind = "celestia" -> post[end] <= head /\ Commit(end) = head
          [] kind = "ethereum" ->
                /\ head <= finalized
                /\ time[post[end]] <= L2Time(time, end) + Delay \/ ~ fallback
                      => post[end] <= head

\* An L2 block above the latest proposed one that is finalized, and on Celestia
\* committed, makes a fetch succeed eventually: a search ends, and a failed call
\* only delays it (proposer.rs:193-211, proof_requester.rs:73-81).  It takes a safeDB or
\* the fallback (fetcher.rs:531-534); on Celestia, that no commitment from the latest
\* proposed block on is overlooked.
Served ==
    IF kind = "ethereum" THEN safeDB \/ fallback ELSE Sighted(MaxL2)
Servable ==
    Served /\ \E x \in proposed + 1 .. FinalizedL2 : kind = "celestia" => Available(x)
FetchSucceeds == Servable ~> (pc = "done")
=============================================================================
