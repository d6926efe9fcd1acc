--------------------------- MODULE ValidityProposer ---------------------------
(***************************************************************************)
(* The validity proposer (op-succinct/validity): one process that runs     *)
(* run_loop_iteration over and over, the asynchronous tasks it spawns for  *)
(* proof requests, the requests table that outlives the process, and the   *)
(* output oracle it relays aggregation proofs to.                          *)
(*                                                                         *)
(* Every step of the loop is an action (or, where the code loops over rows *)
(* it has fetched, one action per row); the tasks, the chain and crashes   *)
(* interleave between them.                                                *)
(***************************************************************************)
EXTENDS RangePlanning, FiniteSets

CONSTANTS
    Configs,             \* commitments: (range vkey, rollup config hash) pairs
    RangeInterval,       \* range_proof_interval
    SubmissionInterval,  \* submission_interval of the proposer's configuration
    ContractInterval,    \* submissionInterval of the oracle
    MaxProofRequests,    \* max_concurrent_proof_requests
    MaxWitnessGen,       \* max_concurrent_witness_gen
    Proving,             \* "network", "mock" or "local"
    PromptTasks,         \* a spawned task does its first write before the loop's next turn
    OtherProposers,      \* whether somebody else may propose to the oracle
    Attempts,            \* bound: how many rows of equal blocks can be told apart
    MaxBlock,            \* bound: the highest block that gets finalized
    MaxFailures,         \* bound: how many proofs and tasks fail
    MaxCrashes           \* bound: how many times the process dies

ASSUME ConstantsAssumption ==
    /\ RangeInterval \in Nat \ {0}
    /\ SubmissionInterval \in Nat \ {0} /\ ContractInterval \in Nat \ {0}
    /\ MaxProofRequests \in Nat /\ MaxWitnessGen \in Nat
    /\ Proving \in {"network", "mock", "local"}
    /\ PromptTasks \in BOOLEAN /\ OtherProposers \in BOOLEAN
    /\ Configs # {}
    /\ MaxBlock \in Nat /\ MaxFailures \in Nat /\ MaxCrashes \in Nat

VARIABLES
    requests,   \* the table: for every row its status
    tasks,      \* running and unreaped tasks: <<row, holder>> -> phase
    pc,         \* the step run_loop_iteration is in
    worklist,   \* rows fetched by that step and not yet looked at
    planned,    \* the aggregation waiting for its checkpoint transaction
    relaying,   \* the aggregation waiting for its relay transaction
    receipt,    \* what became of that transaction
    config,     \* commitments of the running binary
    latest,     \* latestBlockNumber of the oracle
    finalized,  \* finalized L2 block
    mempool,    \* relay transactions sent and not mined
    landed,     \* aggregations the oracle has accepted
    failures, crashes   \* counters of the bounds

loopVars == <<pc, worklist, planned, relaying, receipt, config>>
chainVars == <<latest, finalized, mempool, landed>>
budgets == <<failures, crashes>>
vars == <<requests, tasks, loopVars, chainVars, budgets>>

-----------------------------------------------------------------------------
Status == {"Unrequested", "WitnessGeneration", "Execution", "Prove",
           "Complete", "Relayed", "Failed", "Cancelled"}
Active == {"Unrequested", "WitnessGeneration", "Execution", "Prove", "Complete"}
InFlight == {"WitnessGeneration", "Execution", "Prove"}
Unrecoverable == {"Unrequested", "WitnessGeneration", "Execution"}

\* A row of the table.  The attempt tells rows with the same blocks apart, as the
\* serial id of the table does.
Row == [type : {"Range", "Aggregation"}, start : Nat, end : Nat,
        config : Configs, attempt : Attempts]

\* A task is known by its row and by who holds its JoinHandle: the tasks map, or
\* nobody once another task has been inserted under the same id.
Task == Row \X {"handle", "detached"}
Running == {"spawned", "witness", "request"}
Finished == {"ok", "err"}
Handle(k) == <<k, "handle">>
Detached(k) == <<k, "detached">>

\* Rows with the given statuses and the running binary's commitments: the WHERE
\* clause every query of the loop shares.
With(S) == {k \in DOMAIN requests : k.config = config /\ requests[k] \in S}

RangesAfter(S, block) == {k \in With(S) : k.type = "Range" /\ k.start >= block}
AggregationsAfter(S, block) == {k \in With(S) : k.type = "Aggregation" /\ k.start >= block}

\* get_consecutive_complete_range_proofs
RangeProofs(s, e) == {k \in RangesAfter({"Complete"}, s) : k.end <= e}

-----------------------------------------------------------------------------
Unused(type, r) ==
    Attempts \ {k.attempt : k \in {q \in DOMAIN requests :
        q.type = type /\ q.start = r.start /\ q.end = r.end /\ q.config = config}}

\* The row inserted for the blocks r.
NewRow(type, r) ==
    [type |-> type, start |-> r.start, end |-> r.end, config |-> config,
     attempt |-> CHOOSE a \in Unused(type, r) : TRUE]

\* The bound on attempts leaves room for these rows.
Room(type, R) == \A r \in R : Unused(type, r) # {}

\* The table after some rows are set to Failed and new ones are inserted.
Table(failed, new) ==
    [k \in DOMAIN requests \cup new |->
        IF k \in new THEN "Unrequested"
        ELSE IF k \in failed THEN "Failed" ELSE requests[k]]

\* The COUNT of handle_failed_request, taken after k itself has been set to Failed.
FailedTwins(k) ==
    {q \in DOMAIN requests :
        /\ q.start = k.start /\ q.end = k.end /\ q.config = config
        /\ q = k \/ requests[q] \in {"Failed", "Cancelled"}}

MustSplit(k, unexecutable) ==
    /\ k.type = "Range" /\ k.end - k.start > 1
    /\ unexecutable \/ Cardinality(FailedTwins(k)) > 2

Halves(k) ==
    LET mid == (k.start + k.end) \div 2 IN {Span(k.start, mid), Span(mid, k.end)}

\* Mutant: the halves are inserted and the request they replace stays active.
HandleFailedUnmarked(k, unexecutable) ==
    IF MustSplit(k, unexecutable)
    THEN /\ Room("Range", Halves(k))
         /\ requests' = Table({}, {NewRow("Range", h) : h \in Halves(k)})
    ELSE requests' = Table({k}, {})

\* handle_failed_request when every call it makes succeeds.
HandleFailed(k, unexecutable) ==
    IF MustSplit(k, unexecutable)
    THEN /\ Room("Range", Halves(k))
         /\ requests' = Table({k}, {NewRow("Range", h) : h \in Halves(k)})
    ELSE requests' = Table({k}, {})

\* handle_failed_request when a call after its first write fails.
HandleFailedHalfway(k) == requests' = Table({k}, {})

Fail == failures < MaxFailures /\ failures' = failures + 1 /\ UNCHANGED crashes

-----------------------------------------------------------------------------
Init ==
    /\ requests = [k \in {} |-> "Unrequested"]
    /\ tasks = [t \in {} |-> "spawned"]
    /\ pc = "down" /\ worklist = {} /\ planned = {} /\ relaying = {}
    /\ receipt = "none" /\ config \in Configs
    /\ latest = 0 /\ finalized = 0 /\ mempool = {} /\ landed = {}
    /\ failures = 0 /\ crashes = 0

\* initialize_proposer: drop what cannot be recovered, whatever its commitments,
\* and cancel proofs requested under other commitments.
Start ==
    /\ pc = "down"
    /\ \E c \in Configs :
        /\ config' = c
        /\ requests' = [k \in {q \in DOMAIN requests : requests[q] \notin Unrecoverable} |->
                          IF requests[k] = "Prove" /\ k.config # c
                          THEN "Cancelled" ELSE requests[k]]
    /\ pc' = "sleep"
    /\ UNCHANGED <<tasks, worklist, planned, relaying, receipt, chainVars, budgets>>

\* A turn of the loop begins; handle_ongoing_tasks collects the finished handles.
Wake ==
    /\ pc = "sleep"
    /\ PromptTasks => \A t \in DOMAIN tasks : tasks[t] # "spawned"
    /\ pc' = "ongoing"
    /\ worklist' = {k \in DOMAIN requests :
                      Handle(k) \in DOMAIN tasks /\ tasks[Handle(k)] \in Finished}
    /\ UNCHANGED <<requests, tasks, planned, relaying, receipt, config, chainVars, budgets>>

\* handle_ongoing_tasks awaits one finished task; a failed one goes through
\* handle_failed_request, whose own errors are only logged.
Reap(k) ==
    /\ pc = "ongoing" /\ k \in worklist
    /\ worklist' = worklist \ {k}
    /\ tasks' = [t \in DOMAIN tasks \ {Handle(k)} |-> tasks[t]]
    /\ \/ tasks[Handle(k)] = "ok" /\ UNCHANGED requests
       \/ /\ tasks[Handle(k)] = "err"
          /\ \/ HandleFailed(k, FALSE)
             \/ HandleFailedHalfway(k)
             \/ UNCHANGED requests
    /\ UNCHANGED <<pc, planned, relaying, receipt, config, chainVars, budgets>>

\* set_orphaned_tasks_to_failed fetches the rows that should have a task.
FetchOrphans ==
    /\ pc = "ongoing" /\ worklist = {}
    /\ pc' = "orphans"
    /\ worklist' = With({"WitnessGeneration", "Execution"})
    /\ UNCHANGED <<requests, tasks, planned, relaying, receipt, config, chainVars, budgets>>

\* Mutants: every fetched row is failed, or none is.
FailOrphanAlways(k) ==
    /\ pc = "orphans" /\ k \in worklist
    /\ worklist' = worklist \ {k}
    /\ requests' = Table({k}, {})
    /\ UNCHANGED <<tasks, pc, planned, relaying, receipt, config, chainVars, budgets>>

FailOrphanNever(k) ==
    /\ pc = "orphans" /\ k \in worklist
    /\ worklist' = worklist \ {k}
    /\ UNCHANGED <<requests, tasks, pc, planned, relaying, receipt, config, chainVars, budgets>>

\* ... and fails those the tasks map does not know.
FailOrphan(k) ==
    /\ pc = "orphans" /\ k \in worklist
    /\ worklist' = worklist \ {k}
    /\ requests' = IF Handle(k) \in DOMAIN tasks THEN requests ELSE Table({k}, {})
    /\ UNCHANGED <<tasks, pc, planned, relaying, receipt, config, chainVars, budgets>>

\* handle_proving_requests fetches the rows in Prove, except in local proving.
FetchProving ==
    /\ pc = "orphans" /\ worklist = {}
    /\ pc' = "proving"
    /\ worklist' = IF Proving = "local" THEN {} ELSE With({"Prove"})
    /\ UNCHANGED <<requests, tasks, planned, relaying, receipt, config, chainVars, budgets>>

\* process_proof_request_status for a proof that is still being made.
PollPending(k) ==
    /\ pc = "proving" /\ k \in worklist
    /\ worklist' = worklist \ {k}
    /\ UNCHANGED <<requests, tasks, pc, planned, relaying, receipt, config, chainVars, budgets>>

\* ... for a fulfilled one polled before its deadline.
PollFulfilled(k) ==
    /\ pc = "proving" /\ k \in worklist
    /\ worklist' = worklist \ {k}
    /\ requests' = [requests EXCEPT ![k] = "Complete"]
    /\ UNCHANGED <<tasks, pc, planned, relaying, receipt, config, chainVars, budgets>>

\* ... for one past its deadline, fulfilled or not, or unfulfillable.  An error of
\* handle_failed_request ends the turn.
PollFailed(k) ==
    /\ pc = "proving" /\ k \in worklist
    /\ Fail
    /\ \/ /\ \E unexecutable \in BOOLEAN : HandleFailed(k, unexecutable)
          /\ pc' = pc /\ worklist' = worklist \ {k}
       \/ /\ HandleFailedHalfway(k)
          /\ pc' = "sleep" /\ worklist' = {}
    /\ UNCHANGED <<tasks, planned, relaying, receipt, config, chainVars>>

\* add_new_ranges: one transaction inserts a row for every planned range.
AddNewRanges ==
    /\ pc = "proving" /\ worklist = {}
    /\ LET new == RangesToProve(FindGaps(latest, finalized, RangesAfter(Active, latest)),
                                RangeInterval)
       IN  /\ Room("Range", new)
           /\ requests' = Table({}, {NewRow("Range", r) : r \in new})
    /\ pc' = "aggregation"
    /\ UNCHANGED <<tasks, worklist, planned, relaying, receipt, config, chainVars, budgets>>

\* The host sees no block finalized since the latest proposal.
NoNewFinalized ==
    /\ pc = "proving" /\ worklist = {}
    /\ pc' = "aggregation"
    /\ UNCHANGED <<requests, tasks, worklist, planned, relaying, receipt, config,
                   chainVars, budgets>>

-----------------------------------------------------------------------------
\* Mutant: an active aggregation does not keep another from being made.
WantsAggregationAgain(end) ==
    /\ end \in ContiguousEnds(RangesAfter({"Complete"}, latest))
    /\ end - latest >= SubmissionInterval /\ end - latest >= ContractInterval

\* create_aggregation_proofs goes on only if no aggregation from the latest
\* proposed block is active and the proven prefix is long enough.
WantsAggregation(end) ==
    /\ ~\E k \in AggregationsAfter(Active, latest) : k.start = latest
    /\ end \in ContiguousEnds(RangesAfter({"Complete"}, latest))
    /\ end - latest >= SubmissionInterval /\ end - latest >= ContractInterval

InsertAggregation(r) ==
    /\ Room("Aggregation", {r})
    /\ requests' = Table({}, {NewRow("Aggregation", r)})

NoAggregation ==
    /\ pc = "aggregation"
    /\ ~\E end \in ContiguousEnds(RangesAfter({"Complete"}, latest)) : WantsAggregation(end)
    /\ pc' = "queue"
    /\ UNCHANGED <<requests, tasks, worklist, planned, relaying, receipt, config,
                   chainVars, budgets>>

\* A failed aggregation of the same blocks already has a checkpointed L1 block.
ReuseCheckpoint ==
    /\ pc = "aggregation"
    /\ \E end \in ContiguousEnds(RangesAfter({"Complete"}, latest)) :
        /\ WantsAggregation(end)
        /\ \E k \in AggregationsAfter({"Failed"}, latest) : k.start = latest /\ k.end = end
        /\ InsertAggregation(Span(latest, end))
    /\ pc' = "queue"
    /\ UNCHANGED <<tasks, worklist, planned, relaying, receipt, config, chainVars, budgets>>

\* Otherwise a checkpointBlockHash transaction is sent and waited for.
SendCheckpoint ==
    /\ pc = "aggregation"
    /\ \E end \in ContiguousEnds(RangesAfter({"Complete"}, latest)) :
        /\ WantsAggregation(end)
        /\ ~\E k \in AggregationsAfter({"Failed"}, latest) : k.start = latest /\ k.end = end
        /\ planned' = {Span(latest, end)}
    /\ pc' = "checkpoint"
    /\ UNCHANGED <<requests, tasks, worklist, relaying, receipt, config, chainVars, budgets>>

\* The receipt arrives; the row is inserted with the blocks chosen before the wait.
Checkpointed ==
    /\ pc = "checkpoint"
    /\ \E r \in planned : InsertAggregation(r)
    /\ planned' = {} /\ pc' = "queue"
    /\ UNCHANGED <<tasks, worklist, relaying, receipt, config, chainVars, budgets>>

-----------------------------------------------------------------------------
\* Mutant: one request too many is admitted.
AtLimitLate ==
    \/ Cardinality(With(InFlight)) > MaxProofRequests
    \/ Cardinality(With({"WitnessGeneration"})) > MaxWitnessGen

AtLimit ==
    \/ Cardinality(With(InFlight)) >= MaxProofRequests
    \/ Cardinality(With({"WitnessGeneration"})) >= MaxWitnessGen

FirstOf(R) == {k \in R : IsFirst(k, R)}

\* Mutant: the aggregation is requested without validation.
NextRequestsUnvalidated ==
    LET aggs == FirstOf(AggregationsAfter({"Unrequested"}, latest))
    IN  aggs \cup IF aggs # {} THEN {} ELSE FirstOf(RangesAfter({"Unrequested"}, latest))

\* get_next_unrequested_proof: the lowest aggregation if its range proofs are
\* valid, else the lowest range.
NextRequests ==
    LET aggs == FirstOf(AggregationsAfter({"Unrequested"}, latest))
        valid == {a \in aggs : ValidAggregation(RangeProofs(a.start, a.end), a.start, a.end)}
    IN  valid \cup IF aggs # {} /\ aggs = valid THEN {}
                   ELSE FirstOf(RangesAfter({"Unrequested"}, latest))

\* request_queued_proofs spawns make_proof_request for it.  Inserting the handle
\* drops the one the map held under the same id; its task runs on.
RequestQueued ==
    /\ pc = "queue" /\ ~AtLimit
    /\ \E k \in NextRequests :
        LET old == {t \in {Handle(k)} \cap DOMAIN tasks : tasks[t] \in Running}
            dropped == {Detached(k) : t \in old}
        IN  /\ dropped \cap DOMAIN tasks = {}    \* bound: one dropped task per row
            /\ tasks' = [t \in DOMAIN tasks \cup {Handle(k)} \cup dropped |->
                           IF t = Handle(k) THEN "spawned"
                           ELSE IF t \in dropped THEN tasks[Handle(k)] ELSE tasks[t]]
    /\ pc' = "submit"
    /\ UNCHANGED <<requests, worklist, planned, relaying, receipt, config, chainVars, budgets>>

NothingQueued ==
    /\ pc = "queue" /\ (AtLimit \/ NextRequests = {})
    /\ pc' = "submit"
    /\ UNCHANGED <<requests, tasks, worklist, planned, relaying, receipt, config,
                   chainVars, budgets>>

\* submit_agg_proofs sends a completed aggregation that starts at the latest
\* proposed block.
SendRelay ==
    /\ pc = "submit"
    /\ \E k \in AggregationsAfter({"Complete"}, latest) :
        /\ k.start = latest
        /\ relaying' = {k}
        /\ mempool' = mempool \cup {[aggregation |-> k, awaited |-> TRUE]}
    /\ pc' = "receipt"
    /\ UNCHANGED <<requests, tasks, worklist, planned, receipt, config, latest,
                   finalized, landed, budgets>>

NothingToRelay ==
    /\ pc = "submit"
    /\ ~\E k \in AggregationsAfter({"Complete"}, latest) : k.start = latest
    /\ pc' = "sleep"
    /\ UNCHANGED <<requests, tasks, worklist, planned, relaying, receipt, config,
                   chainVars, budgets>>

\* Mutant: any receipt is taken for success.
ConfirmRelayUnchecked ==
    /\ pc = "receipt" /\ receipt # "none"
    /\ \E k \in relaying : requests' = [requests EXCEPT ![k] = "Relayed"]
    /\ relaying' = {} /\ receipt' = "none" /\ pc' = "sleep"
    /\ UNCHANGED <<tasks, worklist, planned, config, chainVars, budgets>>

\* The receipt shows success: update_request_to_relayed.
ConfirmRelay ==
    /\ pc = "receipt" /\ receipt = "landed"
    /\ \E k \in relaying : requests' = [requests EXCEPT ![k] = "Relayed"]
    /\ relaying' = {} /\ receipt' = "none" /\ pc' = "sleep"
    /\ UNCHANGED <<tasks, worklist, planned, config, chainVars, budgets>>

\* Mutant: the rows a turn has fetched survive its error.
ForgetAllButWorklist ==
    /\ worklist' = worklist /\ planned' = {} /\ relaying' = {} /\ receipt' = "none"
    /\ mempool' = {[aggregation |-> x.aggregation, awaited |-> FALSE] : x \in mempool}

\* The turn's local state is gone; a relay transaction it waited for is not.
Forget ==
    /\ worklist' = {} /\ planned' = {} /\ relaying' = {} /\ receipt' = "none"
    /\ mempool' = {[aggregation |-> x.aggregation, awaited |-> FALSE] : x \in mempool}

\* The receipt shows a revert: the row stays Complete and the turn ends.
RelayReverted ==
    /\ pc = "receipt" /\ receipt = "reverted"
    /\ pc' = "sleep" /\ Forget
    /\ UNCHANGED <<requests, tasks, config, latest, finalized, landed, budgets>>

\* Any call of a step may fail: RPC, database, a checkpoint transaction that reverts, a
\* receipt that does not come in time.  The error ends the turn.  (handle_ongoing_tasks
\* swallows its own.)
LoopError ==
    /\ pc \notin {"down", "sleep"} /\ receipt # "reverted"
    /\ pc = "ongoing" => worklist = {}
    /\ pc' = "sleep" /\ Forget
    /\ UNCHANGED <<requests, tasks, config, latest, finalized, landed, budgets>>

\* The process dies, and its tasks with it.
Crash ==
    /\ pc # "down" /\ crashes < MaxCrashes
    /\ crashes' = crashes + 1
    /\ pc' = "down" /\ Forget
    /\ tasks' = [t \in {} |-> "spawned"]
    /\ UNCHANGED <<requests, config, latest, finalized, landed, failures>>

-----------------------------------------------------------------------------
\* The task t comes to a phase; a detached task that is over leaves no trace.
Becomes(t, phase) ==
    tasks' = IF t[2] = "detached" /\ phase \in Finished
             THEN [u \in DOMAIN tasks \ {t} |-> tasks[u]]
             ELSE [tasks EXCEPT ![t] = phase]

\* make_proof_request sets the row to WitnessGeneration, whatever it was.
TaskBegin(t) ==
    /\ tasks[t] = "spawned"
    /\ requests' = [requests EXCEPT ![t[1]] = "WitnessGeneration"]
    /\ Becomes(t, "witness")
    /\ UNCHANGED <<loopVars, chainVars, budgets>>

\* The witness is there; in mock mode the row goes to Execution.
TaskWitness(t) ==
    /\ tasks[t] = "witness"
    /\ requests' = IF Proving = "mock" THEN [requests EXCEPT ![t[1]] = "Execution"]
                   ELSE requests
    /\ Becomes(t, "request")
    /\ UNCHANGED <<loopVars, chainVars, budgets>>

\* The proof is requested from the network, or made here in mock and local mode.
TaskFinish(t) ==
    /\ tasks[t] = "request"
    /\ requests' = [requests EXCEPT ![t[1]] =
                      IF Proving = "network" THEN "Prove" ELSE "Complete"]
    /\ Becomes(t, "ok")
    /\ UNCHANGED <<loopVars, chainVars, budgets>>

\* Any call of the task fails, or it panics.
TaskFail(t) ==
    /\ tasks[t] \in Running
    /\ Fail
    /\ Becomes(t, "err")
    /\ UNCHANGED <<requests, loopVars, chainVars>>

-----------------------------------------------------------------------------
\* More L2 blocks are finalized.
Finalize ==
    /\ \E b \in finalized + 1 .. MaxBlock : finalized' = b
    /\ UNCHANGED <<requests, tasks, loopVars, latest, mempool, landed, budgets>>

\* A relay transaction is mined.  The oracle verifies the proof against its latest
\* output, so that only an aggregation starting there is accepted; the sender's
\* earlier transactions have lower nonces and come first.
Mine(x) ==
    /\ x \in mempool
    /\ x.awaited => \A y \in mempool : y.awaited
    /\ mempool' = mempool \ {x}
    /\ LET accepted == /\ x.aggregation.start = latest
                       /\ x.aggregation.end >= latest + ContractInterval
       IN  /\ latest' = IF accepted THEN x.aggregation.end ELSE latest
           /\ landed' = IF accepted THEN landed \cup {x.aggregation} ELSE landed
           /\ receipt' = IF ~x.awaited THEN receipt
                         ELSE IF accepted THEN "landed" ELSE "reverted"
    /\ UNCHANGED <<requests, tasks, pc, worklist, planned, relaying, config, finalized,
                   budgets>>

\* Another approved proposer's output is accepted.
ProposeElsewhere ==
    /\ OtherProposers
    /\ \E b \in latest + ContractInterval .. finalized : latest' = b
    /\ UNCHANGED <<requests, tasks, loopVars, finalized, mempool, landed, budgets>>

-----------------------------------------------------------------------------
\* What a turn of the loop does when no call fails.
LoopProgress ==
    \/ Start \/ Wake \/ FetchOrphans \/ FetchProving
    \/ \E k \in worklist : Reap(k) \/ FailOrphan(k)
    \/ \E k \in worklist : PollPending(k) \/ PollFulfilled(k)
    \/ AddNewRanges \/ NoNewFinalized
    \/ NoAggregation \/ ReuseCheckpoint \/ SendCheckpoint \/ Checkpointed
    \/ RequestQueued \/ NothingQueued
    \/ SendRelay \/ NothingToRelay \/ ConfirmRelay \/ RelayReverted

LoopFailure == LoopError \/ Crash \/ \E k \in worklist : PollFailed(k)

TaskProgress == \E t \in DOMAIN tasks : TaskBegin(t) \/ TaskWitness(t) \/ TaskFinish(t)
TaskFailure == \E t \in DOMAIN tasks : TaskFail(t)

ChainStep == Finalize \/ (\E x \in mempool : Mine(x)) \/ ProposeElsewhere

Next == LoopProgress \/ LoopFailure \/ TaskProgress \/ TaskFailure \/ ChainStep

Spec == Init /\ [][Next]_vars

\* The process is scheduled (and restarted), the runtime polls its tasks, blocks are
\* finalized and sent transactions mined.  A proof that is polled again and again is in
\* the end fulfilled, a host asked again and again in the end sees the new finalized
\* block, and from some time on no call of the loop fails.  Nothing is assumed of other
\* proposers.
Fairness ==
    /\ WF_vars(LoopProgress)
    /\ SF_vars(\E k \in worklist : PollFulfilled(k))
    /\ SF_vars(AddNewRanges)
    /\ WF_vars(TaskProgress)
    /\ WF_vars(\E x \in mempool : Mine(x))
    /\ WF_vars(Finalize)
    /\ <>[][LoopError => NothingToRelay]_vars   \* both end a turn with nothing to relay

FairSpec == Spec /\ Fairness

-----------------------------------------------------------------------------
\* Types, and which step of the turn each local variable belongs to: nothing a turn has
\* fetched or decided is left over when the next one begins.
TypeOK ==
    /\ requests \in [DOMAIN requests -> Status] /\ DOMAIN requests \subseteq Row
    /\ tasks \in [DOMAIN tasks -> Running \cup Finished] /\ DOMAIN tasks \subseteq Task
    /\ pc \in {"down", "sleep", "ongoing", "orphans", "proving", "aggregation",
               "checkpoint", "queue", "submit", "receipt"}
    /\ worklist \subseteq Row /\ (worklist # {} => pc \in {"ongoing", "orphans", "proving"})
    /\ planned \subseteq [start : Nat, end : Nat] /\ (planned # {} => pc = "checkpoint")
    /\ relaying \subseteq Row /\ (relaying # {} => pc = "receipt")
    /\ receipt \in {"none", "landed", "reverted"} /\ (receipt # "none" => pc = "receipt")
    /\ mempool \subseteq [aggregation : Row, awaited : BOOLEAN]
    /\ \A x \in mempool : x.awaited => receipt = "none" /\ relaying = {x.aggregation}
    /\ landed \subseteq Row
    /\ config \in Configs
    /\ latest \in Nat /\ finalized \in Nat
    /\ failures \in 0 .. MaxFailures /\ crashes \in 0 .. MaxCrashes

\* The active range requests above the latest proposed block, of one commitment.
LiveRanges(c) ==
    {k \in DOMAIN requests : /\ k.type = "Range" /\ k.config = c
                             /\ requests[k] \in Active /\ k.start >= latest}

\* Failures, splits, re-insertions and restarts never leave two active requests that
\* prove the same block: what find_gaps, the contiguity scan and
\* validate_aggregation_request rely on.  It holds as long as every output that is
\* accepted is the proposer's own and of one commitment.  An output that ends inside an
\* active range sends add_new_ranges back to blocks which the upper half of that range,
\* should it fail and be split, proves as well.
RangesDisjoint == \A c \in Configs : Disjoint(LiveRanges(c))

\* An aggregation that is under way or proven, and can still be relayed, is tiled
\* exactly by the complete range proofs that agg_proof_witnessgen reads for it,
\* although these are read again long after they were validated.
AggregationsTiled ==
    \A k \in DOMAIN requests :
        /\ k.type = "Aggregation" /\ k.start >= latest
        /\ requests[k] \in InFlight \cup {"Complete", "Relayed"}
        => ValidAggregation({r \in LiveRanges(k.config) :
                               /\ requests[r] = "Complete"
                               /\ r.start >= k.start /\ r.end <= k.end}, k.start, k.end)

\* At most one aggregation from one start block is pending at a time, across the wait
\* for its checkpoint, retries and restarts.
OneAggregation ==
    \A k, l \in DOMAIN requests :
        /\ k.type = "Aggregation" /\ l.type = "Aggregation"
        /\ requests[k] \in Active /\ requests[l] \in Active
        /\ k.config = l.config /\ k.start = l.start
        => k = l

\* Tasks that count against max_concurrent_witness_gen.  In mock mode a task goes on after
\* its witness, and its row in Execution counts against the other limit only.
Witnessing ==
    {t \in DOMAIN tasks :
        tasks[t] \in IF Proving = "mock" THEN {"spawned", "witness"} ELSE Running}

\* The two limits of request_queued_proofs hold for the rows in flight and for the
\* tasks that are really running.
WithinLimits ==
    /\ Cardinality(With(InFlight)) <= MaxProofRequests
    /\ Cardinality({t \in DOMAIN tasks : tasks[t] \in Running}) <= MaxProofRequests
    /\ Cardinality(Witnessing) <= MaxWitnessGen

\* A row is Relayed only if the oracle accepted its aggregation, whatever became of
\* the receipt, the process or the proposals of others.
RelayedLanded == \A k \in DOMAIN requests : requests[k] = "Relayed" => k \in landed

\* No step undoes an outcome: a proof once complete is not lost or requested again,
\* and a failed or cancelled request does not come back to life.
OutcomesFinal ==
    [][\A k \in DOMAIN requests :
         requests[k] \in {"Complete", "Relayed", "Failed", "Cancelled"} =>
           /\ k \in DOMAIN requests'
           /\ \/ requests'[k] = requests[k]
              \/ requests[k] = "Complete" /\ requests'[k] = "Relayed"]_vars

\* Whatever fails, dies or gets lost a bounded number of times, the oracle in the end
\* holds an output for all finalized blocks but fewer than a submission interval.
EverythingProposed ==
    <>[](MaxBlock - latest < SubmissionInterval \/ MaxBlock - latest < ContractInterval)
=============================================================================
