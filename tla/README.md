# TLA+ specifications of mina-evm-l2

The repository settles an OP-Stack L2 on L1 with SP1 proofs (`src/op-succinct`) and
carries the resulting proofs on to Mina (`src/zk-program`).  These specifications are
about the parts that keep state and decide things: the off-chain proposers, the
contracts they talk to, the services between, and what the zkVM programs promise of a
proof.  How a block is derived and executed inside those programs is data to them.

## Inventory

Paths are under `src/`.

| Component | State | Operations | Meets |
|---|---|---|---|
| **Validity proposer** `op-succinct/validity` | `requests` and `chain_locks` tables (Postgres); in memory a map of spawned tasks | the steps of `run_loop_iteration`; `make_proof_request` tasks; `initialize_proposer` | oracle (RPC, transactions), proving network (polling), its own tasks through the table |
| **L2 output oracle** `contracts/src/validity/OPSuccinctL2OutputOracle.sol` | outputs, checkpointed block hashes, configurations, approved proposers, optimistic flag | `proposeL2Output`, `checkpointBlockHash`, `deleteL2Outputs`, admin | validity proposers, challenger address, owner |
| **Validity dispute game** `OPSuccinctDisputeGame.sol` | status | `initialize` (proposes to the oracle), `resolve` | oracle, game factory |
| **Fault dispute game** `contracts/src/fp` | claim (parent, prover, counterer, status, deadline), credits, distribution mode, wins and losses of the parent | `initialize`, `challenge`, `prove`, `resolve`, `closeGame`, `claimCredit` | registry, factory, parent game |
| **Fault-proof proposer** `fault-proof/src` | map of tasks (creation, defence, resolution, bond claiming) | one tick of the loop per interval | factory and games |
| **Challenger** `fault-proof/bin/challenger.rs` | none | challenge the oldest invalid game, resolve, claim | factory and games |
| **Signer** `utils/signer` | none | send a transaction, wait for its receipt with a timeout | every sender |
| **Proof conversion service** `proof-conversion-service` | set of processed file names | scan, watch, convert | files written by the proposer, read by the Mina side |
| **Mina settlement** `zk-program/index.ts`, `run.ts` | settled state on chain | initialize, update, each with a recursive proof | converted proofs |
| **zkVM programs** `programs`, `utils/client` | none | the range program proves a stretch of blocks, the aggregation program links such proofs | oracle and games, through the verifier |
| **Host utilities** `utils/host`, `utils/ethereum`, `utils/celestia` | none between calls | searches for the highest provable L2 block and for the L1 head of a request | L1, L2 and Celestia nodes, both proposers |
| Scripts, example application, dashboards | – | I/O | – |

What is hard in them:

* The validity proposer is one loop plus tasks which it does not wait for.  Both write
  the same rows.  A row's status, the task that serves it and the loop's picture of the
  two drift apart whenever a task fails, a database call fails after another succeeded,
  or the process dies.
* It asks L1 and the proving network, decides, waits for a transaction, and acts on what
  it had decided.  Receipts time out while transactions are mined later; other proposers
  may move the oracle in between.
* Progress depends on a chain of repairs: failed rows leave gaps, gaps are planned again,
  repeated failures are split in two, orphaned rows are failed.  One repair that does not
  fit leaves the proposer waiting for ever.
* The games of the fault-proof system form a tree whose bonds depend on the parent's
  outcome; proposer and challenger look at a bounded window of them, one game at a time,
  with another clock than that of the contracts, and under deadlines.
* The oracle's outputs can be deleted, its period, interval, mode and owner changed between
  any two proposals.
* A host finds every answer by a search of many RPC calls, while the chains grow under the
  search and any call may fail.
* The conversion service learns of files from a scan and from a watcher, which do not
  quite meet.

What makes each correct:

* planning: no block is requested twice, no block forgotten;
* proposer: outcomes are final; an aggregation is made of exactly the ranges it needs;
  one aggregation at a time; the concurrency limits; a row is Relayed only if its output
  was accepted; every finalized block is in the end proposed;
* oracle: outputs are an ordered chain that grows at its end; proofs alone lead only from
  roots of the chain to roots of the chain; nothing final is lost;
* games: resolved once and consistently with the parent; bonds conserved and paid once;
* proposer and challenger of the games: wrong games are challenged and right ones proven
  in time; everything is in the end resolved and paid;
* hosts: what is planned can be derived from the L1 head that is chosen for it;
* services: every file converted; every settlement built on the one before.

`PROJECT.json` lists the hazards line by line, each with the properties that cover it.

## Modules

    RangePlanning <---- RangePlanner <-- RangePlannerProofs    (loops against sets; TLAPS)
          ^
          |
    ValidityProposer <-- MCValidityProposer               (symmetry for TLC)
          ^
          +------------- ValidityProposerProofs           (TLAPS)

    ChainLock

    FaultDisputeGame <-- FaultDisputeGameProofs           (TLAPS)
          ^                        ^
          |                        |
    FaultProofActors <-- FaultProofActorsProofs           (TLAPS)

    ProofPrograms <----- OutputOracle <-- OutputOracleProofs   (TLAPS)
                              |
                         OutputChain (refined by the oracle)

    ProofConversion <--- MinaSettlement <-- MinaSettlementProofs   (TLAPS)

    HostSearch <-- HostSearchProofs                       (TLAPS)

An arrow is EXTENDS; OutputOracle takes OutputChain by INSTANCE with a refinement mapping.
All modules of proofs but MinaSettlementProofs also extend **NaturalLemmas**: least and greatest
elements, multiples, and induction over the naturals.

**RangePlanning** states `find_gaps`, `get_ranges_to_prove`, the scan for the highest
proven contiguous block and `validate_aggregation_request` as sets of records with a start
and an end, without recursion.  **RangePlanner** runs the source's loops, one iteration a
step, from every sorted list of requests the query can return (they may overlap and
nest), so that the sets the large model uses are themselves checked against the code.

**ValidityProposer** is the proposer.  Correspondence:

| Variable | Code |
|---|---|
| `requests` | the `requests` table: row to status.  A row is its type, blocks, commitments and an `attempt` in place of the serial id |
| `tasks` | `Proposer::tasks` and the spawned futures.  `<<row, "handle">>` is in the map; `<<row, "detached">>` still runs but its handle was overwritten by a second `insert` under the same id |
| `pc`, `worklist`, `planned`, `relaying`, `receipt` | where `run_loop_iteration` is and its locals: the rows a step has fetched, the aggregation waiting for its checkpoint or relay transaction, what became of the latter |
| `config` | `CommitmentConfig` of the running binary |
| `latest`, `finalized`, `mempool`, `landed` | the oracle's `latestBlockNumber`, the finalized L2 head, relay transactions sent and not yet mined, aggregations accepted |

| Step of the turn | Actions |
|---|---|
| start of the process | `Start` (`initialize_proposer`) |
| `handle_ongoing_tasks` | `Wake`, `Reap` per finished handle, with `handle_failed_request` succeeding, failing after its first write, or failing at once |
| `set_orphaned_tasks_to_failed` | `FetchOrphans`, `FailOrphan` per row |
| `handle_proving_requests` | `FetchProving`; `PollPending`, `PollFulfilled`, `PollFailed` per row |
| `add_new_ranges` | `AddNewRanges`, `NoNewFinalized` |
| `create_aggregation_proofs` | `NoAggregation`, `ReuseCheckpoint`, `SendCheckpoint` then `Checkpointed` |
| `request_queued_proofs` | `RequestQueued`, `NothingQueued` |
| `submit_agg_proofs` | `SendRelay` then `ConfirmRelay` or `RelayReverted`; `NothingToRelay` |
| an error in any of them | `LoopError`: the turn ends, its locals are lost, its transaction is not |
| `make_proof_request` | `TaskBegin`, `TaskWitness`, `TaskFinish`, `TaskFail` |
| outside | `Crash`, `Finalize`, `Mine`, `ProposeElsewhere` |

The sleeping state `pc = "sleep"` also stands for a turn that fails in
`validate_contract_config` or `log_proposer_metrics`, which change no request: such a turn
is as good as a longer sleep.  `add_new_ranges` is one action although it reads the oracle,
the host and the table in turn: no other step of the loop runs meanwhile, and tasks move
rows only among statuses that count as active, or leave it to the loop to fail them.
`Mine` folds the proof's verification and the contract's interval check into one guard: an
aggregation is accepted if it starts at the latest output and is long enough.

**ChainLock** is the lock of `chain_locks`, with the database's clock.

**FaultDisputeGame** is the tree of dispute games.  One record of `games` is one contract:

| Field | Code |
|---|---|
| `parent`, `creator`, `claim`, `block` | the immutable arguments; 0 is `uint32.max`, so a game's number is its index plus one |
| `startRoot`, `startBlock` | `startingOutputRoot` |
| `counteredBy`, `prover`, `proposal` | `claimData` (`proposal` is its `status`) |
| `status`, `wasRespected`, `mode` | `status`, `wasRespectedGameTypeWhenCreated`, `bondDistributionMode` |
| `normalModeCredit`, `refundModeCredit`, `balance` | the mappings and `address(this).balance` |
| `timeLeft`, `sinceResolved` | `deadline` and `resolvedAt` less the time of the block |
| `sound` | whether a proof from `startRoot` to `claim` exists: decided once, when the game is opened |

`anchor` and `disowned` (blacklisted or retired) belong to the anchor state registry, which
is not in the repository; `sinceLast` is what `AccessManager` computes from the factory.
Each of `initialize`, `challenge`, `prove`, `resolve`, `closeGame` and `claimCredit` is one
action, as each is one transaction; `claimCredit` closes the game first, as the code does.
An output root is known by what it is to someone who has executed the chain:

| Root | Meaning |
|---|---|
| `"right"` | the root of the block it is claimed for |
| `"misplaced"` | the root of another block of the chain |
| `"wrong"` | no root of the chain |

The range program compares roots and not block numbers, and stops early when the data below
the game's L1 head ends (`client.rs:84-91`, `executor.rs:155`, `boot.rs:48`).  So from a root of
the chain a misplaced claim may have a proof, and if it is challenged it can be proven and
win; a right one need not have one; a wrong one has none.  From a wrong root a proof leads at most to
another wrong one.  Whether one exists is chosen when the game is opened.  Time is
relative and saturates where it stops to matter, so a behaviour never runs out of it.
Whether the game's type is the respected one when a game is opened, and which games the
guardian disowns and when, is left open.

**FaultProofActors** puts the two programs on top of the games; every action of the games
that one of them takes is the same action, taken under the program's own conditions.

| Variable | Code |
|---|---|
| `at` | which pending operation of its turn a program is at; `"idle"` is its sleep |
| `creation`, `proving` | the tasks in the proposer's map that outlive a turn: a game about to be created (and, from its receipt on, the game), proofs under way with their age and what began them |
| `orphaned` | creations sent by tasks that failed or were lost in a restart; they are executed late or never |
| `cursor` | the loop over games in `resolve_games`, with the bound it read when it began |
| `errors`, `outside` | counters of the bounds on failing calls and on other users |

| Code | Actions |
|---|---|
| `spawn_game_creation_task`, `create_game` | `DecideCreation`, then `CreateGame`, the transaction, which the factory or the game may refuse (`RefusesCreation`), then `CreationEnds` after the receipt, which with fast finality begins a proof; `CreateLate` for a transaction nobody waits for |
| `spawn_game_defense_tasks`, `prove_game` | `Defend`, then `FinishProof` |
| `resolve_games`, `try_resolve_games` | `BeginResolution`, `ResolveNext`, `ResolutionEnds` |
| `handle_bond_claiming` | `ClaimBond` |
| `handle_game_challenging` and the malicious variant | `ChallengeOldest` |
| errors, failed tasks, restart | `StepFails`, `TaskFails`, `Restart` |
| other users of the contracts | `Outside` |

The functions of `lib.rs` that pick a game (`get_oldest_*`, `get_latest_valid_proposal`) are
one read each: they read game after game, but only things that do not go back while a
program is at work (a passed deadline stays passed, a challenge stays).  The clock by which a deadline is judged is
that of the latest L2 block, not L1's; `Skews` is the difference, chosen anew at every look (one unit in the runs).
`Heads` is the latest block of a program's L2 node, chosen anew at every look too: computing the root of a
block above it fails and ends the look (`lib.rs:482`), so that a game on such a block, which anybody
who may propose can open, hides the games behind it from challenge and defence.  `Known(block)` says that
every node has a block at every look, `Seen(g)` that no look fails before it gets to g.  Outsiders choose from
`OutsiderBlocks`, in the run with a block no node has.  Between a creation's transaction and the fast-finality
proof it begins lie the receipt and a call (`proposer.rs:300-330`, 780-828), and nothing asks whether the game is being
proven already: the defence may have begun a proof meanwhile.  `origin` tells the two apart.  Of a proof under way
that a restart forgets, a challenge, resolution or claim that is executed late, nothing is kept: it is what a later turn does,
or is refused.  The model assumes that the game type
stays the respected one, and that no game is disowned here (FaultDisputeGame has that).  Time waits for
both programs to end a turn and for proofs older than `ProveTime`.

**ProofPrograms** is what a proof says: the outputs a range program can commit to, given the
block the data of its L1 head ends at, and the checks of the aggregation program over a
list of them.  A root is the number of the block whose root it is, or `Wrong`.  The range
program that runs out of data stops early and its claim is then judged against the earlier
block, so a root may be older than the block number it is proposed for; the soundness
properties say exactly that.  It starts from the preimage of the agreed root
(`executor.rs:53`).  `Wrong` stands for roots with a preimage somebody made up and for those with none, and what can be
proven from it is the most that may be: soundness can rest on it, the existence of a proof
cannot, and `FallbackOpens` asks for a latest root of the chain.

**OutputOracle** is `OPSuccinctL2OutputOracle.sol`: one action for each function that writes
state, with the caller's rights as guards, and `SearchIndex`, the loop of
`getL2OutputIndexAfter` as a recursive function over pairs of bounds.  `DisputeGame` proposals reach the oracle
through `OPSuccinctDisputeGame.initialize`, which is then the sender.  **OutputChain** is
what a reader of the oracle relies on: a list that grows at its end, of which only what
is not final can be taken back.  `ChainSpec` states that the oracle implements it, with the
finality of the moment: `enableOptimisticMode` and its inverse change the period, and may make a
final output not final again.

**ProofConversion** is `proof-conversion-service/src/index.js`, with the external writer of
the proof files: a file is begun, then complete; the service scans, watches, and converts in
three parts that may interleave between files (an `await` between them) and fail.  The scan itself may fail, which is
only logged: the service goes on to watch, and the files that are there wait for the next start.  A
restart loses the set of processed files and converts everything again.  **MinaSettlement**
composes it with the recursive program and the contract: senders read the state, prove, and
send; a transaction is executed later against the state of then.  `ProvesUpdate` is what the recursive program
checks: the proof of the state before, and the previous root of the inputs.  The rest of the inputs is the
prover's word, as the verification of the external proof is a TODO in `zk-program/index.ts:113`: `Others` send any
initialization and any update, and may set any state.  `Operators` take their inputs from converted proofs, and
`SettledInOrder` is about their transactions alone.

**HostSearch** is what both proposers ask before they plan and before they prove.

| Variable | Code |
|---|---|
| `kind` | which host the binary was built with |
| `low`, `high`, `best`, `wrapped` | locals of the binary searches; `mid - 1` is unsigned |
| `block`, `cursor`, `upto` | the lookup of one L2 block on Celestia: locals of `find_minimum_blobstream_block` |
| `target`, `head` | the estimate's timestamp; the L1 head of the host arguments |
| `safeDB`, `fallback` | whether the L2 node has its safeDB; the flag `SAFE_DB_FALLBACK` |
| `time`, `post`, `height`, `commits` | the chains: L1 timestamps; the L1 block and the Celestia height of each L2 block's batch; the height Blobstream had come to at each L1 block |
| `promised`, `clean` | history: the answer that was possible when the search began, and whether a call has failed since |

The indexer names both the L1 block of a batch and its Celestia height.  The event looked for is the one that covers the height
(`blobstream_utils.rs:62-63`), and the scan for it starts at the L1 block (line 99).  The two are independent: where
Blobstream commits to the height before the batch's L1 block, the block is `Overlooked`.

`pc` is the RPC call the task makes next.  A call reads the chains as they are then, so the
finalized block that bounds a search may be older than the one that caps its result.

## Runs

| Run | Module, instance | Checks | Distinct states |
|---|---|---|---|
| `range_planner` | RangePlanner; blocks 0..6, up to 3 requests, interval 3 | `LoopsMatchSets`, `ScansMatchSets`, `PlanIsSound` | 230 000 |
| `ranges` | ValidityProposer; one commitment, blocks 0..4, 3 failures, 1 crash, nobody else proposes | `RangesDisjoint`, `AggregationsTiled` | 600 000 |
| `configs` | MCValidityProposer; two interchangeable commitments, others propose, 1 failure, 1 crash | `TypeOK`, `OneAggregation`, `WithinLimits`, `OutcomesFinal` | 2 700 000 |
| `recovery` | ValidityProposer with fairness; blocks 0..3, others propose, 1 failure, 1 crash | `RelayedLanded`, `EverythingProposed` | 200 000 |
| `disputes` | FaultDisputeGame; two accounts, one whitelisted to propose and one to challenge, blocks 0..2, 2 games | `TypeOK`, `Solvent`, `WrongNeedsSlip`, `OutcomesJustified` | 6 340 000 |
| `fault_actors` | FaultProofActors with fairness; 2 games, blocks 1..4 of which the nodes have 3, a malicious challenger, 2 outside operations, 1 error | `ActorsTypeOK`, `WrongChallenged`, `RightDefended`, `EverySettled` | 1 430 000 |
| `oracle` | OutputOracle; blocks 0..2, 3 outputs, times 0..4, two configurations, intervals 0 and 1, periods 1 and 3 | `OracleTypeOK`, `OutputsOrdered`, `SearchFindsFirst`, `ProvenSound`, `FallbackOpens`, `ChainSpec` | 166 000 |
| `mina` | MinaSettlement with fairness; blocks 0..2, 2 proof files and a misnamed one, 2 operators, 1 transaction of another sender, 1 failure, 1 restart | `ConversionTypeOK`, `EveryFileConverted`, `SettledInOrder`, `ConvertedSettled` | 978 000 |
| `host_search` | HostSearch with fairness; L1 blocks 0..4, L2 blocks 0..3, Celestia heights 0..2, integers up to 7, 1 failing call | `HostTypeOK`, `OnlyGenesisWraps`, `AnswerProvable`, `AnswerHighest`, `HeadIsFirst`, `HeadReachesEnd`, `FetchSucceeds` | 2 000 000 |
| `straddle`, `chain_lock`, `stalled` | see Findings | one property each, violated | |

Bounds.  `MaxBlock` 4 with intervals of 2 gives two ranges to an output and two outputs, a
range that can be split, and aggregations of one or two ranges; 3 with `RangeInterval` 1 and
`ContractInterval` 2 gives outputs of two or three ranges and a tail too short for one.
Three failures are what a range needs to be split by count (more than two failed rows with
its blocks); a split by an unexecutable proof needs one.  One crash is enough to meet every
point between two writes.  Errors of the loop are not bounded.  `Attempts` bounds how many
rows have the same blocks; actions that would need another wait.  The requests that
`RangePlanner` enumerates include nested, equal and too-far ones, three being enough for a
nested range between two others.  `RangePlanner` and `ChainLock` end (the algorithm
returns, the clock is bounded), so deadlock is checked for everywhere else only.

For the games, `MaxBlock` and `MaxGames` 2 give two games side by side on the anchor, a
chain of parent and child, and a game opened on an anchor the other has moved.  With no unit to challenge and one to
prove there are a last moment and a moment too late for each; the fallback
timeout of 1 lets the account that is not whitelisted propose, and prove its own or the
other's game.  `InitBond` and `ChallengerBond` differ so that a credit of one is not taken
for the other.  Larger trees are what the theorems are for.

For the two programs, `ChallengeDuration` 4 and `ProveDuration` 6 are the shortest the theorems
allow.  With 3 units to challenge TLC finds a wrong game that is reached too late; with 5 to prove it finds one
where outsiders may challenge, too (`Challengers` with `other`), so that two games are challenged at once, and with 4 also
where they may not, as in the run.  The skew, a
turn that fails, every game ahead in the queue and every proof waited for take their share; an operator has to
leave as much room in real durations.  `Window` 2 covers every
game: a game that leaves the window (`max_games_to_check_*`) unresolved is looked at by no one.
`Heads` {3} and `OutsiderBlocks` {1, 2, 4} let the proposer's next game be on blocks 1 and 2 and an outsider's in front of it, on the same
block, or on one the node has not got.  Two games have one successor between them, so of the
order in which parents and children are resolved little is exercised.  The run is without fast finality, with which every
game of the proposer is one the programs never resolve (`stalled`); the theorems cover both.
The outsiders of this run claim wrong roots only: with right ones `RightDefended` does not
hold (see the remarks under Findings).

In `mina`, the other sender's proof commitments are one forged value (`Forged`), its roots and everything else any; one
such transaction puts the contract on any state before, between or under the operators' own.

In `host_search`, four L1 and three L2 blocks are enough for two batches with a gap between
them, a missed slot on either side of an estimate, a scan of two windows with an event that does not
cover the height looked for, and commitments and finality that arrive in the middle of any
search.  `MaxWord` 7 is above every block, so a search that wraps
runs through blocks that do not exist, as the real one does.  Two Celestia heights let two batches share one or differ.  `Delay` 3 is longer than some
batches take and shorter than others.

`PromptTasks` says that a spawned task makes its first database write before the loop's
next turn begins.  The code has nothing to enforce it but the pause of `loop_interval`
(50 seconds unless configured; 10 after an error).  Without it a row is spawned twice, the
first task runs on without a handle, and `RangesDisjoint`, `OneAggregation`,
`AggregationsTiled` and `EverythingProposed` fail on instances of one or two blocks:
when one of the two tasks fails, the row is planned again and the other task completes
the failed row, after which two complete ranges cover the same blocks and no aggregation
validates.  `RelayedLanded` needs no such assumption: its theorem covers both values.

Nothing assumes that the proposer is alone except where stated: `RangesDisjoint` and
`AggregationsTiled` hold only while no accepted output ends inside an active range (see
Findings).  `ranges` has one commitment and no other proposer, of which this is true; the theorems
have the condition itself.

The runs prove through the network.  In mock mode a task goes on after its witness: its row
moves to Execution, it runs the program and completes the row itself.  `WithinLimits` therefore counts
rows in flight and tasks at work against `max_concurrent_proof_requests`, and tasks that make a
witness against `max_concurrent_witness_gen`; its theorem covers the three modes.

### Fairness

`FairSpec` adds to `Spec`:

* `WF(LoopProgress)`: the process runs and is restarted;
* `WF(TaskProgress)`: the runtime polls its tasks;
* `SF(PollFulfilled)` and `SF(AddNewRanges)`: strong, because each is enabled only while the
  loop is at that step: a proof polled again and again is in the end found fulfilled in
  time, a host asked again and again in the end reports the new finalized block;
* `WF(Mine)`, `WF(Finalize)`: transactions sent get mined, L2 goes on;
* from some time on no call of the loop fails (failures of proofs and tasks and crashes are
  bounded by their counters instead).

Nothing is assumed of other proposers.  For the proposer, `EverythingProposed` says that in the
end fewer blocks are left unproposed than an output needs.

`ActorsFairSpec` has weak fairness of the steps of each program's turn, of the proofs under
way and of time: both programs are loops that sleep a fixed interval, and errors are bounded by their
counter.  Nothing is assumed of outsiders: what is resolved and paid in `EverySettled` is
done by the two programs.  The property leaves out the latest game, which
`get_oldest_claimable_bond_game_address` (`lib.rs:555-559`) does not look at, and games on a
proven one, which the programs do not resolve (see `stalled`).

In MinaSettlement the service's own steps are weakly fair, and so are the operators, who
are outside the repository but for a script: that a converted proof is settled takes somebody
who sends it.  Nothing obliges the writer of the proofs.  `EveryFileConverted` excepts the files in `lost`: those whose conversion
failed in the running process, those that appeared between scan and watcher, and those a failed scan left out.

In HostSearch only `Host`, the task's own next call, is weakly fair; the chains may stop
growing.  `FetchSucceeds` begins with an L2 block that is finalized and committed already.  It takes a safeDB or the
fallback, without which every call for a head is an error (`fetcher.rs:531-534`, 562-566); on
Celestia, that no block from the latest proposed one on is overlooked.

## Proofs

The provers are Z3, Zenon and the temporal back end of TLAPS.  Every safety invariant and
action property of the passing runs is a theorem.

`RangePlannerProofs` proves for lists of any length and any interval:

* `LoopsReturnTheSets == Spec => []LoopsMatchSets` and `PlansAreSound == Spec => []PlanIsSound`.
  Both follow from `LoopsInv`, which says of each turn of the loops what has been
  found so far.  Of `find_gaps`: the gaps are those in front of the requests it has seen, its
  cursor is what they reach, and no block up to the cursor is outside of both.  Of
  `get_ranges_to_prove`: the gaps before the next are cut into all their pieces, the next one
  into those that end by the cursor, which is a number of intervals into it.  The list
  need not be free of overlaps: that the cursor never moves backward is what makes a gap
  free of every request seen, that the list is sorted what makes it free of the others.
  `LastIsDropped` is the pop at the end: in a list in order the last piece is the only one
  without another behind it.
* `ScansAgree == Spec => []ScansMatchSets`.  `HighestContiguous` is a recursive function; that
  it exists is shown by giving one (the end of the range at which a scan from each
  place stops), that every such function answers the same by an induction from the
  stop downward.  For `validate_aggregation_request` the set formulation says only that
  every range but the first begins where some other ends; on a sorted list a least
  place where it is not the one before leads to two ranges with one start.

So what is proved and checked of ValidityProposer with the sets is about the loops.

`ValidityProposerProofs` proves for every value of the constants that satisfies
`ConstantsAssumption`, that is for any number of commitments, blocks, failures and crashes,
either value of `PromptTasks` and `OtherProposers`, and all three proving modes:

* `TypeCorrect == Spec => []TypeOK`.  `TypeOK` is inductive as it stands.  Beside types it
  says which local belongs to which step of the turn, and that the transaction a turn is
  waiting for is that of the aggregation it is relaying; the second theorem needs both.
  The lemmas before it type the planning operators (`FindGaps`, `RangesToProve`) and the
  helpers on the table (`NewRow`, `Table`, `HandleFailed`), then each group of actions.
* `RelayedHasLanded == Spec => []RelayedLanded`.  `RelayedLanded` alone is not inductive:
  `ConfirmRelay` marks a row because of a receipt.  `RelayInv` adds that a receipt of
  success implies that the aggregation being relayed has landed.  `ReceiptIsOurs` shows
  that receipts keep this (only the awaited transaction sets one, and it belongs to the
  row in `relaying`), `OnlyConfirmRelays` that no other step marks a row Relayed.

The other theorems of this module assume `PromptTasks`, without which the properties are false
(see Bounds), and are about any values of the other constants unless said otherwise:

* `RowsEvolve`: every step takes every row along its `Lifecycle` and drops only rows that cannot be
  recovered; `OutcomesStand == Spec => OutcomesFinal` is a part of it.  What the loop and the tasks
  write, they write to a row they have read some steps before.  `LifeInv` says that the row is still as it was
  read: a task's row is where the task has taken it, rows fetched for a step have kept the status
  they were fetched for, no task is about to begin when a turn does.
* `AggregationAlone == Spec => []OneAggregation`, with `PlannedAlone`: while the transaction of a checkpoint
  is waited for, no aggregation from the same block becomes active.
* `LimitsKept == Spec => []WithinLimits`, in every proving mode.  `LimitsInv` counts rows whose task is
  yet to begin as requested, for which there is no status in the table.  A task at work stands for a
  row in flight, a witness for a row in WitnessGeneration, and no two tasks for the same
  one (`RunningCounted`, `TasksCounted`), so that a bound on rows is one on tasks.
* `DisjointUnlessStraddled == Spec /\ []NoStraddle => []RangesDisjoint` and
  `TiledUnlessStraddled == Spec /\ []NoStraddle => []AggregationsTiled`, for any commitments and other
  proposers.  `NoStraddle` says that the latest proposed block is inside no active range of the running
  commitment.  `straddle` shows that without it the first fails, so it is all that stands between the proposer and the finding:
  restarts under other commitments and outputs of others do no harm as long as they end between
  active ranges.  `RangesInv` adds to the property that an aggregation stays tiled from the moment its task is
  spawned, and that aggregations sent are proven.  Where the latest block straddles nothing, the next
  plan sees every active range above it; a plan is free of those and of itself (`PlannedFree`,
  `PlannedDisjoint`, lemmas on the sets); and as no other active range overlaps a tile of a live aggregation,
  what is inserted later leaves its tiles as they were (`TilesStay`).
* `OnlyOthersStraddle == Spec /\ [][Considerate]_vars => []NoStraddle`, for one commitment: if others leave the
  latest block between active ranges, so does the proposer.  Its own accepted output is an
  aggregation whose tiles are complete ranges (`SentProven`, `TilesStay`), the last of which ends with it, and
  no other active range overlaps that one.  Under several commitments this is false: an
  aggregation sent before a restart is not made of the ranges planned after it.
* `RangesStayDisjoint == Spec => []RangesDisjoint` and `AggregationsStayTiled == Spec => []AggregationsTiled`
  for a proposer alone and of one commitment, from the three above.

`FaultDisputeGameProofs` proves for any accounts, whitelists, bonds, durations, blocks and
number of games that satisfy `GameAssumption`:

* `TypeCorrect == Spec => []TypeOK`, `WrongWinsAfterSlip == Spec => []WrongNeedsSlip`,
  `OutcomesAreJustified == Spec => []OutcomesJustified`;
* `GamesAreSolvent == Spec => []Solvent`, for a finite set of accounts.

The first three follow from `GameInv`, which TLC confirms on the instance of `disputes`.  None of
them is inductive alone: that a creator's reward is not negative needs that a challenged
game holds the challenger's bond; that a game loses only when it should needs that a lost
game is past its deadline, or else it could be proven afterwards; and `WrongNeedsSlip` needs to
follow a wrong root down the tree.  `Coherent` says what the fields of one game say of
each other, `Linked` what a game has to do with its parent: it starts from the parent's
claim, wins only under a parent that has won, and if it starts without a parent from a
wrong anchor there has been a slip (wrong: no root of the chain; a misplaced claim may win with a
proof and is no slip).  So a wrong claim that wins starts either from a
right root, and is itself a slip, or from a wrong one, whose game has won before it.  The
proof shows of every operation but `initialize` that it is on `Course`: every game
becomes what it `MayBecome` (same roots, outcomes kept, new outcomes `Justified`); one
lemma, `CourseKeepsInv`, does the rest for all of them.  `Solvent` rests on sums over
functions: the sum of one that is changed at one place changes by the difference, which takes an
induction over the finite set of holders; the rest is what each operation writes to credits and balance.

`OutputOracleProofs` proves for any numbers of blocks, configurations, accounts, ranges in an
aggregation and any periods that satisfy the module's assumption:

* `AggregationSound`: from linked range proofs the aggregation program gets a wrong claim
  only from a wrong start, and otherwise a root between the start and the block it claims.
  The induction over the list is an induction over a set of indices (`SetInduction` of
  **NaturalLemmas**): "the claims up to i are right" is a subset of the naturals, which needs
  no operator as a parameter.
* `OracleTypesHold`, `OrderHolds`, `SoundnessHolds`: the three invariants follow from `OInv`,
  which adds to them what the mode and the configurations have to do with each other.
  Soundness needs the order: a proof starts from the latest output, and what is deleted
  is a suffix.
* `SearchesFindFirst == Spec => []SearchFindsFirst`, for lists of any length.  That the recursive calls end is an
  induction on the length of the interval (`SearchEnds`), that they find the first output
  for the block another (`SearchFinds`); only the order of the outputs is needed, which `OInv` has.
* `FallbackStaysOpen == Spec => []FallbackOpens`.  That the contract accepts a proposal of anyone is
  stated as the existence of one that meets all that it requires (`AcceptsProven`).  `OneRangeProves` gives the proof it takes:
  one range, from the latest root to the next block, whose data a checkpointed block has.  It asks for a latest root of the
  chain, for from another there is no proof, and for one not ahead of the next block.
  The types of the outputs, kept through all deletions and reconfigurations, are all it needs.
* `ChainHolds == Spec => ChainSpec`, the refinement, step by step: a proposal appends, a
  deletion removes a suffix above what is final, everything else leaves the list alone and
  moves only what counts as final.

`FaultProofActorsProofs` proves for all sizes of windows, durations, skews and bounds:

* `ActorsTypesHold`: among the rest, at most one creation at a time, and of the proofs of a game at most one begun by its
  defence and one by its creation, the latter with fast finality only and after the creation has ended.  That there is one in all is not so.
* `ActorsImplementGames == ActorsSpec => Spec`: every step of the
  composition is a step of the games or leaves them alone.  So every theorem about
  the games holds of the composition.
* `SafeWhileChallenged` uses that: as long as `WrongChallenged` holds and the nodes have the blocks of all games (`AllKnown`), no claim off
  the chain wins or becomes the anchor.  A misplaced claim that is challenged may be proven and win.
* `WrongClaimsAreChallenged == ActorsSpec => []WrongChallenged`, which is about the games that are `Seen`, if the challenger is whitelisted, its window reaches
  every game (`MaxGames <= Window + 1`), its clock is ahead by at most S, and `ChallengeDuration` is at least S
  plus a unit for every game and every failure.  The invariant `ChallengerKeepsUp` gives every game with
  a wrong claim that still needs an answer a slack: it has time left for the wrong claims up to it and for the
  failures to come, where the turn of this unit counts until it is taken.  A tick takes a unit from the time and
  a turn removes a game in front, or a failure from those to come, so the slack never gets less
  than nothing.  Games that are opened meanwhile stand behind, and have the whole duration before them.
* `NoWrongClaimWins`, from the last two: then no claim off the chain ever wins and the anchor state is never one, as long as
  nobody opens a game on a block the nodes have not got.
* `RightClaimsAreDefended == ActorsSpec => []RightDefended`, if besides outsiders make wrong claims only and
  `ProveDuration` leaves `ProveTime + 1` for every game and every failure, plus what the clock is ahead by beyond a
  proof.  `ProposerKeepsUp` says the same of proofs: for each challenged game either nothing has begun and there is time
  for a proof of each game up to it, or one of them is being proven and its age is time gained.  It needs that the games
  the proposer defends are its own, on right roots, and start a proposal interval below their block (`RightOwned`), so that the
  one in front can be proven; and that a creation, under way or executed late, starts from a right claim, or from the
  anchor while there is none (`CreationFresh`).  Both slacks are kept for games that are `Seen`.

TLC confirms both invariants on the instance of `fault_actors`.  The durations of the run are
the least these hypotheses allow, and with one unit less TLC finds the properties violated (`RightDefended` where outsiders
challenge, too): the theorems ask for no more than is needed.  Failures count restarts too; an operator reads them as: leave a turn, or a proof, for
every game that may be open and every failure to survive.

`MinaSettlementProofs` proves for any files, operators, failures and restarts:

* `ConversionTypesHold == Spec => []ConversionTypeOK`: a file has one call under way at most,
  because it is among the processed files from before its first await until its call fails.
* `SettlementsInOrder == Spec => SettledInOrder`.  What the contract compares when a transaction
  is executed is only the state it was made for; that the new state of an operator's transaction follows by a converted
  proof has to be known of every one that waits, whenever it was sent
  (`TxsBacked`), and to stay true meanwhile, whatever others send: a converted file does not vanish
  (`ConvertedStays`).  Of the others' transactions nothing is known: without the verification of the
  external proof the contract takes any state they claim.

`HostSearchProofs` proves every invariant of `host_search`, for chains of any length and any
window, buffer, delay and largest integer above the chains:

* `HostTypesHold`, `WrapsAtGenesisOnly`, `AnswersAreProvable`, `AnswersAreHighest`, `HeadsAreFirst`,
  `HeadsReachEnds`, all from `HostInv`, which TLC confirms on the instance of the run.  It says
  for each search what a call may find: in the bisection the best block so far is
  committed and just below the lower bound, and the promised one not above the upper bound; in the log
  scan no event that covers the block is behind the cursor (`EventExists`: a height that
  is committed has an event, at or after the batch unless the block is overlooked, so a scan that finds none
  has shown that it was overlooked or not committed when the scan read the latest block); in the two searches for a head the first block that will do lies between the
  bounds.  `GrowthKeeps` shows that new and newly finalized blocks disturb none of it,
  `UnavailableKeeps` what a call that fails costs: only that the answer is the highest.

Only model-checked: the liveness properties (`EverythingProposed`, `EverySettled`, `EveryFileConverted`, `ConvertedSettled`, `FetchSucceeds`).
That properties fail without a hypothesis (`PromptTasks`, `NoStraddle`, the durations) is seen with TLC
on instances, as said above.

## Findings

* **straddle**.  The comment in `add_new_ranges` (`proposer.rs:213`) says the active
  requests from the latest output on "are non-overlapping".  If an accepted output ends
  inside an active range, that range starts below the latest block and is no longer
  seen; its upper blocks are planned again; if it now fails and is split, its upper half
  overlaps the plan.  If both complete, no aggregation over them passes validation and the
  proposer waits for somebody else to move the oracle.  It takes an output that is not an
  aggregation of the proposer's current ranges: of another proposer, or its own under
  earlier commitments, mined after a restart.
* **chain_lock**.  The lock expires `loop_interval` after its renewal, and it is renewed
  after a turn that succeeded, before a sleep of `loop_interval`: while the next turn runs,
  or while turns fail, a second proposer passes the check.  (That two pass the check
  together before either takes the lock is another matter, which this run leaves aside.)
* **stalled**.  `book/fault_proofs/quick_start.md:127` says both proposer and challenger
  attempt to resolve eligible games.  `try_resolve_games` (`fault-proof/src/lib.rs:622-642`)
  lets the proposer resolve a game in `Unchallenged` and the challenger one in `Challenged`
  only.  A game that has a valid proof, challenged or not, is resolved by neither, although the
  contract lets anybody do it; with fast finality every game of the proposer is such a
  game, its bond is never claimed and no game above it can be resolved either.

Remarks that no run is spent on:

* Holes.  `utils.rs:38-41` says that all disjoint ranges are fully covered.  The last piece of
  the last gap is dropped if it is shorter than the interval: when all blocks up to
  the finalized one are requested and a split half fails, that half is the last piece.  It is
  requested only once further blocks are finalized.  `EverythingProposed` does not promise it: it says that in the end
  fewer blocks are left unproposed than an output needs.
* A resolved game can be proven.  `prove` does not look at the status: a game that was
  resolved before its deadline because its parent lost can still be proven, and its
  `claimData` is then no longer `Resolved`, "the final state after resolution".  The outcome and the
  credits stay (`OutcomesJustified`, `Solvent`), but `is_claimable` takes the bond for one
  that cannot be claimed yet.
* A game on a missing block.  `get_oldest_game_address` computes the root of a game's block with `?`
  (`fault-proof/src/lib.rs:482`), and an L2 node that has not got the block fails: the look ends at this game, every turn
  until its deadline is past, and the games behind it are neither challenged nor defended.  The comment in the loop of the
  challenger (`challenger.rs:242-244`), "Eventually, all games will be challenged (as long as the rate at which games are being
  created is slower than the fetch interval)", is not so then.  A game in front that claims a block not yet made, or a node
  that is behind, is enough.  Without `Seen`, TLC finds `WrongChallenged`
  violated on the instance of `fault_actors`, and `RightDefended` on one in which outsiders may challenge, too, and have three operations.
* A game ahead that cannot be proven.  `prove_game` (`fault-proof/src/proposer.rs:152-168`) proves
  the last `proposal_interval_in_blocks` blocks before a game's block, whatever the game starts
  from, and only the oldest challenged game with a right root is defended.  If another
  proposer opens a longer game with a right root and both it and the proposer's next game
  are challenged, the proposer tries the first until its deadline is past, and its own may
  then be lost.  TLC shows it with `OutsiderClaims = {"right", "wrong"}`, which is
  why `RightDefended` is checked without.
* A search that wraps.  `high = mid - 1` (`blobstream_utils.rs:303` and `308`) is unsigned.  L2's genesis
  block has no Celestia data; a proposer whose latest proposed block is 0 comes down to it while
  nothing is committed.  A debug build panics, the release builds of the Dockerfiles go
  on at the largest integer: the search runs until data becomes available, and then answers
  the highest available block, also one above the finalized block that was to bound it.
  `OnlyGenesisWraps` says that this is the only way; without the exception for wrapped
  searches `AnswerProvable` fails.
* The Celestia host does not cap its L1 head at the finalized block as the Ethereum host does
  (`celestia/host/src/host.rs:73-85`), so a reorganization of L1 can void a proof; nor does it scan below the
  L1 block the indexer names (`blobstream_utils.rs:99`), so a commitment that comes before that block is never seen.
  Such a block cannot be fetched for good; the bisection takes it for one that is not committed and may answer a lower
  block than there is, without any call having failed.  `AnswerHighest` and `FetchSucceeds` except it.
* The doc comment of `request_queued_proofs` (`proposer.rs:546-547`) says that it returns if there are already
  MAX_CONCURRENT_WITNESS_GEN proofs "in WitnessGeneration or Execute status".  The code (line 591) counts
  those in WitnessGeneration only, as the comment next to it says.  In mock mode, where a row is in Execution
  while its task runs the program, as many tasks are at work as the other limit allows; `WithinLimits`
  states what the code does.
* The estimated head is too low for a batch that is posted later than the delay
  (the code's own warning, `fetcher.rs:547`); `HeadReachesEnd` states what remains.
* `split_range_based_on_safe_heads` documents [(0,27), (27,49), (49,69), (69,90)] for safe heads
  27, 49, 90 and a size of 30; its loop gives (49,79), (79,90) for the last two.
* The conversion service's README promises retries; nothing retries a failed file before
  the next start, and a failure on that start leaves a formerly whole output truncated.
* `ENABLE_GAME_RESOLUTION` is read by the configuration and used nowhere.

## Not modelled

Request statistics, execution reports, metrics, proof bytes, transaction hashes, the rows
of other chains and their cleanup; how a block is derived and executed in the zkVM, the
preimage oracles and the blobs; in the host utilities the generation of witnesses, header
preimages, block statistics, the splitting of ranges for cost estimates and configuration
files; reorganizations of L1; the stages of a fault proof (host, range, aggregation) and its
transaction retries; the owner's changes to `AccessManager`'s whitelists; `OPSuccinctDisputeGame.resolve`;
signer keys and nonces (earlier transactions of a sender are mined first); the deployment
of the Mina contract; deployment scripts, the example application, dashboards.

## What could follow

1. The whitelist setters of `AccessManager`, under which a challenger may lose its right between two turns.
2. ValidityProposer as a client of OutputChain, through `latest`.
3. Game types that are not respected and disowned games in FaultProofActors: a disowned
   parent makes the proposer's creation refused again and again.
