------------------------------ MODULE OutputOracle ------------------------------
(***************************************************************************)
(* OPSuccinctL2OutputOracle: the outputs proposed with a proof of the      *)
(* aggregation program, or on trust in optimistic mode, their deletion by  *)
(* the challenger, and the changes its owner makes.  A unit of time is one *)
(* L1 block and one L2 block.  Indices are one higher than in the code.    *)
(***************************************************************************)
EXTENDS ProofPrograms

CONSTANTS
    Accounts, Nobody,      \* addresses, and address(0)
    Owner, Proposer,       \* the parameters of initialize
    ConfigNames, Genesis,  \* names of configurations; GENESIS_CONFIG_NAME
    Intervals, Periods,    \* values given to submissionInterval and finalizationPeriodSeconds
    FallbackTimeout,       \* fallbackTimeout
    BlockhashWindow,       \* how many blocks back blockhash knows
    MaxVersion,            \* bound: initializations, the first and by upgrades
    MaxOutputs,            \* bound: length of the list of outputs
    MaxChanges             \* bound: changes by the owner

ASSUME OracleAssumption ==
    /\ Nobody \notin Accounts /\ Owner \in Accounts /\ Proposer \in Accounts
    /\ Genesis \in ConfigNames
    /\ Intervals \subseteq Nat /\ Periods \subseteq Nat
    /\ FallbackTimeout \in Nat /\ BlockhashWindow \in Nat
    /\ MaxVersion \in Nat /\ MaxOutputs \in Nat /\ MaxChanges \in Nat

VARIABLES
    now,            \* block.timestamp and block.number
    version,        \* of the last initializer that ran, 0 before the first
    outputs,        \* l2Outputs
    starting,       \* startingBlockNumber, and startingTimestamp with it
    interval,       \* submissionInterval
    period,         \* finalizationPeriodSeconds
    optimistic,     \* optimisticMode
    approved,       \* approvedProposers
    configs,        \* opSuccinctConfigs
    checkpointed,   \* historicBlockHashes
    owner,          \* owner
    changes         \* changes made by the owner

settings == <<version, starting, interval, period, optimistic, approved, configs, owner, changes>>
vars == <<now, outputs, checkpointed, settings>>

\* What a configuration verifies: proofs of the two programs for this chain, or anything
\* else.  "none" is one with a parameter that is zero.
Config == {"none", "genuine", "foreign"}

\* trusted is kept for the properties: the output needed no proof of the genuine programs.
Output == [root : Root, block : Block, time : L1Block, trusted : BOOLEAN]

Init ==
    /\ now = 0 /\ version = 0 /\ outputs = <<>> /\ starting = 0
    /\ interval = 0 /\ period = 0 /\ optimistic = FALSE
    /\ approved = {} /\ configs = [name \in ConfigNames |-> "none"]
    /\ checkpointed = {} /\ owner = Nobody /\ changes = 0

-----------------------------------------------------------------------------
Latest == outputs[Len(outputs)]
LatestBlockNumber == IF outputs = <<>> THEN starting ELSE Latest.block

\* Mutant: the interval is counted from the starting block.
NextBlockOfStart == starting + interval

NextBlockNumber == LatestBlockNumber + interval

LastProposalTimestamp == IF outputs = <<>> THEN starting ELSE Latest.time
ComputeL2Timestamp(block) == starting + (block - starting)
IsValidConfig(config) == config # "none"

Push(root, block, time, trusted) ==
    outputs' = Append(outputs, [root |-> root, block |-> block, time |-> time, trusted |-> trusted])

\* initialize, of the first deployment or of an upgrade.  The starting output counts only
\* if there is none.
Initialize(v, root, block, n, d) ==
    /\ version < v
    /\ n > 0 /\ block <= now
    /\ version' = v /\ interval' = n /\ period' = d
    /\ IF outputs = <<>> THEN Push(root, block, block, TRUE) /\ starting' = block
       ELSE UNCHANGED <<outputs, starting>>
    /\ approved' = approved \cup {Proposer}
    /\ configs' = [configs EXCEPT ![Genesis] = "genuine"]
    /\ owner' = Owner
    /\ UNCHANGED <<now, optimistic, checkpointed, changes>>

\* Whether an output is final at time t under period d.
IsFinal(o, t, d) == t - o.time >= d

Final(i) == IsFinal(outputs[i], now, period)

\* Mutant: the output looked at is the latest, not the first to go.
DeleteLatestNotFinal(i) ==
    /\ ~Final(Len(outputs))
    /\ outputs' = SubSeq(outputs, 1, i - 1)
    /\ UNCHANGED <<now, checkpointed, settings>>

\* deleteL2Outputs, by the challenger.
DeleteL2Outputs(i) ==
    /\ ~Final(i)
    /\ outputs' = SubSeq(outputs, 1, i - 1)
    /\ UNCHANGED <<now, checkpointed, settings>>

\* Mutant: nobody may stand in for the proposers.
MayProposeApproved(a) == a \in approved \/ Nobody \in approved

MayPropose(a) ==
    a \in approved \/ Nobody \in approved \/ now - LastProposalTimestamp > FallbackTimeout

\* An aggregation proof verifies for these public values; under a foreign configuration
\* it says nothing of this chain.
VerifyProof(config, preRoot, root, block, head) ==
    config = "genuine" =>
      [l1Head |-> head, l2PreRoot |-> preRoot, claimRoot |-> root, claimBlockNum |-> block]
        \in AggregationProofs

\* What proposeL2Output requires of a proposal with a proof.
AcceptsProven(a, name, root, block, head) ==
    /\ ~optimistic
    /\ MayPropose(a)
    /\ block >= NextBlockNumber /\ ComputeL2Timestamp(block) < now
    /\ IsValidConfig(configs[name]) /\ head \in checkpointed
    /\ outputs # <<>> /\ Len(outputs) < MaxOutputs
    /\ VerifyProof(configs[name], Latest.root, root, block, head)

\* proposeL2Output with a proof, by a transaction of a, also within the initialize of a
\* validity dispute game, which then resolves at once.
ProposeProven(a, name, root, block, head) ==
    /\ AcceptsProven(a, name, root, block, head)
    /\ Push(root, block, now, configs[name] = "foreign")
    /\ UNCHANGED <<now, checkpointed, settings>>

\* proposeL2Output in optimistic mode.  The hash of an L1 block may be left out.
ProposeOptimistic(a, root, block) ==
    /\ optimistic
    /\ MayPropose(a)
    /\ block = NextBlockNumber /\ ComputeL2Timestamp(block) < now
    /\ Len(outputs) < MaxOutputs
    /\ Push(root, block, now, TRUE)
    /\ UNCHANGED <<now, checkpointed, settings>>

\* Mutant: the hash need not be known yet.
CheckpointAnyBlock(number) ==
    /\ checkpointed' = checkpointed \cup {number}
    /\ UNCHANGED <<now, outputs, settings>>

\* checkpointBlockHash: blockhash knows the blocks before the current one.
CheckpointBlockHash(number) ==
    /\ number < now /\ now - number <= BlockhashWindow
    /\ checkpointed' = checkpointed \cup {number}
    /\ UNCHANGED <<now, outputs, settings>>

-----------------------------------------------------------------------------
\* onlyOwner, and the bound on what the owner does.
OwnerDoes(a) == a = owner /\ changes < MaxChanges /\ changes' = changes + 1

UpdateSubmissionInterval(a, n) ==
    /\ OwnerDoes(a) /\ interval' = n
    /\ UNCHANGED <<now, version, outputs, starting, period, optimistic, approved, configs,
                   checkpointed, owner>>

\* addOpSuccinctConfig overwrites no valid configuration.
AddOpSuccinctConfig(a, name, config) ==
    /\ OwnerDoes(a)
    /\ ~IsValidConfig(configs[name]) /\ IsValidConfig(config)
    /\ configs' = [configs EXCEPT ![name] = config]
    /\ UNCHANGED <<now, version, outputs, starting, interval, period, optimistic, approved,
                   checkpointed, owner>>

DeleteOpSuccinctConfig(a, name) ==
    /\ OwnerDoes(a) /\ configs' = [configs EXCEPT ![name] = "none"]
    /\ UNCHANGED <<now, version, outputs, starting, interval, period, optimistic, approved,
                   checkpointed, owner>>

TransferOwnership(a, b) ==
    /\ OwnerDoes(a) /\ owner' = b
    /\ UNCHANGED <<now, version, outputs, starting, interval, period, optimistic, approved,
                   configs, checkpointed>>

\* addProposer and removeProposer.
ChangeProposers(a, proposers) ==
    /\ OwnerDoes(a) /\ approved' = proposers
    /\ UNCHANGED <<now, version, outputs, starting, interval, period, optimistic, configs,
                   checkpointed, owner>>

AddProposer(a, p) == ChangeProposers(a, approved \cup {p})
RemoveProposer(a, p) == ChangeProposers(a, approved \ {p})

\* enableOptimisticMode and disableOptimisticMode set the period, too.
ToggleOptimisticMode(a, d) ==
    /\ OwnerDoes(a) /\ optimistic' = ~optimistic /\ period' = d
    /\ UNCHANGED <<now, version, outputs, starting, interval, approved, configs,
                   checkpointed, owner>>

Tick ==
    /\ now < MaxTime /\ now' = now + 1
    /\ UNCHANGED <<outputs, checkpointed, settings>>

OwnerStep(a) ==
    \/ \E n \in Intervals : UpdateSubmissionInterval(a, n)
    \/ \E name \in ConfigNames :
        DeleteOpSuccinctConfig(a, name) \/ \E config \in Config : AddOpSuccinctConfig(a, name, config)
    \/ \E b \in Accounts : TransferOwnership(a, b)
    \/ \E p \in Accounts \cup {Nobody} : AddProposer(a, p) \/ RemoveProposer(a, p)
    \/ \E d \in Periods : ToggleOptimisticMode(a, d)

Next ==
    \/ \E v \in 1 .. MaxVersion, root \in Root, block \in Block, n \in Intervals, d \in Periods :
        Initialize(v, root, block, n, d)
    \/ \E i \in DOMAIN outputs : DeleteL2Outputs(i)
    \/ \E a \in Accounts, root \in Root, block \in Block :
        \/ ProposeOptimistic(a, root, block)
        \/ \E name \in ConfigNames, head \in L1Block : ProposeProven(a, name, root, block, head)
    \/ \E number \in L1Block : CheckpointBlockHash(number)
    \/ \E a \in Accounts : OwnerStep(a)
    \/ Tick

Spec == Init /\ [][Next]_vars

-----------------------------------------------------------------------------
\* The loop of getL2OutputIndexAfter from lo and hi, the latter not in the list, and its
\* result.
Midpoint(lo, hi) == (lo + hi) \div 2

\* Mutant: an output for the block itself is passed over.
SearchPast(os, block) ==
    LET search[s \in (1 .. Len(os) + 1) \X (1 .. Len(os) + 1)] ==
          LET lo == s[1]  hi == s[2]  mid == Midpoint(lo, hi)
          IN  IF lo >= hi THEN lo
              ELSE IF os[mid].block <= block THEN search[<<mid + 1, hi>>] ELSE search[<<lo, mid>>]
    IN  search[<<1, Len(os) + 1>>]

SearchIndex(os, block) ==
    LET search[s \in (1 .. Len(os) + 1) \X (1 .. Len(os) + 1)] ==
          LET lo == s[1]  hi == s[2]  mid == Midpoint(lo, hi)
          IN  IF lo >= hi THEN lo
              ELSE IF os[mid].block < block THEN search[<<mid + 1, hi>>] ELSE search[<<lo, mid>>]
    IN  search[<<1, Len(os) + 1>>]

\* Types; and only blocks of the past have a known hash.
OracleTypeOK ==
    /\ now \in L1Block /\ version \in 0 .. MaxVersion
    /\ outputs \in Seq(Output)
    /\ starting \in Block /\ interval \in Nat /\ period \in Nat
    /\ optimistic \in BOOLEAN
    /\ approved \subseteq Accounts \cup {Nobody}
    /\ configs \in [ConfigNames -> Config]
    /\ checkpointed \subseteq 0 .. now - 1
    /\ owner \in Accounts \cup {Nobody} /\ changes \in 0 .. MaxChanges

\* However the list was cut, the settings changed and the contract upgraded, the blocks
\* and times of the outputs never decrease along the list, nor lie ahead of the time.
OutputsOrdered ==
    /\ \A i, j \in DOMAIN outputs :
        i <= j => outputs[i].block <= outputs[j].block /\ outputs[i].time <= outputs[j].time
    /\ \A i \in DOMAIN outputs :
        outputs[i].block <= outputs[i].time /\ starting <= outputs[i].block /\ outputs[i].time <= now

\* So the binary search of getL2OutputIndexAfter returns the first output for the block
\* or one after it, also when a zero interval has put several outputs on one block.
SearchFindsFirst ==
    \A block \in 0 .. LatestBlockNumber :
        outputs # <<>> =>
          LET found == SearchIndex(outputs, block) IN
          /\ found \in DOMAIN outputs /\ outputs[found].block >= block
          /\ \A i \in 1 .. found - 1 : outputs[i].block < block

\* From an output with a root of the chain on, proofs alone lead to roots of the chain, of
\* no earlier block than that output's and of no later block than is claimed, though the
\* range program stops where the data of its L1 head ends.
ProvenSound ==
    \A i, j \in DOMAIN outputs :
        /\ j < i /\ outputs[j].root # Wrong
        /\ \A k \in j + 1 .. i : ~outputs[k].trusted
        => outputs[j].root <= outputs[i].root /\ outputs[i].root <= outputs[i].block

\* Whoever reads the oracle can rely on OutputChain: what is final under the current
\* period is a prefix of the list, and no deletion reaches into it.
Follows(o, p) ==
    IF o.root = Wrong THEN p.root = Wrong ELSE o.root <= p.root /\ p.root <= p.block

FinalCount(os, t, d) ==
    IF \E i \in DOMAIN os : ~IsFinal(os[i], t, d)
    THEN (CHOOSE i \in DOMAIN os :
            ~IsFinal(os[i], t, d) /\ \A j \in 1 .. i - 1 : IsFinal(os[j], t, d)) - 1
    ELSE Len(os)

Chain == INSTANCE OutputChain WITH chain <- outputs, final <- FinalCount(outputs, now, period)

ChainSpec == Chain!Spec

\* When the proposers have been silent for the fallback timeout, there is a proposal that
\* the contract accepts of anyone, as soon as the next block is on L1 before a checkpointed
\* block, whichever proposers were removed, intervals set and outputs deleted before.  The
\* latest root must be one of the chain, as the range program starts from its preimage, and
\* not ahead of the next block: a trusted one need be neither.
FallbackOpens ==
    \A a \in Accounts :
        /\ outputs # <<>> /\ Len(outputs) < MaxOutputs /\ NextBlockNumber \in Block
        /\ ~optimistic /\ configs[Genesis] = "genuine"
        /\ now - LastProposalTimestamp > FallbackTimeout
        /\ Latest.root # Wrong /\ Latest.root <= NextBlockNumber
        /\ \E head \in checkpointed : NextBlockNumber <= Derivable(head)
        => \E root \in Root, block \in Block, head \in L1Block :
             AcceptsProven(a, Genesis, root, block, head)
================================================================================
