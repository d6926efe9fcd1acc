--------------------------- MODULE OutputOracleProofs ---------------------------
(***************************************************************************)
(* Proofs about the programs and the output oracle: an aggregation of any  *)
(* number of range proofs leads from a root of the chain to a later one,   *)
(* the oracle's outputs stay ordered and sound, its binary search finds    *)
(* the output that covers a block, and the oracle implements OutputChain.  *)
(***************************************************************************)
EXTENDS OutputOracle, NaturalLemmas, TLAPS

-----------------------------------------------------------------------------
\* What one range proof says.
LEMMA RangeSound ==
    ASSUME NEW boot \in RangeProofs
    PROVE  /\ boot.l2PreRoot \in Root /\ boot.l2PostRoot \in Root
           /\ boot.l2BlockNumber \in Block /\ boot.l1Head \in L1Block
           /\ boot.l2PreRoot = Wrong => boot.l2PostRoot = Wrong
           /\ boot.l2PreRoot # Wrong =>
                boot.l2PreRoot <= boot.l2PostRoot /\ boot.l2PostRoot <= boot.l2BlockNumber
BY ProgramsAssumption
   DEF RangeProofs, BootInfo, RangeProves, ClaimNotBelow, AdvanceToTarget, Greater, Smaller,
       Derivable, Root, Block, Wrong, L1Block

\* The range proofs of an aggregation never go back, and never leave the chain; from a
\* root that is not of the chain they do not reach it.
LEMMA RangesSound ==
    ASSUME NEW n \in Nat, n > 0, NEW boots \in [1 .. n -> RangeProofs], Sequential(boots),
           NEW k \in 1 .. n
    PROVE  IF boots[1].l2PreRoot = Wrong THEN boots[k].l2PostRoot = Wrong
           ELSE boots[k].l2PreRoot # Wrong /\ boots[1].l2PreRoot <= boots[k].l2PostRoot
<1> DEFINE Sound(i) ==
             IF boots[1].l2PreRoot = Wrong THEN boots[i].l2PostRoot = Wrong
             ELSE boots[i].l2PreRoot # Wrong /\ boots[1].l2PreRoot <= boots[i].l2PostRoot
           T == {i \in Nat : i + 1 \in 1 .. n => Sound(i + 1)}
<1>0. boots \in Seq(RangeProofs) /\ Len(boots) = n
    OBVIOUS
<1>1. 0 \in T
    <2>1. boots[1] \in RangeProofs
        OBVIOUS
    <2>q. QED
        BY <2>1, RangeSound
<1>2. ASSUME NEW i \in Nat, i \in T
      PROVE  i + 1 \in T
    <2> SUFFICES ASSUME i + 2 \in 1 .. n
                 PROVE  Sound(i + 2)
        OBVIOUS
    <2>1. boots[1] \in RangeProofs /\ boots[i + 1] \in RangeProofs /\ boots[i + 2] \in RangeProofs
        OBVIOUS
    <2>2. Sound(i + 1)
        BY <1>2
    <2>3. boots[i + 1].l2PostRoot = boots[i + 2].l2PreRoot
        <3>1. i + 1 \in 1 .. Len(boots) - 1 /\ (i + 1) + 1 = i + 2
            BY <1>0
        <3>q. QED
            BY <3>1 DEF Sequential
    <2>4. /\ boots[1].l2PreRoot \in Root /\ boots[i + 1].l2PreRoot \in Root
          /\ boots[i + 2].l2PostRoot \in Root /\ boots[i + 2].l2PreRoot \in Root
        BY <2>1, RangeSound
    <2>5. /\ boots[i + 2].l2PreRoot = Wrong => boots[i + 2].l2PostRoot = Wrong
          /\ boots[i + 2].l2PreRoot # Wrong =>
               boots[i + 2].l2PreRoot <= boots[i + 2].l2PostRoot
        BY <2>1, RangeSound
    <2>6. boots[i + 1].l2PreRoot # Wrong => boots[i + 1].l2PreRoot <= boots[i + 1].l2PostRoot
        BY <2>1, RangeSound
    <2>q. QED
        BY <2>2, <2>3, <2>4, <2>5, <2>6, ProgramsAssumption DEF Root, Block, Wrong
<1>3. k - 1 \in T
    <2> HIDE DEF T
    <2>1. Nat \subseteq T
        BY <1>1, <1>2, SetInduction
    <2>q. QED
        BY <2>1
<1>4. k - 1 \in Nat /\ (k - 1) + 1 = k
    OBVIOUS
<1>q. QED
    BY <1>3, <1>4

\* An aggregation proof, of whatever number of range proofs: a root of the chain leads to
\* a root of the chain, of no earlier block and of none after the block claimed
\* (advance_to_target stops at the end of the data, the claim stays).
THEOREM AggregationSound ==
    ASSUME NEW p \in AggregationProofs
    PROVE  /\ p.l2PreRoot = Wrong => p.claimRoot = Wrong
           /\ p.l2PreRoot # Wrong =>
                p.l2PreRoot <= p.claimRoot /\ p.claimRoot <= p.claimBlockNum
<1>1. PICK n \in 1 .. MaxRanges : \E boots \in [1 .. n -> RangeProofs], c \in L1Block :
        Sequential(boots) /\ p = AggregationOutputs(boots, c)
    BY DEF AggregationProofs, Aggregations
<1>2. PICK boots \in [1 .. n -> RangeProofs], c \in L1Block :
        Sequential(boots) /\ p = AggregationOutputs(boots, c)
    BY <1>1
<1>3. n \in Nat /\ n > 0 /\ n \in 1 .. n /\ Len(boots) = n
    BY ProgramsAssumption
<1>4. IF boots[1].l2PreRoot = Wrong THEN boots[n].l2PostRoot = Wrong
      ELSE boots[n].l2PreRoot # Wrong /\ boots[1].l2PreRoot <= boots[n].l2PostRoot
    BY <1>2, <1>3, RangesSound
<1>5. boots[n] \in RangeProofs
    BY <1>3
<1>6. boots[n].l2PreRoot # Wrong => boots[n].l2PostRoot <= boots[n].l2BlockNumber
    BY <1>5, RangeSound
<1>7. /\ p.l2PreRoot = boots[1].l2PreRoot /\ p.claimRoot = boots[n].l2PostRoot
      /\ p.claimBlockNum = boots[n].l2BlockNumber
    BY <1>2, <1>3 DEF AggregationOutputs
<1>q. QED
    BY <1>4, <1>6, <1>7

-----------------------------------------------------------------------------
\* How a step changes the list, whatever else it does: not at all, at its end, or by a cut
\* below an output that is not final.  A new output is no earlier than the last one and,
\* unless it is trusted, follows from it.
Added(o) ==
    /\ o \in Output /\ outputs' = Append(outputs, o)
    /\ o.block <= o.time /\ o.time <= now /\ now' = now
    /\ starting' <= o.block
    /\ outputs = <<>> => o.trusted
    /\ outputs # <<>> =>
         /\ period' = period /\ starting' = starting
         /\ Latest.block <= o.block /\ Latest.time <= o.time
         /\ o.trusted \/ Follows(Latest, o)

Kept == outputs' = outputs /\ now <= now' /\ (outputs # <<>> => starting' = starting)

CutAt(i) ==
    /\ i \in DOMAIN outputs /\ ~Final(i)
    /\ outputs' = SubSeq(outputs, 1, i - 1)
    /\ UNCHANGED <<now, period, starting>>

OInv == OracleTypeOK /\ OutputsOrdered /\ ProvenSound

LEMMA OutputsSeq ==
    ASSUME OracleTypeOK
    PROVE  /\ DOMAIN outputs = 1 .. Len(outputs) /\ Len(outputs) \in Nat
           /\ \A i \in DOMAIN outputs :
                /\ outputs[i].root \in Int /\ outputs[i].block \in Nat /\ outputs[i].time \in Nat
                /\ outputs[i].trusted \in BOOLEAN
           /\ outputs # <<>> => Len(outputs) \in DOMAIN outputs
<1>1. outputs \in Seq(Output)
    BY DEF OracleTypeOK
<1>2. \A i \in DOMAIN outputs : outputs[i] \in Output
    BY <1>1
<1>3. \A o \in Output : /\ o.root \in Int /\ o.block \in Nat /\ o.time \in Nat
                          /\ o.trusted \in BOOLEAN
    BY ProgramsAssumption DEF Output, Root, Block, L1Block, Wrong
<1>q. QED
    BY <1>1, <1>2, <1>3

\* A proven output follows from the latest.
LEMMA ProvenFollows ==
    ASSUME NEW name \in ConfigNames, NEW root \in Root, NEW block \in Block, NEW head \in L1Block,
           VerifyProof(configs[name], Latest.root, root, block, head),
           configs[name] = "genuine", NEW t, NEW b
    PROVE  Follows(Latest, [root |-> root, block |-> block, time |-> t, trusted |-> b])
<1> DEFINE p == [l1Head |-> head, l2PreRoot |-> Latest.root, claimRoot |-> root,
                 claimBlockNum |-> block]
<1>1. p \in AggregationProofs
    BY DEF VerifyProof
<1>2. /\ p.l2PreRoot = Wrong => p.claimRoot = Wrong
      /\ p.l2PreRoot # Wrong =>
           p.l2PreRoot <= p.claimRoot /\ p.claimRoot <= p.claimBlockNum
    BY <1>1, AggregationSound
<1>q. QED
    BY <1>2 DEF Follows

LEMMA StartAdds ==
    ASSUME OInv, NEW v \in 1 .. MaxVersion, NEW root \in Root, NEW block \in Block,
           NEW n \in Intervals, NEW d \in Periods, Initialize(v, root, block, n, d)
    PROVE  (outputs = <<>> /\ \E o \in Output : Added(o)) \/ Kept
<1>1. CASE outputs = <<>>
    <2> DEFINE o == [root |-> root, block |-> block, time |-> block, trusted |-> TRUE]
    <2>1. block \in L1Block /\ block <= now /\ now \in L1Block
        BY ProgramsAssumption DEF Initialize, OInv, OracleTypeOK, L1Block, Block
    <2>2. o \in Output
        BY <2>1 DEF Output
    <2>3. Added(o)
        BY <1>1, <2>1, <2>2, ProgramsAssumption DEF Initialize, Added, Push, Block
    <2>q. QED
        BY <1>1, <2>2, <2>3
<1>2. CASE outputs # <<>>
    BY <1>2 DEF Initialize, Kept, OInv, OracleTypeOK, L1Block
<1>q. QED
    BY <1>1, <1>2

LEMMA ProposalAdds ==
    ASSUME OInv, NEW a \in Accounts, NEW root \in Root, NEW block \in Block
    PROVE  /\ ProposeOptimistic(a, root, block) => \E o \in Output : Added(o)
           /\ \A name \in ConfigNames, head \in L1Block :
                ProposeProven(a, name, root, block, head) => \E o \in Output : Added(o)
<1> DEFINE o(t) == [root |-> root, block |-> block, time |-> now, trusted |-> t]
<1>1. \A t \in BOOLEAN : o(t) \in Output
    BY DEF OInv, OracleTypeOK, Output
<1>2. now \in Nat /\ block \in Nat /\ starting \in Nat /\ interval \in Nat
    BY ProgramsAssumption DEF OInv, OracleTypeOK, L1Block, Block
<1>3. outputs # <<>> => /\ Latest.block \in Nat /\ Latest.time <= now
                        /\ starting <= Latest.block
    BY OutputsSeq DEF OInv, OutputsOrdered, Latest
<1>4. ASSUME block >= NextBlockNumber, ComputeL2Timestamp(block) < now
      PROVE  /\ block <= now /\ starting <= block
             /\ outputs # <<>> => Latest.block <= block
    BY <1>2, <1>3, <1>4 DEF NextBlockNumber, LatestBlockNumber, ComputeL2Timestamp
<1>5. ASSUME ProposeOptimistic(a, root, block)
      PROVE  Added(o(TRUE))
    <2>1. block >= NextBlockNumber /\ ComputeL2Timestamp(block) < now
        BY <1>5, <1>2 DEF ProposeOptimistic
    <2>2. o(TRUE) \in Output /\ o(TRUE).block = block /\ o(TRUE).time = now /\ o(TRUE).trusted
        BY <1>1
    <2>3. outputs' = Append(outputs, o(TRUE)) /\ UNCHANGED <<now, starting, period>>
        BY <1>5 DEF ProposeOptimistic, Push, settings
    <2> DEFINE p == o(TRUE)
    <2>4. p \in Output /\ p.block = block /\ p.time = now /\ p.trusted
        BY <2>2
    <2>5. outputs' = Append(outputs, p)
        BY <2>3
    <2> HIDE DEF p
    <2>q. QED
        BY <1>2, <1>3, <1>4, <2>1, <2>3, <2>4, <2>5 DEF Added
<1>6. ASSUME NEW name \in ConfigNames, NEW head \in L1Block,
             ProposeProven(a, name, root, block, head)
      PROVE  Added(o(configs[name] = "foreign"))
    <2>1. /\ block >= NextBlockNumber /\ ComputeL2Timestamp(block) < now /\ outputs # <<>>
          /\ UNCHANGED <<now, starting, period>>
        BY <1>6 DEF ProposeProven, AcceptsProven, settings
    <2>2. configs[name] \in Config /\ configs[name] # "none"
        BY <1>6 DEF ProposeProven, AcceptsProven, IsValidConfig, OInv, OracleTypeOK
    <2>3. configs[name] = "foreign" \/ Follows(Latest, o(configs[name] = "foreign"))
        <3>1. CASE configs[name] = "genuine"
            <4>1. VerifyProof(configs[name], Latest.root, root, block, head)
                BY <1>6 DEF ProposeProven, AcceptsProven
            <4>q. QED
                BY <3>1, <4>1, ProvenFollows
        <3>q. QED
            BY <2>2, <3>1 DEF Config
    <2>4. o(configs[name] = "foreign") \in Output
        BY <1>1
    <2>5. outputs' = Append(outputs, o(configs[name] = "foreign"))
        BY <1>6 DEF ProposeProven, AcceptsProven, Push
    <2> DEFINE p == o(configs[name] = "foreign")
    <2>6. p.block = block /\ p.time = now
        OBVIOUS
    <2>7. p.trusted = (configs[name] = "foreign")
        BY Zenon
    <2>8. p.trusted \/ Follows(Latest, p)
        BY <2>3, <2>7, Zenon
    <2>9. p \in Output /\ outputs' = Append(outputs, p)
        BY <2>4, <2>5, Zenon
    <2>10. Added(p)
        <3> HIDE DEF p
        <3>q. QED
            BY <1>2, <1>3, <1>4, <2>1, <2>6, <2>8, <2>9 DEF Added
    <2>q. QED
        BY <2>10, Zenon
<1>7. \A t \in BOOLEAN : Added(o(t)) => \E p \in Output : Added(p)
    BY <1>1
<1>q. QED
    BY <1>5, <1>6, <1>7

-----------------------------------------------------------------------------
LEMMA CutsAndKept ==
    ASSUME OInv
    PROVE  /\ \A i \in DOMAIN outputs : DeleteL2Outputs(i) => CutAt(i)
           /\ \A number \in L1Block : CheckpointBlockHash(number) => Kept
           /\ \A a \in Accounts : OwnerStep(a) => Kept
           /\ Tick => Kept
<1>0. now \in Nat
    BY ProgramsAssumption DEF OInv, OracleTypeOK, L1Block
<1>1. ASSUME NEW i \in DOMAIN outputs, DeleteL2Outputs(i)
      PROVE  CutAt(i)
    BY <1>1 DEF DeleteL2Outputs, CutAt, settings
<1>2. ASSUME NEW number \in L1Block, CheckpointBlockHash(number)
      PROVE  Kept
    BY <1>0, <1>2 DEF CheckpointBlockHash, Kept, settings
<1>3. ASSUME NEW a \in Accounts, OwnerStep(a)
      PROVE  outputs' = outputs /\ now' = now /\ starting' = starting
    BY <1>3 DEF OwnerStep, UpdateSubmissionInterval, DeleteOpSuccinctConfig, AddOpSuccinctConfig,
                TransferOwnership, AddProposer, RemoveProposer, ChangeProposers,
                ToggleOptimisticMode
<1>4. ASSUME NEW a \in Accounts, OwnerStep(a)
      PROVE  Kept
    BY <1>0, <1>3, <1>4 DEF Kept
<1>5. Tick => Kept
    BY <1>0 DEF Tick, Kept, settings
<1>q. QED
    BY <1>1, <1>2, <1>4, <1>5

\* Every step is one of the three.
LEMMA StepShape ==
    ASSUME OInv, [Next]_vars
    PROVE  (\E o \in Output : Added(o)) \/ Kept \/ (\E i \in DOMAIN outputs : CutAt(i))
<1>1. CASE Next
    BY <1>1, StartAdds, ProposalAdds, CutsAndKept, Zenon DEF Next
<1>2. CASE UNCHANGED vars
    BY <1>2, ProgramsAssumption
       DEF vars, settings, Kept, OInv, OracleTypeOK, L1Block
<1>q. QED
    BY <1>1, <1>2

\* The three keep the list ordered and sound.
LEMMA ShapesKeepOrder ==
    ASSUME OInv, OracleTypeOK',
           (\E o \in Output : Added(o)) \/ Kept \/ (\E i \in DOMAIN outputs : CutAt(i))
    PROVE  OutputsOrdered'
<1> USE DEF OInv
<1>0. starting \in Nat /\ now \in Nat /\ now' \in Nat /\ starting' \in Nat
    BY ProgramsAssumption DEF OracleTypeOK, L1Block, Block
<1>1. ASSUME NEW o \in Output, Added(o)
      PROVE  OutputsOrdered'
    <2>1. /\ DOMAIN outputs' = 1 .. Len(outputs) + 1
          /\ \A i \in DOMAIN outputs : outputs'[i] = outputs[i]
          /\ outputs'[Len(outputs) + 1] = o
        BY <1>1 DEF Added, OracleTypeOK
    <2>2. o.block \in Nat /\ o.time \in Nat /\ o.block <= o.time /\ o.time <= now'
        BY <1>1, ProgramsAssumption DEF Added, Output, Block, L1Block
    <2>3. ASSUME NEW i \in DOMAIN outputs
          PROVE  outputs[i].block <= o.block /\ outputs[i].time <= o.time
        <3>1. outputs # <<>> /\ Len(outputs) \in DOMAIN outputs /\ i <= Len(outputs)
            BY OutputsSeq
        <3>2. outputs[Len(outputs)].block <= o.block /\ outputs[Len(outputs)].time <= o.time
            BY <1>1, <3>1 DEF Added, Latest
        <3>3. /\ outputs[i].block <= outputs[Len(outputs)].block
              /\ outputs[i].time <= outputs[Len(outputs)].time
            BY <3>1 DEF OutputsOrdered
        <3>q. QED
            BY <2>2, <3>1, <3>2, <3>3, OutputsSeq
    <2>4. starting' <= o.block /\ \A i \in DOMAIN outputs : starting' <= outputs[i].block
        BY <1>1, OutputsSeq DEF Added, OutputsOrdered
    <2>5. \A i \in DOMAIN outputs : outputs[i].time <= now'
        BY <1>1 DEF Added, OutputsOrdered
    <2>6. \A i, j \in DOMAIN outputs' : i <= j =>
            outputs'[i].block <= outputs'[j].block /\ outputs'[i].time <= outputs'[j].time
        BY <2>1, <2>2, <2>3, OutputsSeq DEF OutputsOrdered
    <2>7. \A i \in DOMAIN outputs' :
            /\ outputs'[i].block <= outputs'[i].time /\ starting' <= outputs'[i].block
            /\ outputs'[i].time <= now'
        BY <2>1, <2>2, <2>4, <2>5, OutputsSeq DEF OutputsOrdered
    <2>q. QED
        BY <2>6, <2>7 DEF OutputsOrdered
<1>2. ASSUME Kept
      PROVE  OutputsOrdered'
    BY <1>0, <1>2, OutputsSeq DEF Kept, OutputsOrdered
<1>3. ASSUME NEW i \in DOMAIN outputs, CutAt(i)
      PROVE  OutputsOrdered'
    <2>1. /\ DOMAIN outputs' \subseteq DOMAIN outputs
          /\ \A j \in DOMAIN outputs' : outputs'[j] = outputs[j]
        BY <1>3, OutputsSeq DEF CutAt, OracleTypeOK
    <2>q. QED
        BY <1>3, <2>1 DEF CutAt, OutputsOrdered
<1>q. QED
    BY <1>1, <1>2, <1>3

LEMMA ShapesKeepSound ==
    ASSUME OInv, OracleTypeOK',
           (\E o \in Output : Added(o)) \/ Kept \/ (\E i \in DOMAIN outputs : CutAt(i))
    PROVE  ProvenSound'
<1> USE DEF OInv
<1>1. ASSUME NEW o \in Output, Added(o)
      PROVE  ProvenSound'
    <2>1. /\ DOMAIN outputs' = 1 .. Len(outputs) + 1
          /\ \A i \in DOMAIN outputs : outputs'[i] = outputs[i]
          /\ outputs'[Len(outputs) + 1] = o
        BY <1>1 DEF Added, OracleTypeOK
    <2> SUFFICES ASSUME NEW i \in DOMAIN outputs', NEW j \in DOMAIN outputs',
                        j < i, outputs'[j].root # Wrong,
                        \A k \in j + 1 .. i : ~outputs'[k].trusted
                 PROVE  outputs'[j].root <= outputs'[i].root
                        /\ outputs'[i].root <= outputs'[i].block
        BY DEF ProvenSound
    <2>2. CASE i \in DOMAIN outputs
        <3>1. j \in DOMAIN outputs /\ j + 1 .. i \subseteq DOMAIN outputs
            BY <2>1, <2>2, OutputsSeq
        <3>2. \A k \in j + 1 .. i : outputs[k] = outputs'[k]
            BY <2>1, <3>1
        <3>3. \A k \in j + 1 .. i : ~outputs[k].trusted
            BY <3>2, Zenon
        <3>q. QED
            BY <2>1, <2>2, <3>1, <3>3 DEF ProvenSound
    <2>3. CASE i = Len(outputs) + 1
        <3>1. /\ j \in DOMAIN outputs /\ outputs # <<>> /\ ~o.trusted
              /\ \A k \in j + 1 .. Len(outputs) : ~outputs[k].trusted
              /\ outputs[j].root # Wrong
            <4>1. j \in DOMAIN outputs /\ outputs # <<>> /\ i \in j + 1 .. i
                BY <2>1, <2>3, OutputsSeq
            <4>2. j + 1 .. Len(outputs) \subseteq j + 1 .. i
                BY <2>3, <4>1, OutputsSeq
            <4>3. \A k \in j + 1 .. Len(outputs) : outputs[k] = outputs'[k]
                BY <2>1, <4>1, OutputsSeq
            <4>4. \A k \in j + 1 .. Len(outputs) : ~outputs[k].trusted
                BY <4>2, <4>3, Zenon
            <4>5. ~o.trusted
                BY <2>1, <2>3, <4>1, Zenon
            <4>6. outputs[j].root # Wrong
                BY <2>1, <4>1, Zenon
            <4>q. QED
                BY <4>1, <4>4, <4>5, <4>6
        <3>2. Follows(Latest, o)
            BY <1>1, <3>1 DEF Added
        <3>3. /\ Len(outputs) \in DOMAIN outputs /\ Latest = outputs[Len(outputs)]
              /\ outputs[j].root \in Int /\ Latest.root \in Int /\ o.root \in Int /\ o.block \in Int
            BY <1>1, <3>1, OutputsSeq, ProgramsAssumption
               DEF Latest, Output, Root, Block, Wrong
        <3>4. Latest.root # Wrong /\ outputs[j].root <= Latest.root
            <4>1. CASE j = Len(outputs)
                BY <3>1, <3>3, <4>1
            <4>2. CASE j < Len(outputs)
                <5>1. outputs[j].root <= outputs[Len(outputs)].root
                    BY <3>1, <3>3, <4>2 DEF ProvenSound
                <5>2. outputs[j].root >= 0
                    <6>1. outputs[j] \in Output
                        BY <3>1 DEF OracleTypeOK
                    <6>q. QED
                        BY <3>1, <6>1, ProgramsAssumption DEF Output, Root, Block, Wrong
                <5>q. QED
                    BY <3>3, <5>1, <5>2 DEF Wrong
            <4>q. QED
                BY <3>1, <4>1, <4>2, OutputsSeq
        <3>q. QED
            BY <2>1, <2>3, <3>1, <3>2, <3>3, <3>4 DEF Follows
    <2>q. QED
        BY <2>1, <2>2, <2>3, OutputsSeq
<1>2. ASSUME Kept
      PROVE  ProvenSound'
    BY <1>2 DEF Kept, ProvenSound
<1>3. ASSUME NEW i \in DOMAIN outputs, CutAt(i)
      PROVE  ProvenSound'
    <2>1. /\ DOMAIN outputs' \subseteq DOMAIN outputs
          /\ DOMAIN outputs' = 1 .. i - 1
          /\ \A j \in DOMAIN outputs' : outputs'[j] = outputs[j]
        BY <1>3, OutputsSeq DEF CutAt, OracleTypeOK
    <2>2. \A j, k \in DOMAIN outputs' : j + 1 .. k \subseteq DOMAIN outputs'
        BY <1>3, <2>1, OutputsSeq
    <2>q. QED
        BY <2>1, <2>2 DEF ProvenSound
<1>q. QED
    BY <1>1, <1>2, <1>3

-----------------------------------------------------------------------------
LEMMA OwnerStepTypes ==
    ASSUME OracleTypeOK, NEW a \in Accounts, OwnerStep(a)
    PROVE  OracleTypeOK'
<1> USE DEF OracleTypeOK, OwnerDoes
<1>0. MaxChanges \in Nat /\ Intervals \subseteq Nat /\ Periods \subseteq Nat
    BY OracleAssumption
<1>1. changes' \in 0 .. MaxChanges
    BY <1>0 DEF OwnerStep, UpdateSubmissionInterval, DeleteOpSuccinctConfig,
                AddOpSuccinctConfig, TransferOwnership, AddProposer, RemoveProposer,
                ChangeProposers, ToggleOptimisticMode
<1>2. ASSUME NEW n \in Intervals, UpdateSubmissionInterval(a, n)
      PROVE  OracleTypeOK'
    BY <1>0, <1>1, <1>2 DEF UpdateSubmissionInterval
<1>3. ASSUME NEW name \in ConfigNames, DeleteOpSuccinctConfig(a, name)
      PROVE  OracleTypeOK'
    BY <1>1, <1>3 DEF DeleteOpSuccinctConfig, Config
<1>4. ASSUME NEW name \in ConfigNames, NEW config \in Config, AddOpSuccinctConfig(a, name, config)
      PROVE  OracleTypeOK'
    BY <1>1, <1>4 DEF AddOpSuccinctConfig
<1>5. ASSUME NEW b \in Accounts, TransferOwnership(a, b)
      PROVE  OracleTypeOK'
    BY <1>1, <1>5 DEF TransferOwnership
<1>6. ASSUME NEW p \in Accounts \cup {Nobody}, AddProposer(a, p) \/ RemoveProposer(a, p)
      PROVE  OracleTypeOK'
    BY <1>1, <1>6 DEF AddProposer, RemoveProposer, ChangeProposers
<1>7. ASSUME NEW d \in Periods, ToggleOptimisticMode(a, d)
      PROVE  OracleTypeOK'
    BY <1>0, <1>1, <1>7 DEF ToggleOptimisticMode
<1>q. QED
    BY <1>2, <1>3, <1>4, <1>5, <1>6, <1>7 DEF OwnerStep

\* What does not become the list's or the time's keeps its type.
LEMMA NextTypes ==
    ASSUME OInv, [Next]_vars
    PROVE  OracleTypeOK'
<1> USE DEF OInv
<1>0. now \in Nat /\ MaxTime \in Nat
    BY ProgramsAssumption DEF OracleTypeOK, L1Block
<1>1. ASSUME NEW v \in 1 .. MaxVersion, NEW root \in Root, NEW block \in Block,
             NEW n \in Intervals, NEW d \in Periods, Initialize(v, root, block, n, d)
      PROVE  OracleTypeOK'
    <2>1. outputs' \in Seq(Output)
        <3>1. CASE outputs = <<>>
            <4>1. block \in L1Block
                BY <1>0, <1>1, ProgramsAssumption DEF Initialize, OracleTypeOK, L1Block, Block
            <4>2. [root |-> root, block |-> block, time |-> block, trusted |-> TRUE] \in Output
                BY <4>1 DEF Output
            <4>3. outputs' = Append(outputs, [root |-> root, block |-> block, time |-> block,
                                              trusted |-> TRUE])
                BY <3>1, <1>1, Zenon DEF Initialize, Push
            <4> DEFINE o == [root |-> root, block |-> block, time |-> block, trusted |-> TRUE]
            <4> HIDE DEF o
            <4>4. o \in Output /\ outputs' = Append(outputs, o) /\ outputs \in Seq(Output)
                BY <4>2, <4>3 DEF o, OracleTypeOK
            <4>q. QED
                BY <4>4
        <3>q. QED
            BY <3>1, <1>1 DEF Initialize, OracleTypeOK
    <2>2. starting' \in Block /\ interval' \in Nat /\ period' \in Nat /\ version' \in 0 .. MaxVersion
        <3>1. starting' \in Block
            BY <1>1 DEF Initialize, OracleTypeOK
        <3>2. n \in Nat /\ d \in Nat /\ v \in 0 .. MaxVersion
            BY OracleAssumption
        <3>q. QED
            BY <1>1, <3>1, <3>2 DEF Initialize
    <2>3. /\ approved' \subseteq Accounts \cup {Nobody} /\ owner' \in Accounts \cup {Nobody}
          /\ configs' \in [ConfigNames -> Config]
        BY <1>1, OracleAssumption DEF Initialize, OracleTypeOK, Config
    <2>q. QED
        BY <1>1, <2>1, <2>2, <2>3 DEF Initialize, OracleTypeOK
<1>2. ASSUME NEW i \in DOMAIN outputs, DeleteL2Outputs(i)
      PROVE  OracleTypeOK'
    <2>1. outputs' \in Seq(Output)
        BY <1>2 DEF DeleteL2Outputs, OracleTypeOK
    <2>q. QED
        BY <1>2, <2>1 DEF DeleteL2Outputs, OracleTypeOK, settings
<1>3. ASSUME NEW a \in Accounts, NEW root \in Root, NEW block \in Block,
             \/ ProposeOptimistic(a, root, block)
             \/ \E name \in ConfigNames, head \in L1Block :
                  ProposeProven(a, name, root, block, head)
      PROVE  OracleTypeOK'
    <2>1. PICK o \in Output : Added(o)
        BY <1>3, ProposalAdds
    <2>2. outputs' \in Seq(Output)
        BY <2>1 DEF Added, OracleTypeOK
    <2>3. UNCHANGED <<now, checkpointed, settings>>
        BY <1>3 DEF ProposeOptimistic, ProposeProven, AcceptsProven
    <2>q. QED
        BY <2>2, <2>3 DEF OracleTypeOK, settings
<1>4. ASSUME NEW number \in L1Block, CheckpointBlockHash(number)
      PROVE  OracleTypeOK'
    BY <1>0, <1>4 DEF CheckpointBlockHash, OracleTypeOK, settings, L1Block
<1>5. ASSUME NEW a \in Accounts, OwnerStep(a)
      PROVE  OracleTypeOK'
    BY <1>5, OwnerStepTypes
<1>6. CASE Tick
    BY <1>0, <1>6 DEF Tick, OracleTypeOK, settings, L1Block
<1>7. CASE UNCHANGED vars
    BY <1>7 DEF vars, settings, OracleTypeOK
<1>q. QED
    BY <1>1, <1>2, <1>3, <1>4, <1>5, <1>6, <1>7 DEF Next

LEMMA InitInv == Init => OInv
<1> SUFFICES ASSUME Init
             PROVE  OInv
    OBVIOUS
<1>1. OracleTypeOK
    <2>1. now \in L1Block /\ version \in 0 .. MaxVersion /\ starting \in Block
          /\ changes \in 0 .. MaxChanges /\ interval \in Nat /\ period \in Nat
        <3>1. 0 \in Block /\ 0 \in L1Block
            BY ProgramsAssumption DEF Block, L1Block
        <3>2. 0 \in 0 .. MaxVersion /\ 0 \in 0 .. MaxChanges
            BY OracleAssumption
        <3>q. QED
            BY <3>1, <3>2 DEF Init
    <2>2. outputs \in Seq(Output) /\ optimistic \in BOOLEAN /\ checkpointed \subseteq 0 .. now - 1
        <3>1. outputs \in Seq(Output)
            BY DEF Init
        <3>2. optimistic \in BOOLEAN /\ checkpointed \subseteq 0 .. now - 1
            BY Zenon DEF Init
        <3>q. QED
            BY <3>1, <3>2
    <2>3. configs \in [ConfigNames -> Config]
        BY DEF Init, Config
    <2>q. QED
        BY <2>1, <2>2, <2>3 DEF Init, OracleTypeOK
<1>2. OutputsOrdered /\ ProvenSound
    BY DEF Init, OutputsOrdered, ProvenSound
<1>q. QED
    BY <1>1, <1>2 DEF OInv

LEMMA NextInv == OInv /\ [Next]_vars => OInv'
BY NextTypes, StepShape, ShapesKeepOrder, ShapesKeepSound DEF OInv

LEMMA SpecInv == Spec => []OInv
BY InitInv, NextInv, PTL DEF Spec

\* The oracle's variables keep their types and only past blocks are checkpointed.
THEOREM OracleTypesHold == Spec => []OracleTypeOK
<1>1. OInv => OracleTypeOK
    BY DEF OInv
<1>q. QED
    BY <1>1, SpecInv, PTL

\* Deletions, configurations, optimistic mode and upgrades never disorder the list.
THEOREM OrderHolds == Spec => []OutputsOrdered
<1>1. OInv => OutputsOrdered
    BY DEF OInv
<1>q. QED
    BY <1>1, SpecInv, PTL

\* Proofs alone never lead from a root of the chain to anything but a later one, not
\* after the block claimed, for any number of blocks, outputs and range proofs.
THEOREM SoundnessHolds == Spec => []ProvenSound
<1>1. OInv => ProvenSound
    BY DEF OInv
<1>q. QED
    BY <1>1, SpecInv, PTL

-----------------------------------------------------------------------------
\* In a list ordered by time what is final is a prefix, and FinalCount its length.
LEMMA FinalPrefix ==
    ASSUME NEW os \in Seq(Output), NEW t \in Nat, NEW d \in Nat,
           \A i, j \in DOMAIN os : i <= j => os[i].time <= os[j].time
    PROVE  /\ FinalCount(os, t, d) \in 0 .. Len(os)
           /\ \A i \in DOMAIN os : IsFinal(os[i], t, d) <=> i <= FinalCount(os, t, d)
<1>0. /\ DOMAIN os = 1 .. Len(os) /\ Len(os) \in Nat
      /\ \A i \in DOMAIN os : os[i].time \in Nat
    <2>1. DOMAIN os = 1 .. Len(os) /\ Len(os) \in Nat /\ \A i \in DOMAIN os : os[i] \in Output
        OBVIOUS
    <2>2. \A o \in Output : o.time \in Nat
        BY ProgramsAssumption DEF Output, L1Block
    <2>q. QED
        BY <2>1, <2>2
<1>1. CASE \A i \in DOMAIN os : IsFinal(os[i], t, d)
    BY <1>0, <1>1 DEF FinalCount
<1>2. CASE \E i \in DOMAIN os : ~IsFinal(os[i], t, d)
    <2> DEFINE T == {i \in DOMAIN os : ~IsFinal(os[i], t, d)}
               First(i) == i \in DOMAIN os /\ ~IsFinal(os[i], t, d)
                           /\ \A j \in 1 .. i - 1 : IsFinal(os[j], t, d)
    <2>1. PICK i \in T : \A j \in T : i <= j
        <3>1. T \subseteq Nat /\ T # {}
            BY <1>0, <1>2
        <3> HIDE DEF T
        <3>q. QED
            BY <3>1, Least
    <2>2. \A j \in 1 .. i - 1 : IsFinal(os[j], t, d)
        <3> SUFFICES ASSUME NEW j \in 1 .. i - 1, ~IsFinal(os[j], t, d)
                     PROVE  FALSE
            OBVIOUS
        <3>1. j \in T
            BY <1>0, <2>1
        <3>q. QED
            BY <1>0, <2>1, <3>1
    <2>3. \E k \in DOMAIN os : ~IsFinal(os[k], t, d) /\ \A j \in 1 .. k - 1 : IsFinal(os[j], t, d)
        BY <2>1, <2>2
    <2>4. PICK k \in DOMAIN os : /\ ~IsFinal(os[k], t, d)
                                 /\ \A j \in 1 .. k - 1 : IsFinal(os[j], t, d)
                                 /\ FinalCount(os, t, d) = k - 1
        <3> DEFINE k == CHOOSE k \in DOMAIN os :
                          ~IsFinal(os[k], t, d) /\ \A j \in 1 .. k - 1 : IsFinal(os[j], t, d)
        <3>1. /\ k \in DOMAIN os /\ ~IsFinal(os[k], t, d)
              /\ \A j \in 1 .. k - 1 : IsFinal(os[j], t, d)
            BY <2>3
        <3>2. FinalCount(os, t, d) = k - 1
            BY <1>2 DEF FinalCount
        <3>q. QED
            BY <3>1, <3>2
    <2>5. ASSUME NEW j \in DOMAIN os, k <= j
          PROVE  ~IsFinal(os[j], t, d)
        <3>1. os[k].time <= os[j].time /\ os[k].time \in Nat /\ os[j].time \in Nat
            BY <1>0, <2>4, <2>5
        <3>q. QED
            BY <2>4, <3>1 DEF IsFinal
    <2>q. QED
        BY <1>0, <2>4, <2>5
<1>q. QED
    BY <1>1, <1>2

Finals == FinalCount(outputs, now, period)

LEMMA FinalsFacts ==
    ASSUME OInv
    PROVE  /\ Finals \in 0 .. Len(outputs)
           /\ \A i \in DOMAIN outputs : Final(i) <=> i <= Finals
<1>1. outputs \in Seq(Output) /\ now \in Nat /\ period \in Nat
    BY ProgramsAssumption DEF OInv, OracleTypeOK, L1Block
<1>2. \A i, j \in DOMAIN outputs : i <= j => outputs[i].time <= outputs[j].time
    BY DEF OInv, OutputsOrdered
<1>q. QED
    BY <1>1, <1>2, FinalPrefix DEF Finals, Final

\* Every step of the oracle is one of OutputChain or changes nothing there.
LEMMA ChainStep ==
    ASSUME OInv, [Next]_vars
    PROVE  [Chain!Next]_(Chain!vars)
<1> USE DEF Chain!Next, Chain!Extend, Chain!Cut, Chain!Judge, Chain!vars
<1>0. OInv'
    BY NextInv
<1>1. Finals \in 0 .. Len(outputs) /\ \A i \in DOMAIN outputs : Final(i) <=> i <= Finals
    BY FinalsFacts
<1>2. /\ Finals' \in 0 .. Len(outputs')
      /\ \A i \in DOMAIN outputs' : Final(i)' <=> i <= Finals'
    <2>1. outputs' \in Seq(Output) /\ now' \in Nat /\ period' \in Nat
        BY <1>0, ProgramsAssumption DEF OInv, OracleTypeOK, L1Block
    <2>2. \A i, j \in DOMAIN outputs' : i <= j => outputs'[i].time <= outputs'[j].time
        BY <1>0 DEF OInv, OutputsOrdered
    <2>q. QED
        BY <2>1, <2>2, FinalPrefix DEF Finals, Final
<1>3. /\ DOMAIN outputs = 1 .. Len(outputs) /\ Len(outputs) \in Nat
      /\ DOMAIN outputs' = 1 .. Len(outputs') /\ Len(outputs') \in Nat
    BY <1>0 DEF OInv, OracleTypeOK
<1>4. ASSUME NEW o \in Output, Added(o)
      PROVE  Chain!Extend(o)
    <2>1. Len(outputs') = Len(outputs) + 1 /\ \A i \in DOMAIN outputs : outputs'[i] = outputs[i]
        BY <1>4 DEF Added, OInv, OracleTypeOK
    <2>2. Finals <= Finals'
        <3>1. CASE outputs = <<>>
            BY <1>1, <1>2, <1>3, <3>1
        <3>2. CASE outputs # <<>>
            <4>1. \A i \in DOMAIN outputs : Final(i)' <=> Final(i)
                BY <1>4, <2>1, <3>2 DEF Added, Final
            <4>2. CASE Finals = 0
                BY <1>2, <4>2
            <4>3. CASE Finals # 0
                <5>1. Finals \in DOMAIN outputs /\ Finals \in DOMAIN outputs'
                    BY <1>1, <1>3, <2>1, <4>3
                <5>q. QED
                    BY <1>1, <1>2, <4>1, <5>1
            <4>q. QED
                BY <4>2, <4>3
        <3>q. QED
            BY <3>1, <3>2
    <2>3. o.trusted \/ (outputs # <<>> /\ Follows(outputs[Len(outputs)], o))
        BY <1>4 DEF Added, Latest
    <2>4. outputs' = Append(outputs, o)
        BY <1>4 DEF Added
    <2>5. Finals' \in Finals .. Len(outputs) + 1
        BY <1>1, <1>2, <1>3, <2>1, <2>2
    <2>q. QED
        BY <2>3, <2>4, <2>5 DEF Finals
<1>5. ASSUME Kept
      PROVE  Chain!Judge
    BY <1>2, <1>5 DEF Kept, Finals
<1>6. ASSUME NEW i \in DOMAIN outputs, CutAt(i)
      PROVE  Chain!Cut(i)
    <2>1. Finals < i
        BY <1>1, <1>3, <1>6 DEF CutAt
    <2>2. outputs' = SubSeq(outputs, 1, i - 1) /\ now' = now /\ period' = period
        BY <1>6 DEF CutAt
    <2>3. Len(outputs') = i - 1 /\ \A j \in DOMAIN outputs' : outputs'[j] = outputs[j]
        BY <1>3, <1>6, <2>2 DEF OInv, OracleTypeOK
    <2>4. \A j \in DOMAIN outputs' : j \in DOMAIN outputs /\ (Final(j)' <=> Final(j))
        BY <1>3, <2>2, <2>3 DEF Final
    <2>5. Finals' = Finals
        <3>1. \A j \in 1 .. i - 1 : j <= Finals' <=> j <= Finals
            BY <1>1, <1>2, <1>3, <2>3, <2>4
        <3>q. QED
            BY <1>1, <1>2, <1>3, <2>1, <2>3, <3>1
    <2>q. QED
        BY <2>1, <2>2, <2>5 DEF Finals
<1>q. QED
    BY <1>4, <1>5, <1>6, StepShape

\* The oracle implements OutputChain: no step withdraws an output that is final under the
\* period in force, and none adds one that is neither trusted nor follows by proof.
THEOREM ChainHolds == Spec => ChainSpec
<1>1. Init => Chain!Init
    <2>1. <<>> \in Seq(Output) /\ DOMAIN <<>> = {} /\ Len(<<>>) = 0
        OBVIOUS
    <2>q. QED
        BY <2>1 DEF Init, Chain!Init, FinalCount
<1>2. OInv /\ [Next]_vars => [Chain!Next]_(Chain!vars)
    BY ChainStep
<1>q. QED
    BY <1>1, <1>2, SpecInv, PTL DEF Spec, ChainSpec, Chain!Spec

-----------------------------------------------------------------------------
\* The binary search of getL2OutputIndexAfter.

\* One call of the search as it stands in SearchIndex.
SearchStep(f, os, block, lo, hi) ==
    IF lo >= hi THEN lo
    ELSE IF os[Midpoint(lo, hi)].block < block
         THEN f[<<Midpoint(lo, hi) + 1, hi>>] ELSE f[<<lo, Midpoint(lo, hi)>>]

Places(os) == 1 .. Len(os) + 1

Searches(f, os, block) ==
    f = [s \in Places(os) \X Places(os) |-> SearchStep(f, os, block, s[1], s[2])]

\* The result is that of the first call.
LEMMA SearchIsFirstCall ==
    ASSUME NEW os, NEW block
    PROVE  SearchIndex(os, block) = (CHOOSE f : Searches(f, os, block))[<<1, Len(os) + 1>>]
BY DEF SearchIndex, Searches, SearchStep, Places

\* The middle of an interval that is not empty lies within it.
LEMMA MidpointWithin ==
    ASSUME NEW os, Len(os) \in Nat, NEW lo \in Places(os), NEW hi \in Places(os), lo < hi
    PROVE  \E mid \in Places(os) :
             /\ mid = Midpoint(lo, hi) /\ mid + 1 \in Places(os) /\ mid \in 1 .. Len(os)
             /\ lo <= mid /\ mid < hi
<1>1. lo \in Int /\ hi \in Int /\ 1 <= lo /\ hi <= Len(os) + 1
    BY DEF Places
<1>2. PICK mid \in Int : mid = (lo + hi) \div 2 /\ lo <= mid /\ mid < hi
    BY <1>1
<1>q. QED
    BY <1>1, <1>2 DEF Places, Midpoint

\* A step depends only on calls on shorter intervals.
LEMMA StepDependsOnShorter ==
    ASSUME NEW os, Len(os) \in Nat, NEW block, NEW f, NEW g,
           NEW lo \in Places(os), NEW hi \in Places(os),
           \A a, b \in Places(os) : b - a < hi - lo => f[<<a, b>>] = g[<<a, b>>]
    PROVE  SearchStep(f, os, block, lo, hi) = SearchStep(g, os, block, lo, hi)
<1>1. lo \in Int /\ hi \in Int
    BY DEF Places
<1>2. CASE lo >= hi
    BY <1>2 DEF SearchStep
<1>3. CASE lo < hi
    <2>1. PICK mid \in Places(os) :
            /\ mid = Midpoint(lo, hi) /\ mid + 1 \in Places(os) /\ mid \in 1 .. Len(os)
            /\ lo <= mid /\ mid < hi
        BY <1>3, MidpointWithin
    <2>2. hi - (mid + 1) < hi - lo /\ mid - lo < hi - lo
        BY <1>1, <2>1
    <2>3. f[<<mid + 1, hi>>] = g[<<mid + 1, hi>>] /\ f[<<lo, mid>>] = g[<<lo, mid>>]
        BY <2>1, <2>2
    <2>q. QED
        BY <2>1, <2>3 DEF SearchStep
<1>q. QED
    BY <1>1, <1>2, <1>3

\* The calls of the search end: each is on a shorter interval than the one it is made from.
LEMMA SearchEnds ==
    ASSUME NEW os, NEW block, Len(os) \in Nat
    PROVE  \E f : Searches(f, os, block)
<1> DEFINE D == Places(os)
           Done(f, k) == \A lo, hi \in D :
                           hi - lo < k => f[<<lo, hi>>] = SearchStep(f, os, block, lo, hi)
           T == {k \in Nat : \E f : Done(f, k - Len(os))}
<1>0. \A lo, hi \in D : hi - lo \in Int /\ -Len(os) <= hi - lo /\ hi - lo <= Len(os)
    BY DEF Places
<1>1. 0 \in T
    <2>1. Done(<<>>, 0 - Len(os))
        BY <1>0
    <2> HIDE DEF Done
    <2>q. QED
        BY <2>1
<1>2. ASSUME NEW k \in Nat, k \in T
      PROVE  k + 1 \in T
    <2>1. PICK f : Done(f, k - Len(os))
        BY <1>2
    <2> DEFINE g == [s \in D \X D |-> SearchStep(f, os, block, s[1], s[2])]
    <2>2. \A lo, hi \in D : g[<<lo, hi>>] = SearchStep(f, os, block, lo, hi)
        <3> HIDE DEF D
        <3>q. QED
            OBVIOUS
    <2> HIDE DEF g
    <2>3. \A lo, hi \in D : hi - lo < k - Len(os) => g[<<lo, hi>>] = f[<<lo, hi>>]
        BY <2>1, <2>2
    <2>4. ASSUME NEW lo \in D, NEW hi \in D, hi - lo < k + 1 - Len(os)
          PROVE  g[<<lo, hi>>] = SearchStep(g, os, block, lo, hi)
        <3>1. \A a, b \in D : b - a < hi - lo => b - a < k - Len(os)
            BY <1>0, <2>4
        <3>2. \A a, b \in D : b - a < hi - lo => f[<<a, b>>] = g[<<a, b>>]
            BY <2>3, <3>1
        <3>q. QED
            BY <2>2, <3>2, StepDependsOnShorter
    <2>5. Done(g, k + 1 - Len(os))
        BY <2>4
    <2> HIDE DEF Done
    <2>q. QED
        BY <2>5
<1>3. 2 * Len(os) + 1 \in T
    <2> HIDE DEF T
    <2>q. QED
        BY <1>1, <1>2, SetInduction
<1>4. PICK f : \A lo, hi \in D : f[<<lo, hi>>] = SearchStep(f, os, block, lo, hi)
    <2>1. PICK f : Done(f, 2 * Len(os) + 1 - Len(os))
        BY <1>3
    <2>2. \A lo, hi \in D : hi - lo < 2 * Len(os) + 1 - Len(os)
        BY <1>0
    <2>q. QED
        BY <2>1, <2>2
<1> DEFINE g == [s \in D \X D |-> SearchStep(f, os, block, s[1], s[2])]
<1>5. \A lo, hi \in D : g[<<lo, hi>>] = SearchStep(f, os, block, lo, hi)
    <2> HIDE DEF D
    <2>q. QED
        OBVIOUS
<1>6. \A lo, hi \in D : SearchStep(f, os, block, lo, hi) = SearchStep(g, os, block, lo, hi)
    <2> HIDE DEF g
    <2>1. \A lo, hi \in D : g[<<lo, hi>>] = f[<<lo, hi>>]
        BY <1>4, <1>5
    <2>q. QED
        BY <2>1, StepDependsOnShorter
<1>7. \A s \in D \X D : s[1] \in D /\ s[2] \in D
    OBVIOUS
<1>8. [s \in D \X D |-> SearchStep(f, os, block, s[1], s[2])]
        = [s \in D \X D |-> SearchStep(g, os, block, s[1], s[2])]
    <2> HIDE DEF g, D
    <2>q. QED
        BY <1>6, <1>7
<1>9. Searches(g, os, block)
    BY <1>8 DEF Searches
<1>q. QED
    BY <1>9

\* On a list in the order of its blocks the search returns the place of the first output
\* for the block or one after it, or that after the last.
LEMMA SearchFinds ==
    ASSUME NEW os, Len(os) \in Nat, NEW block \in Int,
           \A i \in 1 .. Len(os) : os[i].block \in Int,
           \A i, j \in 1 .. Len(os) : i <= j => os[i].block <= os[j].block
    PROVE  /\ SearchIndex(os, block) \in 1 .. Len(os) + 1
           /\ \A i \in 1 .. Len(os) : os[i].block < block <=> i < SearchIndex(os, block)
<1> DEFINE D == Places(os)
           Between(lo, hi) == \A i \in 1 .. Len(os) :
                                (i < lo => os[i].block < block) /\ (hi <= i => block <= os[i].block)
<1>1. PICK f : f = (CHOOSE g : Searches(g, os, block))
    OBVIOUS
<1>2. Searches(f, os, block)
    BY <1>1, SearchEnds
<1>3. \A lo, hi \in D : f[<<lo, hi>>] = SearchStep(f, os, block, lo, hi)
    BY <1>2 DEF Searches
<1> DEFINE T == {k \in Nat : \A lo, hi \in D :
                   hi - lo = k /\ Between(lo, hi) =>
                     f[<<lo, hi>>] \in D /\ Between(f[<<lo, hi>>], f[<<lo, hi>>])}
           U == {k \in Nat : \A j \in 0 .. k : j \in T}
<1>4. ASSUME NEW k \in Nat, \A j \in 0 .. k - 1 : j \in T
      PROVE  k \in T
    <2> SUFFICES ASSUME NEW lo \in D, NEW hi \in D, hi - lo = k, Between(lo, hi)
                 PROVE  f[<<lo, hi>>] \in D /\ Between(f[<<lo, hi>>], f[<<lo, hi>>])
        OBVIOUS
    <2>0. lo \in Int /\ hi \in Int /\ f[<<lo, hi>>] = SearchStep(f, os, block, lo, hi)
        BY <1>3 DEF Places
    <2> HIDE DEF T, Between, D
    <2>1. CASE lo >= hi
        <3>1. f[<<lo, hi>>] = lo /\ lo = hi
            BY <2>0, <2>1 DEF SearchStep
        <3>q. QED
            BY <3>1
    <2>2. CASE lo < hi
        <3>1. PICK mid \in D : /\ mid = Midpoint(lo, hi) /\ mid + 1 \in D
                               /\ lo <= mid /\ mid < hi /\ mid \in 1 .. Len(os)
            BY <2>2, MidpointWithin DEF D
        <3>2. CASE os[mid].block < block
            <4>1. f[<<lo, hi>>] = f[<<mid + 1, hi>>]
                BY <2>0, <2>2, <3>1, <3>2 DEF SearchStep
            <4>2. Between(mid + 1, hi)
                <5> SUFFICES ASSUME NEW i \in 1 .. Len(os), i < mid + 1
                             PROVE  os[i].block < block
                    BY DEF Between
                <5>1. os[i].block <= os[mid].block /\ os[i].block \in Int /\ os[mid].block \in Int
                    BY <3>1
                <5>q. QED
                    BY <3>2, <5>1
            <4>3. hi - (mid + 1) \in T
                BY <1>4, <2>0, <3>1
            <4>q. QED
                BY <3>1, <4>1, <4>2, <4>3 DEF T
        <3>3. CASE ~(os[mid].block < block)
            <4>1. f[<<lo, hi>>] = f[<<lo, mid>>]
                BY <2>0, <2>2, <3>1, <3>3 DEF SearchStep
            <4>2. Between(lo, mid)
                <5> SUFFICES ASSUME NEW i \in 1 .. Len(os), mid <= i
                             PROVE  block <= os[i].block
                    BY DEF Between
                <5>1. os[mid].block <= os[i].block /\ os[i].block \in Int /\ os[mid].block \in Int
                    BY <3>1
                <5>q. QED
                    BY <3>3, <5>1
            <4>3. mid - lo \in T
                BY <1>4, <2>0, <3>1
            <4>q. QED
                BY <3>1, <4>1, <4>2, <4>3 DEF T
        <3>q. QED
            BY <3>2, <3>3
    <2>q. QED
        BY <2>0, <2>1, <2>2
<1>5. Nat \subseteq U
    <2> HIDE DEF T
    <2>1. 0 \in U
        <3>1. 0 \in T
            BY <1>4
        <3>q. QED
            BY <3>1
    <2>2. ASSUME NEW k \in Nat, k \in U
          PROVE  k + 1 \in U
        <3>1. k + 1 \in T
            BY <1>4, <2>2
        <3>2. \A j \in 0 .. k + 1 : j \in 0 .. k \/ j = k + 1
            OBVIOUS
        <3>q. QED
            BY <2>2, <3>1, <3>2
    <2> HIDE DEF U
    <2>q. QED
        BY <2>1, <2>2, SetInduction
<1>6. Len(os) \in T
    <2> HIDE DEF T
    <2>q. QED
        BY <1>5
<1>7. Between(1, Len(os) + 1) /\ 1 \in D /\ Len(os) + 1 \in D
    BY DEF Places
<1>8. f[<<1, Len(os) + 1>>] \in D /\ Between(f[<<1, Len(os) + 1>>], f[<<1, Len(os) + 1>>])
    <2>1. Len(os) + 1 - 1 = Len(os)
        OBVIOUS
    <2> HIDE DEF D, Between
    <2>q. QED
        BY <1>6, <1>7, <2>1
<1>9. PICK r \in D : r = SearchIndex(os, block) /\ Between(r, r)
    BY <1>1, <1>8, SearchIsFirstCall
<1>q. QED
    BY <1>9 DEF Places

\* Whatever was deleted, reconfigured or proposed on one and the same block, the search
\* returns the first output for a block or one after it, as long as there is one.
THEOREM SearchesFindFirst == Spec => []SearchFindsFirst
<1>1. ASSUME OInv
      PROVE  SearchFindsFirst
    <2> SUFFICES ASSUME NEW block \in 0 .. LatestBlockNumber, outputs # <<>>
                 PROVE  /\ SearchIndex(outputs, block) \in DOMAIN outputs
                        /\ outputs[SearchIndex(outputs, block)].block >= block
                        /\ \A i \in 1 .. SearchIndex(outputs, block) - 1 : outputs[i].block < block
        BY DEF SearchFindsFirst
    <2>1. /\ Len(outputs) \in Nat /\ DOMAIN outputs = 1 .. Len(outputs)
          /\ \A i \in 1 .. Len(outputs) : outputs[i].block \in Int
        BY <1>1, OutputsSeq DEF OInv, Block
    <2>2. \A i, j \in 1 .. Len(outputs) : i <= j => outputs[i].block <= outputs[j].block
        BY <1>1, <2>1 DEF OInv, OutputsOrdered
    <2>3. Len(outputs) \in 1 .. Len(outputs) /\ LatestBlockNumber = outputs[Len(outputs)].block
        BY <1>1, <2>1 DEF OInv, OracleTypeOK, LatestBlockNumber, Latest
    <2>4. block \in Int /\ block <= outputs[Len(outputs)].block
        BY <2>1, <2>3
    <2>5. PICK r \in 1 .. Len(outputs) + 1 :
            /\ r = SearchIndex(outputs, block)
            /\ \A i \in 1 .. Len(outputs) : outputs[i].block < block <=> i < r
        BY <2>1, <2>2, <2>4, SearchFinds
    <2>6. r # Len(outputs) + 1
        BY <2>1, <2>3, <2>4, <2>5
    <2>q. QED
        BY <2>1, <2>4, <2>5, <2>6
<1>q. QED
    BY <1>1, SpecInv, PTL

-----------------------------------------------------------------------------
\* There is an aggregation proof of one range proof from any root of the chain that is not
\* ahead of the block it claims, once the data of the block is on L1.
LEMMA OneRangeProves ==
    ASSUME NEW pre \in Block, NEW block \in Block, pre <= block,
           NEW head \in L1Block, block <= Derivable(head)
    PROVE  \E root \in Root :
             [l1Head |-> head, l2PreRoot |-> pre, claimRoot |-> root, claimBlockNum |-> block]
               \in AggregationProofs
<1> DEFINE root == AdvanceToTarget(pre, block, head)
           boot == [l1Head |-> head, l2PreRoot |-> pre, l2PostRoot |-> root,
                    l2BlockNumber |-> block]
           boots == [i \in 1 .. 1 |-> boot]
<1>1. root \in Root
  <2>1. Derivable(head) \in Int
    BY ProgramsAssumption DEF Derivable, L1Block
  <2> QED
    BY <2>1, ProgramsAssumption DEF AdvanceToTarget, Greater, Smaller, Root, Block, Wrong
<1>2. boot \in RangeProofs
  BY <1>1, ProgramsAssumption
     DEF RangeProofs, BootInfo, RangeProves, ClaimNotBelow, Root, Block, Wrong
<1> HIDE DEF root, boot
<1>3. boots \in [1 .. 1 -> RangeProofs] /\ Len(boots) = 1 /\ boots[1] = boot
  BY <1>2
<1>4. boots \in Aggregations
  <2>1. 1 \in 1 .. MaxRanges
    BY ProgramsAssumption
  <2>2. Sequential(boots)
    BY <1>3 DEF Sequential
  <2> QED
    BY <1>3, <2>1, <2>2 DEF Aggregations
<1>5. HeadsFound(boots, head)
  BY <1>3, ProgramsAssumption DEF HeadsFound, boot, L1Block
<1>6. AggregationOutputs(boots, head) \in AggregationProofs
  BY <1>4, <1>5 DEF AggregationProofs
<1>7. AggregationOutputs(boots, head) =
        [l1Head |-> head, l2PreRoot |-> pre, claimRoot |-> root, claimBlockNum |-> block]
  BY <1>3 DEF AggregationOutputs, boot
<1> QED
  BY <1>1, <1>6, <1>7

\* After the fallback timeout a chain whose latest root is its own is open to anyone,
\* whichever proposers were removed, intervals set and outputs deleted before, for any
\* number of blocks and outputs.
THEOREM FallbackStaysOpen == Spec => []FallbackOpens
<1>1. OracleTypeOK => FallbackOpens
  <2> SUFFICES ASSUME OracleTypeOK, NEW a \in Accounts,
                      outputs # <<>>, Len(outputs) < MaxOutputs, NextBlockNumber \in Block,
                      ~optimistic, configs[Genesis] = "genuine",
                      now - LastProposalTimestamp > FallbackTimeout,
                      Latest.root # Wrong, Latest.root <= NextBlockNumber,
                      NEW head \in checkpointed, NextBlockNumber <= Derivable(head)
               PROVE  \E root \in Root, block \in Block, h \in L1Block :
                        AcceptsProven(a, Genesis, root, block, h)
    BY DEF FallbackOpens
  <2>1. head \in L1Block /\ head < now /\ head \in Nat /\ now \in Nat
    BY ProgramsAssumption DEF OracleTypeOK, L1Block
  <2>2. Latest.root \in Block /\ starting \in Nat
    <3>1. outputs \in Seq(Output) /\ Len(outputs) \in DOMAIN outputs
      BY OutputsSeq DEF OracleTypeOK
    <3>2. Latest \in Output
      BY <3>1 DEF Latest
    <3> QED
      BY <3>2, ProgramsAssumption DEF OracleTypeOK, Output, Root, Block
  <2>3. PICK root \in Root :
          [l1Head |-> head, l2PreRoot |-> Latest.root, claimRoot |-> root,
           claimBlockNum |-> NextBlockNumber] \in AggregationProofs
    BY <2>1, <2>2, OneRangeProves
  <2>4. NextBlockNumber >= NextBlockNumber /\ ComputeL2Timestamp(NextBlockNumber) < now
    <3> DEFINE b == NextBlockNumber
    <3>1. b \in Nat /\ b <= Derivable(head)
      BY ProgramsAssumption DEF Block
    <3> HIDE DEF b
    <3>2. b >= b /\ ComputeL2Timestamp(b) < now
      BY <2>1, <2>2, <3>1 DEF ComputeL2Timestamp, Derivable
    <3> QED
      BY <3>2 DEF b
  <2>5. AcceptsProven(a, Genesis, root, NextBlockNumber, head)
    BY <2>3, <2>4 DEF AcceptsProven, MayPropose, IsValidConfig, VerifyProof
  <2> QED
    BY <2>1, <2>5
<1> QED
  BY <1>1, OracleTypesHold, PTL
=============================================================================
