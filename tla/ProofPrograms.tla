----------------------------- MODULE ProofPrograms -----------------------------
(***************************************************************************)
(* What the two zkVM programs prove.  The range program executes L2 blocks *)
(* from an agreed output root as far as one L1 block, its head, allows;    *)
(* the aggregation program joins range proofs.  A root is the number of    *)
(* the block whose state it commits to, or Wrong if it is no state of the  *)
(* chain at all.                                                           *)
(***************************************************************************)
EXTENDS Integers, Sequences

CONSTANTS
    MaxBlock,         \* bound: L2 blocks
    MaxTime,          \* bound: L1 blocks, one in each unit of time
    MaxRanges         \* bound: range proofs in an aggregation

ASSUME ProgramsAssumption ==
    MaxBlock \in Nat /\ MaxTime \in Nat /\ MaxRanges \in Nat \ {0}

Block == 0 .. MaxBlock
Wrong == -1
Root == Block \cup {Wrong}
L1Block == 0 .. MaxTime

\* External: L2 block b is made at time b, and its data posted to L1 after that.
Derivable(head) == IF head = 0 THEN 0 ELSE head - 1

Greater(m, n) == IF m < n THEN n ELSE m
Smaller(m, n) == IF m < n THEN m ELSE n

\* advance_to_target: where derivation from a block stops.  When the data up to the head
\* is exhausted, the safe head reached so far becomes the target.
AdvanceToTarget(safeHead, target, head) ==
    Greater(safeHead, Smaller(target, Derivable(head)))

BootInfo == [l1Head : L1Block, l2PreRoot : Root, l2PostRoot : Root, l2BlockNumber : Block]

\* get_inputs_for_pipeline: the block claimed is not below the safe head.
ClaimNotBelow(boot) == boot.l2BlockNumber >= boot.l2PreRoot

\* The range program compares the root it reached with the root claimed, and commits to
\* the block number claimed.  It starts from the preimage of the agreed root: a root that is
\* no state of the chain may have one, of a state somebody made up, from which it reaches
\* no state of the chain either; or none, and then nothing is proven from it.  So what
\* is said here of Wrong is the most that can be proven, and soundness may rest on it,
\* but nothing that has to exist.
RangeProves(boot) ==
    /\ ClaimNotBelow(boot)
    /\ boot.l2PostRoot =
         IF boot.l2PreRoot = Wrong THEN Wrong
         ELSE AdvanceToTarget(boot.l2PreRoot, boot.l2BlockNumber, boot.l1Head)

RangeProofs == {boot \in BootInfo : RangeProves(boot)}

\* Mutant: range proofs are not linked.
Unlinked(boots) == TRUE

\* The aggregation program: range proofs one after the other, their heads in the chain of
\* headers that ends in the checkpointed block.
Sequential(boots) == \A i \in 1 .. Len(boots) - 1 : boots[i].l2PostRoot = boots[i + 1].l2PreRoot

HeadsFound(boots, checkpoint) == \A i \in 1 .. Len(boots) : boots[i].l1Head <= checkpoint

\* The public values it commits to.
AggregationOutputs(boots, checkpoint) ==
    [l1Head |-> checkpoint, l2PreRoot |-> boots[1].l2PreRoot,
     claimRoot |-> boots[Len(boots)].l2PostRoot,
     claimBlockNum |-> boots[Len(boots)].l2BlockNumber]

Aggregations == {boots \in UNION {[1 .. n -> RangeProofs] : n \in 1 .. MaxRanges} : Sequential(boots)}

\* Public values for which there is an aggregation proof.
AggregationProofs ==
    UNION {{AggregationOutputs(boots, c) : c \in {c \in L1Block : HeadsFound(boots, c)}} :
           boots \in Aggregations}
================================================================================
