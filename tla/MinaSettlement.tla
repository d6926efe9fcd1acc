---------------------------- MODULE MinaSettlement ----------------------------
(***************************************************************************)
(* The settlement contract on Mina and the programs whose proofs it        *)
(* accepts.  Operators, who are not in the repository beyond a script,     *)
(* initialise the contract and settle the converted proofs: each of them   *)
(* reads the state on chain, proves, and sends a transaction that is       *)
(* executed only if the state is still what was read.  Others may send     *)
(* whatever the programs prove, and the program of an update takes the     *)
(* sender's word for the new state.                                        *)
(***************************************************************************)
EXTENDS ProofConversion

CONSTANTS
    Operators,       \* external: who settles converted proofs
    Others,          \* external: who sends what the programs prove, whatever it is
    Zero,            \* Field(0)
    Initial,         \* the commitments the contract is initialised with
    DACommitments,   \* commitments to the availability of data, zero perhaps among them
    MaxForeign,      \* bound: transactions of others
    Forged           \* bound: proof commitments that others write

ASSUME SettlementAssumption ==
    /\ Zero # Initial /\ Zero \notin Files
    /\ Operators \cap Others = {} /\ MaxForeign \in Nat
    /\ Forged \subseteq {Zero, Initial} \cup Files

Senders == Operators \cup Others

VARIABLES
    state,    \* state of the contract
    txs,      \* the transaction each sender has sent and waits for
    foreign   \* transactions others have sent

settlementVars == <<state, txs, foreign>>
allVars == <<conversionVars, settlementVars>>

\* RollupState.  The root of a block is one more than the block, so that none is zero.
StateRoot == 0 .. MaxBlock + 1
ProofCommitment == {Zero, Initial} \cup Files
DACommitment == {Zero} \cup DACommitments
RootOf(block) == block + 1

RollupState == [latestL2StateRoot : StateRoot, latestProofCommitment : ProofCommitment,
                latestDACommitment : DACommitment]

Empty == [latestL2StateRoot |-> 0, latestProofCommitment |-> Zero, latestDACommitment |-> Zero]

ExternalProofInputs ==
    [previousL2StateRoot : StateRoot, newProposedL2StateRoot : StateRoot,
     newExternalProofCommitment : ProofCommitment, dataAvailabilityCommitment : DACommitment]

FromExternalInputs(inputs) ==
    [latestL2StateRoot |-> inputs.newProposedL2StateRoot,
     latestProofCommitment |-> inputs.newExternalProofCommitment,
     latestDACommitment |-> inputs.dataAvailabilityCommitment]

-----------------------------------------------------------------------------
\* StateTransitionVerifier: the transitions it proves.  An initialization leads from the
\* empty state to any state.
ProvesInitialize(t) == t.previousState = Empty

\* Mutant: only the proof of the contract's own initialization is built upon.
ProvesUpdateOfInitial(t, base, inputs) ==
    /\ ProvesInitialize(base) /\ base.newState = t.previousState
    /\ base.newState.latestProofCommitment = Initial
    /\ inputs.previousL2StateRoot = t.previousState.latestL2StateRoot
    /\ t.newState = FromExternalInputs(inputs)

\* An update from the state that another proof, base, has led to.  The inputs are the
\* prover's own: the external proof that should stand behind them is not verified yet.
ProvesUpdate(t, base, inputs) ==
    /\ ProvesInitialize(base) /\ base.newState = t.previousState
    /\ inputs.previousL2StateRoot = t.previousState.latestL2StateRoot
    /\ t.newState = FromExternalInputs(inputs)

SettlementInit == state = Empty /\ txs = [s \in Senders |-> {}] /\ foreign = 0

Sends(s, new) ==
    /\ txs[s] = {}
    /\ txs' = [txs EXCEPT ![s] = {[previousState |-> state, newState |-> new]}]
    /\ foreign' = IF s \in Others THEN foreign + 1 ELSE foreign
    /\ s \in Others => foreign < MaxForeign
    /\ UNCHANGED <<conversionVars, state>>

\* initializeState is called.
InitializeState(s, new) == state = Empty /\ Sends(s, new)

\* update is called with the proof of an update.  A proof for the state always exists: an
\* initialization will do.
Update(s, inputs) ==
    LET t == [previousState |-> state, newState |-> FromExternalInputs(inputs)]
        base == [previousState |-> Empty, newState |-> state]
    IN  ProvesUpdate(t, base, inputs) /\ Sends(s, t.newState)

\* update is called with the proof of an initialization.
UpdateInitially(s, new) ==
    ProvesInitialize([previousState |-> state, newState |-> new]) /\ Sends(s, new)

\* Mutant: what was read is not a precondition.
ExecuteStale(s) ==
    \E t \in txs[s] :
        /\ txs' = [txs EXCEPT ![s] = {}]
        /\ state' = t.newState
        /\ UNCHANGED <<conversionVars, foreign>>

\* A transaction is executed, or refused because the state is no longer the one it read
\* (getAndRequireEquals).
Execute(s) ==
    \E t \in txs[s] :
        /\ txs' = [txs EXCEPT ![s] = {}]
        /\ state' = IF t.previousState = state THEN t.newState ELSE state
        /\ UNCHANGED <<conversionVars, foreign>>

\* What an operator initialises with, and what it says of a converted proof.
InitialOf(da) ==
    [latestL2StateRoot |-> RootOf(0), latestProofCommitment |-> Initial, latestDACommitment |-> da]

InputsOf(f, da) ==
    [previousL2StateRoot |-> RootOf(f.start), newProposedL2StateRoot |-> RootOf(f.end),
     newExternalProofCommitment |-> f, dataAvailabilityCommitment |-> da]

Operates(op) ==
    \E da \in DACommitments :
        \/ InitializeState(op, InitialOf(da)) \/ UpdateInitially(op, InitialOf(da))
        \/ \E f \in Ranges : converted[f] = "whole" /\ Update(op, InputsOf(f, da))

Interferes(other) ==
    \/ \E new \in RollupState :
        /\ new.latestProofCommitment \in Forged
        /\ InitializeState(other, new) \/ UpdateInitially(other, new)
    \/ \E inputs \in ExternalProofInputs :
        inputs.newExternalProofCommitment \in Forged /\ Update(other, inputs)

Next ==
    \/ ConversionNext /\ UNCHANGED settlementVars
    \/ \E op \in Operators : Operates(op)
    \/ \E other \in Others : Interferes(other)
    \/ \E s \in Senders : Execute(s)

Init == ConversionInit /\ SettlementInit

Spec == Init /\ [][Next]_allVars

\* The operators go on settling, and what they send is executed.
Fairness ==
    /\ ConversionFairness
    /\ \A op \in Operators : WF_allVars(Operates(op)) /\ WF_allVars(Execute(op))

FairSpec == Spec /\ Fairness

-----------------------------------------------------------------------------
\* The state goes from before to after by a converted proof that begins at its root.
Settles(f, before, after) ==
    /\ converted[f] # "none"
    /\ RootOf(f.start) = before.latestL2StateRoot
    /\ RootOf(f.end) = after.latestL2StateRoot /\ after.latestProofCommitment = f

\* However many transactions wait that were made for other states, and whatever others put
\* into the contract meanwhile, what an operator's transaction does to an initialised
\* contract is to settle a converted proof that begins at the root of that moment: none is
\* settled on top of another than it was made for.  What others send may do anything.
SettledInOrder ==
    [][\A op \in Operators :
        txs[op] # {} /\ txs'[op] = {} /\ state # Empty /\ state' # state
          => \E f \in Ranges : Settles(f, state, state')]_allVars

\* A converted proof that begins where the contract is does not wait for ever, though
\* operators act on the same state and all but one of them are refused, and others have put
\* the contract where they liked: it, or another that begins there, is settled.
ConvertedSettled ==
    \A f \in Ranges :
        <>[](converted[f] = "whole" => state.latestL2StateRoot # RootOf(f.start))
================================================================================
