--------------------------- MODULE FaultDisputeGame ---------------------------
(***************************************************************************)
(* The games of OPSuccinctFaultDisputeGame and who may open and challenge  *)
(* them (AccessManager).  Every game claims an output root for an L2 block *)
(* on top of its parent's claim, or of the anchor state; it is challenged  *)
(* with a bond, proven, resolved after its parent, closed and paid out.    *)
(*                                                                         *)
(* The dispute game factory and the anchor state registry are not in the   *)
(* repository; what the games need of them is marked external.  Time is    *)
(* kept as what is left or has passed, up to the point where it no longer  *)
(* matters, so that no behaviour runs out of it.                           *)
(***************************************************************************)
EXTENDS Integers, Sequences, Functions

CONSTANTS
    Accounts, Nobody,    \* addresses, and address(0)
    Proposers,           \* whitelist of AccessManager; holds Nobody if open to all
    Challengers,         \* whitelist of AccessManager; holds Nobody if open to all
    InitBond,            \* bond the factory asks for
    ChallengerBond,      \* CHALLENGER_BOND
    ChallengeDuration,   \* MAX_CHALLENGE_DURATION
    ProveDuration,       \* MAX_PROVE_DURATION
    FallbackTimeout,     \* FALLBACK_TIMEOUT
    FinalityDelay,       \* of the anchor state registry
    MaxOverdue,          \* bound: how long past its deadline a game is told from one just past
    MaxBlock,            \* bound: the highest L2 block claimed
    MaxGames             \* bound: how many games are created

ASSUME GameAssumption ==
    /\ Nobody \notin Accounts
    /\ Proposers \subseteq Accounts \cup {Nobody}
    /\ Challengers \subseteq Accounts \cup {Nobody}
    /\ InitBond \in Nat /\ ChallengerBond \in Nat
    /\ ChallengeDuration \in Nat /\ ProveDuration \in Nat
    /\ FallbackTimeout \in Nat /\ FinalityDelay \in Nat
    /\ MaxOverdue \in Nat /\ MaxBlock \in Nat /\ MaxGames \in Nat

VARIABLES
    games,      \* the factory's list
    anchor,     \* anchor state of the registry: an output root and its block
    disowned,   \* games the registry has blacklisted or retired
    sinceLast   \* time since the last proposal, or since the deployment

vars == <<games, anchor, disowned, sinceLast>>

Holders == Accounts \cup {Nobody}

\* What an output root is, seen by one who has executed the chain: the root of the block
\* it is claimed for, that of another block of the chain, or of none.
Root == {"right", "misplaced", "wrong"}

ProposalStatus == {"Unchallenged", "Challenged", "UnchallengedAndValidProofProvided",
                   "ChallengedAndValidProofProvided", "Resolved"}
GameStatus == {"IN_PROGRESS", "CHALLENGER_WINS", "DEFENDER_WINS"}

\* ClaimData and the state variables of one game.  parent is 0 for uint32.max; sound says
\* whether a proof exists that leads from the starting root to the claim.
Game == [parent : Nat, creator : Accounts, startRoot : Root, startBlock : Nat,
         claim : Root, block : Nat, sound : BOOLEAN,
         counteredBy : Holders, prover : Holders, proposal : ProposalStatus,
         timeLeft : Int, status : GameStatus, sinceResolved : Nat,
         normalModeCredit : [Holders -> Nat], refundModeCredit : [Holders -> Nat],
         balance : Nat, mode : {"UNDECIDED", "NORMAL", "REFUND"}, wasRespected : BOOLEAN]

\* A proof may lead from one root of the chain to another or, if at all, from a wrong root
\* to a wrong one.  The program compares roots, not block numbers, and stops early where
\* the data below the game's L1 head ends: a misplaced claim may have a proof, a right one
\* need not.
Provable(start, claim) == {FALSE, (start = "wrong") = (claim = "wrong")}

Index == DOMAIN games

Update(g, game) == games' = [games EXCEPT ![g] = game]

Init ==
    /\ games = <<>>
    /\ anchor = [root |-> "right", block |-> 0]
    /\ disowned = {} /\ sinceLast = 0

-----------------------------------------------------------------------------
IsAllowedProposer(a) == Nobody \in Proposers \/ a \in Proposers \/ sinceLast > FallbackTimeout

IsAllowedChallenger(a) == Nobody \in Challengers \/ a \in Challengers

\* The output root a game with this parent starts from.
StartingOutputRoot(p) ==
    IF p = 0 THEN anchor ELSE [root |-> games[p].claim, block |-> games[p].block]

ValidParent(p) ==
    p # 0 => /\ games[p].wasRespected /\ p \notin disowned
             /\ games[p].status # "CHALLENGER_WINS"

\* The factory creates no game twice for the same claim, block and parent.
IsNew(p, claim, block) ==
    ~\E g \in Index : games[g].parent = p /\ games[g].claim = claim /\ games[g].block = block

\* initialize, called by the factory's create.  The registry knows whether the type of
\* the game is the respected one at the time.
Initialize(a, p, claim, block) ==
    LET start == StartingOutputRoot(p) IN
    /\ Len(games) < MaxGames
    /\ IsAllowedProposer(a)
    /\ ValidParent(p) /\ IsNew(p, claim, block)
    /\ block > start.block
    /\ \E sound \in Provable(start.root, claim), respected \in BOOLEAN :
        games' = Append(games,
          [parent |-> p, creator |-> a, startRoot |-> start.root, startBlock |-> start.block,
           claim |-> claim, block |-> block, sound |-> sound,
           counteredBy |-> Nobody, prover |-> Nobody, proposal |-> "Unchallenged",
           timeLeft |-> ChallengeDuration, status |-> "IN_PROGRESS", sinceResolved |-> 0,
           normalModeCredit |-> [h \in Holders |-> 0],
           refundModeCredit |-> [h \in Holders |-> IF h = a THEN InitBond ELSE 0],
           balance |-> InitBond, mode |-> "UNDECIDED", wasRespected |-> respected])
    /\ sinceLast' = 0
    /\ UNCHANGED <<anchor, disowned>>

GameOver(g) == games[g].timeLeft < 0 \/ games[g].prover # Nobody

Challenge(g, a) ==
    /\ games[g].proposal = "Unchallenged"
    /\ IsAllowedChallenger(a)
    /\ ~GameOver(g)
    /\ Update(g, [games[g] EXCEPT
         !.counteredBy = a, !.proposal = "Challenged", !.timeLeft = ProveDuration,
         !.refundModeCredit[a] = @ + ChallengerBond, !.balance = @ + ChallengerBond])
    /\ UNCHANGED <<anchor, disowned, sinceLast>>

\* Mutant: a proof against a challenge leaves the proposal Challenged.
ProveUnmarked(g, a) ==
    /\ ~GameOver(g) /\ games[g].sound
    /\ Update(g, [games[g] EXCEPT !.prover = a])
    /\ UNCHANGED <<anchor, disowned, sinceLast>>

\* A proof is accepted until the game is over, whether or not the game is resolved.
Prove(g, a) ==
    /\ ~GameOver(g) /\ games[g].sound
    /\ Update(g, [games[g] EXCEPT
         !.prover = a,
         !.proposal = IF games[g].counteredBy = Nobody
                      THEN "UnchallengedAndValidProofProvided"
                      ELSE "ChallengedAndValidProofProvided"])
    /\ UNCHANGED <<anchor, disowned, sinceLast>>

-----------------------------------------------------------------------------
ParentGameStatus(g) ==
    IF games[g].parent = 0 THEN "DEFENDER_WINS" ELSE games[games[g].parent].status

\* Who wins by the game's own course, once it is over.
Winner(x) == IF x.proposal = "Challenged" THEN "CHALLENGER_WINS" ELSE "DEFENDER_WINS"

Award(x, h) == [x.normalModeCredit EXCEPT ![h] = x.balance]

\* The credits resolve sets.  A proof against a challenge earns the challenger's bond.
Rewards(x, winner) ==
    IF winner = "CHALLENGER_WINS" THEN Award(x, x.counteredBy)
    ELSE IF x.proposal = "ChallengedAndValidProofProvided" /\ x.prover # x.creator
         THEN [x.normalModeCredit EXCEPT ![x.prover] = ChallengerBond,
                                         ![x.creator] = x.balance - ChallengerBond]
         ELSE Award(x, x.creator)

Resolved(x, winner) ==
    [x EXCEPT !.status = winner, !.proposal = "Resolved",
              !.normalModeCredit = Rewards(x, winner), !.sinceResolved = 0]

\* Mutant: the outcome of the parent is not looked at.
ResolveOnItsOwn(g) ==
    /\ games[g].status = "IN_PROGRESS" /\ GameOver(g)
    /\ Update(g, Resolved(games[g], Winner(games[g])))
    /\ UNCHANGED <<anchor, disowned, sinceLast>>

Resolve(g) ==
    /\ games[g].status = "IN_PROGRESS"
    /\ \/ /\ ParentGameStatus(g) = "CHALLENGER_WINS"
          /\ Update(g, Resolved(games[g], "CHALLENGER_WINS"))
       \/ /\ ParentGameStatus(g) = "DEFENDER_WINS"
          /\ GameOver(g)
          /\ Update(g, Resolved(games[g], Winner(games[g])))
    /\ UNCHANGED <<anchor, disowned, sinceLast>>

\* External: the registry's isGameFinalized and the condition of setAnchorState.
IsGameFinalized(g) ==
    games[g].status # "IN_PROGRESS" /\ games[g].sinceResolved > FinalityDelay

CanAnchor(g) ==
    /\ games[g].status = "DEFENDER_WINS" /\ IsGameFinalized(g)
    /\ games[g].wasRespected /\ g \notin disowned
    /\ games[g].block > anchor.block

\* closeGame, for a game that has no mode yet: the anchor moves if it can, and a game
\* the registry still owns pays out normally.
Close(g) ==
    /\ games[g].mode = "UNDECIDED" /\ IsGameFinalized(g)
    /\ anchor' = IF CanAnchor(g)
                 THEN [root |-> games[g].claim, block |-> games[g].block] ELSE anchor

ModeOf(g) == IF games[g].mode # "UNDECIDED" THEN games[g].mode
             ELSE IF g \in disowned THEN "REFUND" ELSE "NORMAL"

CloseGame(g) ==
    /\ Close(g)
    /\ Update(g, [games[g] EXCEPT !.mode = ModeOf(g)])
    /\ UNCHANGED <<disowned, sinceLast>>

\* The credit of h in mode m.
Credit(x, m, h) == IF m = "REFUND" THEN x.refundModeCredit[h] ELSE x.normalModeCredit[h]

\* Mutant: the credit is not reset, nor is the transfer checked.
ClaimCreditAgain(g, h) ==
    /\ IF games[g].mode = "UNDECIDED" THEN Close(g) ELSE UNCHANGED anchor
    /\ LET credit == Credit(games[g], ModeOf(g), h) IN
        /\ credit # 0
        /\ Update(g, [games[g] EXCEPT !.mode = ModeOf(g), !.balance = @ - credit])
    /\ UNCHANGED <<disowned, sinceLast>>

\* claimCredit closes the game first, and fails if the contract cannot pay.
ClaimCredit(g, h) ==
    /\ IF games[g].mode = "UNDECIDED" THEN Close(g) ELSE UNCHANGED anchor
    /\ LET credit == Credit(games[g], ModeOf(g), h) IN
        /\ credit # 0 /\ credit <= games[g].balance
        /\ Update(g, [games[g] EXCEPT
             !.mode = ModeOf(g), !.balance = @ - credit,
             !.refundModeCredit[h] = 0, !.normalModeCredit[h] = 0])
    /\ UNCHANGED <<disowned, sinceLast>>

-----------------------------------------------------------------------------
\* External: the guardian disowns a game.
Disown(g) ==
    /\ disowned' = disowned \cup {g}
    /\ UNCHANGED <<games, anchor, sinceLast>>

AtMost(n, m) == IF n <= m THEN n ELSE m

Tick ==
    /\ games' = [g \in Index |-> [games[g] EXCEPT
         !.timeLeft = IF @ < -MaxOverdue THEN @ ELSE @ - 1,
         !.sinceResolved = IF games[g].status = "IN_PROGRESS" THEN 0
                           ELSE AtMost(@ + 1, FinalityDelay + 1)]]
    /\ sinceLast' = AtMost(sinceLast + 1, FallbackTimeout + 1)
    /\ UNCHANGED <<anchor, disowned>>

Next ==
    \/ \E a \in Accounts, p \in {0} \cup Index, claim \in Root, block \in 1 .. MaxBlock :
        Initialize(a, p, claim, block)
    \/ \E g \in Index :
        \/ \E a \in Accounts : Challenge(g, a) \/ Prove(g, a)
        \/ Resolve(g) \/ CloseGame(g) \/ Disown(g)
        \/ \E h \in Holders : ClaimCredit(g, h)
    \/ Tick

Spec == Init /\ [][Next]_vars

-----------------------------------------------------------------------------
TypeOK ==
    /\ games \in Seq(Game)
    /\ anchor \in [root : Root, block : Nat]
    /\ disowned \subseteq Index
    /\ sinceLast \in Nat
    /\ \A g \in Index : games[g].parent < g

\* Every game holds exactly what it owes: the deposits until it is resolved, afterwards
\* the rewards, or still the deposits if it may yet be or has been disowned.  So nobody
\* is paid with the money of another or finds the contract empty.
Solvent ==
    \A g \in Index :
        LET x == games[g] IN
        /\ x.mode # "NORMAL" => SumFunction(x.refundModeCredit) = x.balance
        /\ x.mode # "REFUND" /\ x.status # "IN_PROGRESS" =>
             SumFunction(x.normalModeCredit) = x.balance

\* A wrong claim on a root of the chain, left unchallenged until it won.
Slip ==
    \E g \in Index :
        /\ games[g].startRoot # "wrong" /\ games[g].claim = "wrong"
        /\ games[g].counteredBy = Nobody /\ games[g].status = "DEFENDER_WINS"

\* A claim off the chain wins, or becomes the anchor state, only after a slip: it is enough
\* to challenge every one that starts from a root of the chain, whatever is built on it,
\* proven for it, or done to its parents by resolution and the registry.  (A misplaced
\* claim may win though it is challenged: it may be proven.)
WrongNeedsSlip ==
    anchor.root = "wrong" \/ (\E g \in Index : /\ games[g].claim = "wrong"
                                               /\ games[g].status = "DEFENDER_WINS")
    => Slip

\* An outcome never contradicts the parent's, and a game loses only with its parent or
\* because it was challenged and not proven in time.
OutcomesJustified ==
    \A g \in Index :
        LET x == games[g] IN
        /\ x.status = "DEFENDER_WINS" => ParentGameStatus(g) = "DEFENDER_WINS"
        /\ x.status = "CHALLENGER_WINS" =>
             \/ ParentGameStatus(g) = "CHALLENGER_WINS"
             \/ x.counteredBy # Nobody /\ x.prover = Nobody
=============================================================================
