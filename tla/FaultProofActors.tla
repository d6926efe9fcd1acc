--------------------------- MODULE FaultProofActors ---------------------------
(***************************************************************************)
(* The fault-proof proposer and the challenger at work on the games of     *)
(* FaultDisputeGame, beside an outsider who opens games and challenges.    *)
(* In each unit of time both programs take one turn of their loops.  The   *)
(* proposer's game creation and its proofs are tasks that outlast a turn,  *)
(* and the transaction that creates a game outlasts even its task; the     *)
(* other steps of a turn read the games and send one transaction, and the  *)
(* contract judges it at the state it arrives in.                          *)
(***************************************************************************)
EXTENDS FaultDisputeGame

CONSTANTS
    Proposer, Challenger,  \* addresses of the two programs
    Interval,              \* proposal_interval_in_blocks
    FastFinality,          \* fast_finality_mode
    Malicious,             \* whether malicious_challenge_percentage is above 0
    Window,                \* max_games_to_check_for_defense, _resolution, ... : one for all
    Skews,                 \* external: the time of the latest L2 block, seen from L1's
    Heads,                 \* external: the latest block of a program's L2 node
    ProveTime,             \* external: units of time a proof takes at most
    OutsiderClaims,        \* roots the outsider claims
    OutsiderBlocks,        \* blocks it claims them at
    MaxOutside,            \* bound: steps of the outsider
    MaxErrors              \* bound: failures and restarts

ASSUME ActorsAssumption ==
    /\ Proposer \in Accounts /\ Challenger \in Accounts /\ Proposer # Challenger
    /\ Interval \in Nat \ {0} /\ Window \in Nat /\ ProveTime \in Nat
    /\ FastFinality \in BOOLEAN /\ Malicious \in BOOLEAN
    /\ Skews \subseteq Int /\ Heads \subseteq Nat
    /\ OutsiderClaims \subseteq Root /\ OutsiderBlocks \subseteq 1 .. MaxBlock
    /\ MaxOutside \in Nat /\ MaxErrors \in Nat

VARIABLES
    creation,    \* the proposer's task that creates a game, or none: its transaction, and the
                 \* game once it is there
    orphaned,    \* creations whose task is gone, and which may still be executed
    proving,     \* its tasks that prove games, each with its age and what began it
    at,          \* the step of its turn each program is at
    cursor,      \* the games a resolution has yet to try
    errors,      \* failures and restarts so far
    outside      \* steps of the outsider so far

actorVars == <<creation, orphaned, proving, at, cursor, errors, outside>>
allVars == <<vars, actorVars>>

Programs == {"proposer", "challenger"}
Address(program) == IF program = "proposer" THEN Proposer ELSE Challenger
FirstStep == [proposer |-> "create", challenger |-> "challenge"]
Successor == [create |-> "defend", defend |-> "resolve", challenge |-> "resolve",
              resolve |-> "claim", resolving |-> "claim", claim |-> "idle"]
NoGames == [next |-> 1, last |-> 0]

ActorsInit ==
    /\ Init
    /\ creation = {} /\ orphaned = {} /\ proving = {}
    /\ at = FirstStep
    /\ cursor = [program \in Programs |-> NoGames]
    /\ errors = 0 /\ outside = 0

Advance(program) == at' = [at EXCEPT ![program] = Successor[@]]

-----------------------------------------------------------------------------
\* Reading the factory and the games (lib.rs).

\* An index is one higher than in the code.
OldestIndex == IF Len(games) > Window THEN Len(games) - Window ELSE 1

\* The deadline is compared with the time of the latest L2 block.
DeadlinePassed(g, skew) == games[g].timeLeft < skew

Lowest(S) == CHOOSE g \in S : \A h \in S : g <= h
Highest(S) == CHOOSE g \in S : \A h \in S : h <= g

\* The games whose claims are compared with the root the program's L2 node computes.
Compared(status, skew) ==
    {g \in OldestIndex .. Len(games) : games[g].proposal = status /\ ~DeadlinePassed(g, skew)}

\* Mutant: games of any status are looked at.
GamesOfAnyStatus(status, claims, skew, head) ==
    {g \in OldestIndex .. Len(games) : ~DeadlinePassed(g, skew) /\ games[g].claim \in claims}

\* The games get_oldest_game_address looks for.  The root computed at a block is right, and
\* to compute it fails if the node has not got the block: the games behind are not found.
GamesToActOn(status, claims, skew, head) ==
    {g \in Compared(status, skew) :
        /\ games[g].claim \in claims
        /\ \A h \in Compared(status, skew) : h <= g => games[h].block <= head}

\* get_latest_valid_proposal looks at the output root only; 0 stands for None.
LatestValidProposal ==
    IF \E g \in Index : games[g].claim = "right"
    THEN Highest({g \in Index : games[g].claim = "right"}) ELSE 0

\* Mutant: a latest game that would be left out in any case is not counted.
GamesBelowLatest == IF Len(games) - 2 < Window THEN Len(games) - 2 ELSE Window

\* How many games resolve_games and the search for a bond go through, from the oldest.
GamesToCheck == IF Len(games) - 1 < Window THEN Len(games) - 1 ELSE Window

IsClaimable(g, a) ==
    /\ games[g].proposal = "Resolved" /\ IsGameFinalized(g)
    /\ Credit(games[g], ModeOf(g), a) # 0

ClaimableBonds(a) ==
    {g \in OldestIndex .. OldestIndex + GamesToCheck - 1 : IsClaimable(g, a)}

ShouldAttemptResolution == ParentGameStatus(OldestIndex) # "IN_PROGRESS"

\* try_resolve_games: the proposer resolves unchallenged games, the challenger challenged
\* ones.
WouldResolve(program, g, skew) ==
    /\ games[g].status = "IN_PROGRESS"
    /\ games[g].proposal = IF program = "proposer" THEN "Unchallenged" ELSE "Challenged"
    /\ DeadlinePassed(g, skew)

-----------------------------------------------------------------------------
\* The proposer's tasks.

\* spawn_game_creation_task and handle_game_creation up to the transaction: the next block
\* is final, or not yet.  The search for the parent, from the latest game down, fails at a
\* game whose block the node has not got.
DecideCreation ==
    /\ at["proposer"] = "create"
    /\ Advance("proposer")
    /\ \/ UNCHANGED creation
       \/ LET parent == LatestValidProposal
              next == StartingOutputRoot(parent).block + Interval
          IN  /\ creation = {}
              /\ \E head \in Heads :
                    next < head /\ \A g \in Index : g >= parent => games[g].block <= head
              /\ creation' = {[parent |-> parent, block |-> next, game |-> 0]}
    /\ UNCHANGED <<vars, orphaned, proving, cursor, errors, outside>>

\* External: the type of the games is the respected one for as long as they are opened.
Respected == \A g \in DOMAIN games' : games'[g].wasRespected

\* What the factory or the game refuses to create.
RefusesCreation(tx) ==
    \/ ~IsAllowedProposer(Proposer)
    \/ ~ValidParent(tx.parent) \/ ~IsNew(tx.parent, "right", tx.block)
    \/ tx.block <= StartingOutputRoot(tx.parent).block

\* External: the data of a final block is in L1 before a game claims it.
Derivable(g) == games'[g].startRoot = "right" => games'[g].sound

\* The transaction is executed or refused.
Execute(tx) ==
    IF RefusesCreation(tx) THEN UNCHANGED vars
    ELSE /\ tx.block <= MaxBlock /\ Initialize(Proposer, tx.parent, "right", tx.block)
         /\ Respected /\ Derivable(Len(games) + 1)

\* create_game up to the receipt.
CreateGame ==
    /\ \E tx \in creation :
        /\ tx.game = 0 /\ Execute(tx)
        /\ creation' = IF RefusesCreation(tx) THEN {}
                       ELSE {[tx EXCEPT !.game = Len(games) + 1]}
    /\ UNCHANGED <<orphaned, proving, at, cursor, errors, outside>>

\* A creation nobody waits for any more is executed.
CreateLate ==
    /\ \E tx \in orphaned : Execute(tx) /\ orphaned' = orphaned \ {tx}
    /\ UNCHANGED <<creation, proving, at, cursor, errors, outside>>

\* create_game after the receipt: with fast finality a proof is begun, and nothing is asked
\* about others for the game.
CreationEnds ==
    /\ \E tx \in creation :
        /\ tx.game # 0
        /\ proving' = IF FastFinality
                      THEN proving \cup {[game |-> tx.game, age |-> 0, origin |-> "creation"]}
                      ELSE proving
    /\ creation' = {}
    /\ UNCHANGED <<vars, orphaned, at, cursor, errors, outside>>

ProvingGame(g) == \E task \in proving : task.game = g

\* Mutant: a game that is being proven is proven again.
DefendAgain ==
    /\ at["proposer"] = "defend"
    /\ Advance("proposer")
    /\ \E skew \in Skews, head \in Heads :
        LET gs == GamesToActOn("Challenged", {"right"}, skew, head) IN
        proving' = IF gs = {} THEN proving
                   ELSE proving \cup {[game |-> Lowest(gs), age |-> 0, origin |-> "defence"]}
    /\ UNCHANGED <<vars, creation, orphaned, cursor, errors, outside>>

\* spawn_game_defense_tasks: only the oldest game to defend is looked at.
Defend ==
    /\ at["proposer"] = "defend"
    /\ Advance("proposer")
    /\ \E skew \in Skews, head \in Heads :
        LET gs == GamesToActOn("Challenged", {"right"}, skew, head) IN
        proving' = IF gs = {} \/ ProvingGame(Lowest(gs)) THEN proving
                   ELSE proving \cup {[game |-> Lowest(gs), age |-> 0, origin |-> "defence"]}
    /\ UNCHANGED <<vars, creation, orphaned, cursor, errors, outside>>

\* Mutant: the interval is proven that follows the anchor state.
HasProofFromAnchor(g) ==
    /\ games[g].claim = "right" /\ games[g].sound
    /\ games[g].startRoot = "right" => games[g].startBlock = anchor.block

\* prove_game proves the last interval before the game's block, whose first root must be the
\* one the game starts from.
HasProof(g) ==
    /\ games[g].claim = "right" /\ games[g].sound
    /\ games[g].startRoot = "right" => games[g].startBlock = games[g].block - Interval

\* A proof is done and accepted, or refused (a misplaced root may be the fitting one or not);
\* the task is cleared from the map.
FinishProof(task) ==
    /\ \/ HasProof(task.game) /\ ~GameOver(task.game) /\ Prove(task.game, Proposer)
       \/ /\ ~HasProof(task.game) \/ GameOver(task.game) \/ games[task.game].startRoot = "misplaced"
          /\ UNCHANGED vars
    /\ proving' = proving \ {task}
    /\ UNCHANGED <<creation, orphaned, at, cursor, errors, outside>>

-----------------------------------------------------------------------------
\* Steps that both programs take.

\* resolve_games: whether to begin, and over which games.
BeginResolution(program) ==
    /\ at[program] = "resolve"
    /\ IF games # <<>> /\ ShouldAttemptResolution
       THEN /\ at' = [at EXCEPT ![program] = "resolving"]
            /\ cursor' = [cursor EXCEPT ![program] =
                 [next |-> OldestIndex, last |-> OldestIndex + GamesToCheck - 1]]
       ELSE Advance(program) /\ UNCHANGED cursor
    /\ UNCHANGED <<vars, creation, orphaned, proving, errors, outside>>

\* The next game that the program would resolve, games it would not being passed over.
ResolveNext(program) ==
    /\ at[program] = "resolving"
    /\ \E skew \in Skews :
        LET gs == {g \in cursor[program].next .. cursor[program].last :
                     WouldResolve(program, g, skew)} IN
        /\ gs # {}
        /\ \/ Resolve(Lowest(gs))
           \/ ParentGameStatus(Lowest(gs)) = "IN_PROGRESS" /\ UNCHANGED vars
           \/ ParentGameStatus(Lowest(gs)) = "DEFENDER_WINS" /\ ~GameOver(Lowest(gs)) /\ UNCHANGED vars
        /\ cursor' = [cursor EXCEPT ![program].next = Lowest(gs) + 1]
    /\ UNCHANGED <<creation, orphaned, proving, at, errors, outside>>

\* No game of the list is left that the program would resolve.
ResolutionEnds(program) ==
    \/ at[program] = "claim"
    \/ /\ at[program] = "resolving"
       /\ \E skew \in Skews :
            ~\E g \in cursor[program].next .. cursor[program].last : WouldResolve(program, g, skew)

\* handle_bond_claiming: one game a turn, the oldest.
ClaimBond(program) ==
    /\ ResolutionEnds(program)
    /\ at' = [at EXCEPT ![program] = "idle"]
    /\ cursor' = [cursor EXCEPT ![program] = NoGames]
    /\ LET gs == ClaimableBonds(Address(program)) IN
        IF gs = {} THEN UNCHANGED vars ELSE ClaimCredit(Lowest(gs), Address(program))
    /\ UNCHANGED <<creation, orphaned, proving, errors, outside>>

\* handle_game_challenging: one game a turn, the oldest whose claim is not right.  If the
\* look for it fails the turn is over.
ChallengeOldest ==
    /\ at["challenger"] = "challenge"
    /\ Advance("challenger")
    /\ \E skew \in Skews, head \in Heads :
        LET wrong == GamesToActOn("Unchallenged", Root \ {"right"}, skew, head)
            right == GamesToActOn("Unchallenged", {"right"}, skew, head)
            Fails == \E g \in Compared("Unchallenged", skew) : games[g].block > head
            Accepted(g) == /\ games[g].proposal = "Unchallenged" /\ ~GameOver(g)
                           /\ IsAllowedChallenger(Challenger)
            Send(g) == IF Accepted(g) THEN Challenge(g, Challenger) ELSE UNCHANGED vars
        IN  IF wrong # {} THEN Send(Lowest(wrong))
            ELSE \/ UNCHANGED vars
                 \/ Malicious /\ ~Fails /\ right # {} /\ Send(Lowest(right))
    /\ UNCHANGED <<creation, orphaned, proving, cursor, errors, outside>>

-----------------------------------------------------------------------------
\* Failures.  A step that fails is logged, and the turn goes on with the next one.
Fail == errors < MaxErrors /\ errors' = errors + 1

StepFails(program) ==
    /\ Fail /\ at[program] # "idle"
    /\ Advance(program)
    /\ cursor' = [cursor EXCEPT ![program] = NoGames]
    /\ UNCHANGED <<vars, creation, orphaned, proving, outside>>

\* Creations that are sent and not executed.
Unexecuted == {[parent |-> tx.parent, block |-> tx.block] : tx \in {c \in creation : c.game = 0}}

\* handle_completed_tasks clears a task that failed, too.
TaskFails ==
    /\ Fail
    /\ \/ /\ creation # {} /\ creation' = {} /\ orphaned' = orphaned \cup Unexecuted
          /\ UNCHANGED proving
       \/ \E task \in proving : proving' = proving \ {task} /\ UNCHANGED <<creation, orphaned>>
    /\ UNCHANGED <<vars, at, cursor, outside>>

\* The proposer is started again; its tasks are not kept anywhere.
Restart ==
    /\ Fail
    /\ creation' = {} /\ orphaned' = orphaned \cup Unexecuted /\ proving' = {}
    /\ at' = [at EXCEPT !["proposer"] = "create"]
    /\ cursor' = [cursor EXCEPT !["proposer"] = NoGames]
    /\ UNCHANGED <<vars, outside>>

-----------------------------------------------------------------------------
\* Others open games, challenge, prove and resolve.
Outsiders == Accounts \ {Proposer, Challenger}

Outside ==
    /\ outside < MaxOutside /\ outside' = outside + 1
    /\ \E a \in Outsiders :
        \/ \E p \in {0} \cup Index, claim \in OutsiderClaims, block \in OutsiderBlocks :
            Initialize(a, p, claim, block) /\ Respected
        \/ \E g \in Index : Challenge(g, a) \/ Prove(g, a) \/ Resolve(g)
    /\ UNCHANGED <<creation, orphaned, proving, at, cursor, errors>>

\* A unit of time passes when both programs have had their turns, and no proof takes more
\* than ProveTime.
ActorsTick ==
    /\ \A program \in Programs : at[program] = "idle"
    /\ \A task \in proving : task.age < ProveTime
    /\ Tick
    /\ proving' = {[task EXCEPT !.age = @ + 1] : task \in proving}
    /\ at' = FirstStep
    /\ UNCHANGED <<creation, orphaned, cursor, errors, outside>>

\* The last steps of a turn.
Proceeds(program) == BeginResolution(program) \/ ResolveNext(program) \/ ClaimBond(program)

ActorsNext ==
    \/ DecideCreation \/ CreateGame \/ CreateLate \/ CreationEnds \/ Defend
    \/ \E task \in proving : FinishProof(task)
    \/ ChallengeOldest
    \/ \E program \in Programs :
        \/ BeginResolution(program) \/ ResolveNext(program)
        \/ ClaimBond(program) \/ StepFails(program)
    \/ TaskFails \/ Restart \/ Outside \/ ActorsTick

ActorsSpec == ActorsInit /\ [][ActorsNext]_allVars

\* The loops go on, proofs end and time passes; nobody else need do anything.
ActorsFairness ==
    /\ WF_allVars(ActorsTick)
    /\ WF_allVars(\E task \in proving : FinishProof(task))
    /\ WF_allVars(DecideCreation \/ Defend \/ Proceeds("proposer"))
    /\ WF_allVars(ChallengeOldest \/ Proceeds("challenger"))

ActorsFairSpec == ActorsSpec /\ ActorsFairness

-----------------------------------------------------------------------------
\* Types, and what a task or a loop is at: at most one creation; of the proofs of a game at
\* most one begun to defend it, though the map of tasks is asked before the task is put into
\* it, and one begun by its creation, with fast finality only; a resolution only ever looks
\* at games there are, though others are opened meanwhile.
ActorsTypeOK ==
    /\ creation \subseteq [parent : {0} \cup Index, block : Nat \ {0}, game : {0} \cup Index]
    /\ \A tx1, tx2 \in creation : tx1 = tx2
    /\ orphaned \subseteq [parent : {0} \cup Index, block : Nat \ {0}]
    /\ proving \subseteq [game : Index, age : 0 .. ProveTime, origin : {"creation", "defence"}]
    /\ \A task1, task2 \in proving :
         task1.game = task2.game /\ task1.origin = task2.origin => task1 = task2
    /\ \A task \in proving : task.origin = "creation" =>
         FastFinality /\ \A tx \in creation : tx.game # task.game
    /\ at \in [Programs -> {"create", "challenge", "defend", "resolve", "resolving", "claim", "idle"}]
    /\ cursor \in [Programs -> [next : Nat \ {0}, last : Int]]
    /\ \A program \in Programs : cursor[program].last <= Len(games)
    /\ errors \in 0 .. MaxErrors /\ outside \in 0 .. MaxOutside

\* Every L2 node has the block at every look.
Known(block) == \A head \in Heads : block <= head

\* The looks of the programs never fail before they get to game g.
Seen(g) == \A h \in 1 .. g : Known(games[h].block)

\* Every claim that is not right is challenged before its deadline, or else proven or lost
\* with its parent, though the challenger takes one game a turn, in the order of their age,
\* some of its turns fail, and it judges deadlines by another clock.  A claim behind a game
\* on a block the node has not got may go by.
WrongChallenged ==
    \A g \in Index :
        games[g].claim # "right" /\ Seen(g)
        => \/ games[g].counteredBy # Nobody \/ games[g].prover # Nobody
           \/ games[g].status = "CHALLENGER_WINS"
           \/ games[g].status = "IN_PROGRESS" /\ ~GameOver(g)

\* A right claim of the proposer, on a right root, is proven in time if it is challenged,
\* and never loses, though the proposer defends one game at a time, proofs fail, it is
\* started again and what it sent before is executed late.  A claim behind a game on a block
\* the node has not got may lose.
RightDefended ==
    \A g \in Index :
        /\ games[g].creator = Proposer /\ Seen(g)
        /\ games[g].startRoot = "right" /\ games[g].claim = "right"
        => /\ games[g].status # "CHALLENGER_WINS"
           /\ games[g].proposal = "Challenged" => ~GameOver(g)

Proven(g) == games[g].prover # Nobody

\* The games a game stands on, itself included.
Line(g) ==
    LET line[h \in Index] ==
          IF games[h].parent = 0 THEN {h} ELSE {h} \cup line[games[h].parent]
    IN  line[g]

HasSuccessor(g) == g \in Index /\ g < Len(games)

\* Resolved, and nothing left to pay to the two programs.
Settled(g) ==
    /\ g \in Index /\ games[g].status # "IN_PROGRESS"
    /\ \A program \in Programs : Credit(games[g], ModeOf(g), Address(program)) = 0

\* Every game but the latest is in the end resolved by the two programs and its bonds paid
\* to them, unless it stands on one that was proven.
EverySettled ==
    \A g \in 1 .. MaxGames - 1 :
        HasSuccessor(g) ~> Settled(g) \/ (g \in Index /\ \E h \in Line(g) : Proven(h))

\* "Both proposer and challenger attempt to resolve eligible games": a proven game that
\* others were opened after is in the end resolved.
ProvenResolved ==
    \A g \in 1 .. MaxGames :
        HasSuccessor(g) /\ Proven(g) ~> g \in Index /\ games[g].status # "IN_PROGRESS"
================================================================================
