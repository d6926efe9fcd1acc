----------------------- MODULE FaultProofActorsProofs -----------------------
(***************************************************************************)
(* Whatever the proposer, the challenger and an outsider do to the games   *)
(* is a step of FaultDisputeGame, for any windows, intervals, clocks and   *)
(* numbers of failures.  So what is proven of the games holds beside the   *)
(* programs, and no wrong claim wins while the challenger keeps up.  The   *)
(* challenger does keep up, and the proposer defends every right claim, if *)
(* the deadlines leave a turn, or a proof, for each game and each failure, *)
(* as far as no game on a block that an L2 node has not got is before them. *)
(***************************************************************************)
EXTENDS FaultProofActors, FaultDisputeGameProofs, NaturalLemmas

\* The least and the greatest of a set of games.
LEMMA LowestIsLeast ==
    ASSUME NEW S, S \subseteq Nat, S # {}
    PROVE  Lowest(S) \in S /\ \A x \in S : Lowest(S) <= x
BY Least DEF Lowest

LEMMA HighestIsGreatest ==
    ASSUME NEW n \in Nat, NEW S, S \subseteq 1 .. n, S # {}
    PROVE  Highest(S) \in S
<1>1. S \subseteq Nat /\ \A x \in S : x <= n
    OBVIOUS
<1>q. QED
    BY <1>1, Greatest DEF Highest

\* The windows of the programs hold only games there are.
LEMMA WindowInList ==
    ASSUME TypeOK
    PROVE  /\ OldestIndex \in Nat \ {0} /\ OldestIndex .. Len(games) \subseteq Index
           /\ OldestIndex + GamesToCheck - 1 \in Int
           /\ OldestIndex + GamesToCheck - 1 <= Len(games)
<1>1. Len(games) \in Nat /\ Window \in Nat /\ Index = 1 .. Len(games)
    BY GamesType, ActorsAssumption
<1>2. OldestIndex \in Nat \ {0} /\ GamesToCheck \in Int
    BY <1>1 DEF OldestIndex, GamesToCheck
<1>3. OldestIndex + GamesToCheck - 1 <= Len(games)
    <2>1. CASE Len(games) > Window
        BY <1>1, <2>1 DEF OldestIndex, GamesToCheck
    <2>2. CASE ~(Len(games) > Window)
        BY <1>1, <2>2 DEF OldestIndex, GamesToCheck
    <2>q. QED
        BY <2>1, <2>2
<1>q. QED
    BY <1>1, <1>2, <1>3

\* A game's block and the anchor's are natural numbers.
LEMMA StartsFromBlock ==
    ASSUME TypeOK, NEW p \in {0} \cup Index
    PROVE  StartingOutputRoot(p).block \in Nat
<1>1. CASE p = 0
    BY <1>1 DEF TypeOK, StartingOutputRoot
<1>2. CASE p # 0
    <2>1. games[p] \in Game
        BY <1>2, GamesType
    <2>q. QED
        BY <1>2, <2>1 DEF Game, StartingOutputRoot
<1>q. QED
    BY <1>1, <1>2

\* No step takes a game from the list.
LEMMA ListGrows ==
    ASSUME TypeOK, TypeOK', [Next]_vars
    PROVE  Len(games) <= Len(games') /\ Index \subseteq Index'
<1>1. /\ Len(games) \in Nat /\ Len(games') \in Nat
      /\ Index = 1 .. Len(games) /\ Index' = 1 .. Len(games')
    BY GamesType DEF TypeOK, Index
<1>2. ASSUME NEW g, NEW x, Update(g, x) PROVE Index' = Index
    BY <1>2 DEF Update, Index
<1>3. CASE \E a \in Accounts, p \in {0} \cup Index, claim \in Root, block \in 1 .. MaxBlock :
             Initialize(a, p, claim, block)
    <2>1. PICK x : games' = Append(games, x)
        BY <1>3 DEF Initialize
    <2>2. Len(games') = Len(games) + 1
        BY <2>1 DEF TypeOK
    <2>q. QED
        BY <1>1, <2>2
<1>4. ASSUME NEW g \in Index, NEW a \in Accounts, Challenge(g, a) \/ Prove(g, a)
      PROVE  Index' = Index
    BY <1>2, <1>4 DEF Challenge, Prove
<1>5. ASSUME NEW g \in Index, Resolve(g) \/ CloseGame(g) \/ Disown(g)
      PROVE  Index' = Index
    BY <1>2, <1>5 DEF Resolve, CloseGame, Disown, Index
<1>6. ASSUME NEW g \in Index, NEW h \in Holders, ClaimCredit(g, h) PROVE Index' = Index
    BY <1>2, <1>6 DEF ClaimCredit
<1>7. CASE Tick
    <2> DEFINE older(g) ==
          [games[g] EXCEPT
             !.timeLeft = IF @ < -MaxOverdue THEN @ ELSE @ - 1,
             !.sinceResolved = IF games[g].status = "IN_PROGRESS" THEN 0
                               ELSE AtMost(@ + 1, FinalityDelay + 1)]
    <2>1. games' = [g \in Index |-> older(g)]
        BY <1>7 DEF Tick
    <2> HIDE DEF older
    <2>2. DOMAIN games' = Index
        BY <2>1
    <2>q. QED
        BY <2>2 DEF Index
<1>8. CASE UNCHANGED vars
    BY <1>8 DEF vars, Index
<1>9. Index' = Index => Len(games') = Len(games)
    BY <1>1
<1>q. QED
    BY <1>1, <1>3, <1>4, <1>5, <1>6, <1>7, <1>8, <1>9 DEF Next

-----------------------------------------------------------------------------
\* A step of the games in which no time passes.
Moves ==
    \/ \E a \in Accounts, p \in {0} \cup Index, claim \in Root, block \in 1 .. MaxBlock :
        Initialize(a, p, claim, block)
    \/ \E g \in Index :
        \/ \E a \in Accounts : Challenge(g, a) \/ Prove(g, a)
        \/ Resolve(g) \/ CloseGame(g) \/ Disown(g)
        \/ \E h \in Holders : ClaimCredit(g, h)

\* What a look for games finds are games there are.
LEMMA LooksAtGames ==
    ASSUME TypeOK, NEW status, NEW claims, NEW skew, NEW head
    PROVE  GamesToActOn(status, claims, skew, head) \subseteq Index
BY WindowInList DEF GamesToActOn, Compared

\* The transaction of a creation opens a game or is refused.
LEMMA ExecuteMoves ==
    ASSUME TypeOK, ActorsTypeOK, NEW tx \in creation \cup orphaned, Execute(tx)
    PROVE  [Moves]_vars
<1>1. tx.parent \in {0} \cup Index /\ tx.block \in Nat \ {0}
    BY DEF ActorsTypeOK
<1>2. CASE RefusesCreation(tx)
    BY <1>2 DEF Execute
<1>3. CASE tx.block <= MaxBlock /\ Initialize(Proposer, tx.parent, "right", tx.block)
    <2>1. tx.block \in 1 .. MaxBlock /\ "right" \in Root
        BY <1>1, <1>3, GameAssumption DEF Root
    <2>q. QED
        BY <1>1, <1>3, <2>1, ActorsAssumption DEF Moves
<1>q. QED
    BY <1>2, <1>3 DEF Execute

\* Each step of a program in which no time passes moves the games or leaves them alone.
LEMMA TurnsMove ==
    ASSUME TypeOK, ActorsTypeOK, [ActorsNext]_allVars, ~ActorsTick
    PROVE  [Moves]_vars
<1>0. /\ Proposer \in Accounts /\ Challenger \in Accounts
      /\ \A program : Address(program) \in Accounts /\ Address(program) \in Holders
      /\ Index \subseteq Nat
    BY GamesType, ActorsAssumption DEF Address, Holders
<1>1. CASE CreateGame \/ CreateLate
    <2>1. PICK tx \in creation \cup orphaned : Execute(tx)
        BY <1>1 DEF CreateGame, CreateLate
    <2>q. QED
        BY <2>1, ExecuteMoves
<1>2. ASSUME NEW task \in proving, FinishProof(task) PROVE [Moves]_vars
    <2>1. task.game \in Index
        BY DEF ActorsTypeOK
    <2>q. QED
        BY <1>0, <1>2, <2>1 DEF FinishProof, Moves
<1>3. ASSUME NEW program \in Programs, ResolveNext(program) PROVE [Moves]_vars
    <2>1. PICK skew \in Skews :
            LET gs == {g \in cursor[program].next .. cursor[program].last :
                         WouldResolve(program, g, skew)}
            IN  gs # {} /\ (Resolve(Lowest(gs)) \/ UNCHANGED vars)
        BY <1>3 DEF ResolveNext
    <2> DEFINE gs == {g \in cursor[program].next .. cursor[program].last :
                        WouldResolve(program, g, skew)}
    <2>2. cursor[program].next .. cursor[program].last \subseteq Index
        BY GamesType DEF ActorsTypeOK
    <2>3. Lowest(gs) \in Index
        BY <1>0, <2>1, <2>2, LowestIsLeast
    <2>q. QED
        BY <2>1, <2>3 DEF Moves
<1>4. ASSUME NEW program \in Programs, ClaimBond(program) PROVE [Moves]_vars
    <2> DEFINE gs == ClaimableBonds(Address(program))
    <2>1. gs \subseteq Index
        BY WindowInList, GamesType DEF ClaimableBonds
    <2>2. gs # {} => Lowest(gs) \in Index
        BY <1>0, <2>1, LowestIsLeast
    <2>q. QED
        BY <1>0, <1>4, <2>2 DEF ClaimBond, Moves
<1>5. CASE ChallengeOldest
    <2>1. PICK skew \in Skews, head \in Heads :
            LET wrong == GamesToActOn("Unchallenged", Root \ {"right"}, skew, head)
                right == GamesToActOn("Unchallenged", {"right"}, skew, head)
            IN  \/ UNCHANGED vars
                \/ wrong # {} /\ Challenge(Lowest(wrong), Challenger)
                \/ right # {} /\ Challenge(Lowest(right), Challenger)
        BY <1>5 DEF ChallengeOldest
    <2>2. ASSUME NEW claims, GamesToActOn("Unchallenged", claims, skew, head) # {}
          PROVE  Lowest(GamesToActOn("Unchallenged", claims, skew, head)) \in Index
        BY <1>0, <2>2, LooksAtGames, LowestIsLeast
    <2>q. QED
        BY <1>0, <2>1, <2>2 DEF Moves
<1>6. CASE Outside
    <2>1. PICK a \in Outsiders :
            \/ \E p \in {0} \cup Index, claim \in OutsiderClaims, block \in OutsiderBlocks :
                 Initialize(a, p, claim, block)
            \/ \E g \in Index : Challenge(g, a) \/ Prove(g, a) \/ Resolve(g)
        BY <1>6 DEF Outside
    <2>2. a \in Accounts /\ OutsiderClaims \subseteq Root /\ OutsiderBlocks \subseteq 1 .. MaxBlock
        BY ActorsAssumption DEF Outsiders
    <2>q. QED
        BY <2>1, <2>2 DEF Moves
<1>7. CASE DecideCreation \/ CreationEnds \/ Defend \/ TaskFails \/ Restart
    BY <1>7 DEF DecideCreation, CreationEnds, Defend, TaskFails, Restart
<1>8. ASSUME NEW program \in Programs, BeginResolution(program) \/ StepFails(program)
      PROVE  [Moves]_vars
    BY <1>8 DEF BeginResolution, StepFails
<1>9. CASE UNCHANGED allVars
    BY <1>9 DEF allVars, vars
<1>q. QED
    BY <1>1, <1>2, <1>3, <1>4, <1>5, <1>6, <1>7, <1>8, <1>9 DEF ActorsNext

\* Each step of a program is a step of the games or leaves them alone.
LEMMA StepImplements ==
    ASSUME TypeOK, ActorsTypeOK, [ActorsNext]_allVars
    PROVE  [Next]_vars
<1>1. [Moves]_vars => [Next]_vars
    BY DEF Moves, Next
<1>2. ActorsTick => Next
    BY DEF ActorsTick, Next
<1>q. QED
    BY <1>1, <1>2, TurnsMove

-----------------------------------------------------------------------------
\* The parts of ActorsTypeOK.
CreationOK ==
    /\ creation \subseteq [parent : {0} \cup Index, block : Nat \ {0}, game : {0} \cup Index]
    /\ \A tx1, tx2 \in creation : tx1 = tx2
    /\ orphaned \subseteq [parent : {0} \cup Index, block : Nat \ {0}]

ProvingOK ==
    /\ proving \subseteq [game : Index, age : 0 .. ProveTime, origin : {"creation", "defence"}]
    /\ \A task1, task2 \in proving :
         task1.game = task2.game /\ task1.origin = task2.origin => task1 = task2

\* A creation that goes on has not begun its proof yet.
OriginsOK ==
    \A task \in proving : task.origin = "creation" =>
        FastFinality /\ \A tx \in creation : tx.game # task.game

TurnsOK ==
    /\ at \in [Programs -> {"create", "challenge", "defend", "resolve", "resolving", "claim", "idle"}]
    /\ cursor \in [Programs -> [next : Nat \ {0}, last : Int]]
    /\ \A program \in Programs : cursor[program].last <= Len(games)

CountsOK == errors \in 0 .. MaxErrors /\ outside \in 0 .. MaxOutside

\* What a step leaves alone stays well-typed, whatever happens to the games meanwhile.
LEMMA PartsStay ==
    ASSUME TypeOK, TypeOK', ActorsTypeOK, Len(games) <= Len(games'), Index \subseteq Index'
    PROVE  /\ creation' \subseteq creation /\ orphaned' \subseteq orphaned \cup Unexecuted => CreationOK'
           /\ proving' \subseteq proving => ProvingOK'
           /\ proving' \subseteq proving /\ creation' \subseteq creation => OriginsOK'
           /\ UNCHANGED <<at, cursor>> => TurnsOK'
           /\ UNCHANGED <<errors, outside>> => CountsOK'
<1>1. ASSUME creation' \subseteq creation, orphaned' \subseteq orphaned \cup Unexecuted
      PROVE  CreationOK'
    <2>1. creation' \subseteq [parent : {0} \cup Index', block : Nat \ {0}, game : {0} \cup Index']
        BY <1>1 DEF ActorsTypeOK
    <2>2. Unexecuted \subseteq [parent : {0} \cup Index, block : Nat \ {0}]
        BY DEF ActorsTypeOK, Unexecuted
    <2>3. orphaned' \subseteq [parent : {0} \cup Index', block : Nat \ {0}]
        BY <1>1, <2>2 DEF ActorsTypeOK
    <2>q. QED
        BY <1>1, <2>1, <2>3 DEF ActorsTypeOK, CreationOK
<1>2. proving' \subseteq proving => ProvingOK'
    BY DEF ActorsTypeOK, ProvingOK
<1>o. proving' \subseteq proving /\ creation' \subseteq creation => OriginsOK'
    BY DEF ActorsTypeOK, OriginsOK
<1>3. UNCHANGED <<at, cursor>> => TurnsOK'
    <2>1. Len(games) \in Nat /\ Len(games') \in Nat
        BY DEF TypeOK
    <2>q. QED
        BY <2>1 DEF ActorsTypeOK, TurnsOK
<1>4. UNCHANGED <<errors, outside>> => CountsOK'
    BY DEF ActorsTypeOK, CountsOK
<1>q. QED
    BY <1>1, <1>2, <1>o, <1>3, <1>4

\* A program that takes a step of its turn is at a step of its turn again.
LEMMA TurnsAdvance ==
    ASSUME TypeOK, TypeOK', ActorsTypeOK, Len(games) <= Len(games'),
           NEW program \in Programs, at[program] # "idle",
           \/ Advance(program) \/ at' = [at EXCEPT ![program] = "idle"]
           \/ at' = [at EXCEPT ![program] = "resolving"],
           \/ UNCHANGED cursor \/ cursor' = [cursor EXCEPT ![program] = NoGames]
           \/ UNCHANGED games /\ \E r \in [next : Nat \ {0}, last : Int] :
                r.last <= Len(games) /\ cursor' = [cursor EXCEPT ![program] = r]
    PROVE  TurnsOK'
<1>1. Len(games) \in Nat /\ Len(games') \in Nat
    BY DEF TypeOK
<1>2. Successor[at[program]] \in {"defend", "resolve", "claim", "idle"}
    <2>1. at[program] \in {"create", "challenge", "defend", "resolve", "resolving", "claim"}
        BY DEF ActorsTypeOK
    <2>q. QED
        BY <2>1 DEF Successor
<1>3. at' \in [Programs -> {"create", "challenge", "defend", "resolve", "resolving", "claim", "idle"}]
    BY <1>2 DEF ActorsTypeOK, Advance
<1>4. NoGames \in [next : Nat \ {0}, last : Int] /\ NoGames.last <= Len(games')
    BY <1>1 DEF NoGames
<1>5. \E r \in [next : Nat \ {0}, last : Int] :
        r.last <= Len(games') /\ cursor' = [cursor EXCEPT ![program] = r]
    <2>1. CASE UNCHANGED cursor
        <3>1. cursor[program] \in [next : Nat \ {0}, last : Int] /\ cursor[program].last <= Len(games)
            BY DEF ActorsTypeOK
        <3>2. cursor \in [Programs -> [next : Nat \ {0}, last : Int]]
            BY DEF ActorsTypeOK
        <3>3. cursor = [cursor EXCEPT ![program] = cursor[program]]
            BY <3>2
        <3>4. cursor[program].last <= Len(games')
            <4> DEFINE r == cursor[program]
            <4>1. r.last \in Int /\ r.last <= Len(games)
                BY <3>1
            <4>q. QED
                BY <1>1, <4>1
        <3>q. QED
            BY <2>1, <3>1, <3>3, <3>4
    <2>2. CASE cursor' = [cursor EXCEPT ![program] = NoGames]
        BY <1>4, <2>2
    <2>3. CASE UNCHANGED games /\ \E r \in [next : Nat \ {0}, last : Int] :
                r.last <= Len(games) /\ cursor' = [cursor EXCEPT ![program] = r]
        BY <2>3
    <2>q. QED
        BY <2>1, <2>2, <2>3
<1>6. PICK r \in [next : Nat \ {0}, last : Int] :
        r.last <= Len(games') /\ cursor' = [cursor EXCEPT ![program] = r]
    BY <1>5
<1>7. cursor' \in [Programs -> [next : Nat \ {0}, last : Int]]
    BY <1>6 DEF ActorsTypeOK
<1>8. ASSUME NEW other \in Programs PROVE cursor'[other].last <= Len(games')
    <2>1. CASE other = program
        BY <1>6, <2>1 DEF ActorsTypeOK
    <2>2. CASE other # program
        BY <1>1, <1>6, <2>2 DEF ActorsTypeOK
    <2>q. QED
        BY <2>1, <2>2
<1>q. QED
    BY <1>3, <1>7, <1>8 DEF TurnsOK

\* The types of the programs' variables are kept by every step.
LEMMA ActorsStep ==
    ASSUME TypeOK, TypeOK', ActorsTypeOK, [ActorsNext]_allVars
    PROVE  ActorsTypeOK'
<1>0. Len(games) \in Nat /\ Len(games) <= Len(games') /\ Index \subseteq Index'
    BY StepImplements, ListGrows DEF TypeOK
<1>p. CreationOK' /\ ProvingOK' /\ OriginsOK' /\ TurnsOK' /\ CountsOK' => ActorsTypeOK'
    BY DEF ActorsTypeOK, CreationOK, ProvingOK, OriginsOK, TurnsOK, CountsOK
<1>1. /\ creation' \subseteq creation /\ orphaned' \subseteq orphaned \cup Unexecuted => CreationOK'
      /\ proving' \subseteq proving => ProvingOK'
      /\ proving' \subseteq proving /\ creation' \subseteq creation => OriginsOK'
      /\ UNCHANGED <<at, cursor>> => TurnsOK'
      /\ UNCHANGED <<errors, outside>> => CountsOK'
    BY <1>0, PartsStay
<1>2. ASSUME NEW g \in Index', NEW origin \in {"creation", "defence"},
             proving' = proving \cup {[game |-> g, age |-> 0, origin |-> origin]},
             \A task \in proving : task.game = g => task.origin # origin
      PROVE  ProvingOK'
    <2> DEFINE new == [game |-> g, age |-> 0, origin |-> origin]
    <2>1. /\ new \in [game : Index', age : 0 .. ProveTime, origin : {"creation", "defence"}]
          /\ new.game = g /\ new.origin = origin
        BY <1>2, ActorsAssumption
    <2>2. proving \subseteq [game : Index', age : 0 .. ProveTime, origin : {"creation", "defence"}]
        BY <1>0 DEF ActorsTypeOK
    <2>3. proving' = proving \cup {new}
        BY <1>2
    <2> HIDE DEF new
    <2>4. proving' \subseteq [game : Index', age : 0 .. ProveTime, origin : {"creation", "defence"}]
        BY <2>1, <2>2, <2>3
    <2>5. ASSUME NEW task1 \in proving', NEW task2 \in proving',
                 task1.game = task2.game, task1.origin = task2.origin
          PROVE  task1 = task2
        BY <1>2, <2>1, <2>3, <2>5 DEF ActorsTypeOK
    <2>q. QED
        BY <2>4, <2>5 DEF ProvingOK
<1>3. CASE DecideCreation
    <2>1. TurnsOK'
        <3>1. /\ "proposer" \in Programs /\ at["proposer"] # "idle"
              /\ Advance("proposer") /\ UNCHANGED cursor
            BY <1>3 DEF DecideCreation, Programs
        <3>q. QED
            BY <1>0, <3>1, TurnsAdvance
    <2>2. ASSUME creation' = {[parent |-> LatestValidProposal,
                   block |-> StartingOutputRoot(LatestValidProposal).block + Interval,
                   game |-> 0]},
                 UNCHANGED <<games, orphaned, proving>>
          PROVE  CreationOK' /\ OriginsOK'
        <3>1. Len(games) \in Nat /\ Index = 1 .. Len(games)
            BY GamesType
        <3> DEFINE right == {g \in Index : games[g].claim = "right"}
        <3>2. right # {} => Highest(right) \in right
            BY <3>1, HighestIsGreatest
        <3>3. LatestValidProposal \in {0} \cup Index
            BY <3>2 DEF LatestValidProposal
        <3>4. StartingOutputRoot(LatestValidProposal).block + Interval \in Nat \ {0}
            BY <3>3, StartsFromBlock, ActorsAssumption
        <3>5. CreationOK'
            BY <2>2, <3>3, <3>4 DEF CreationOK, ActorsTypeOK, Index
        <3>6. \A tx \in creation' : tx.game = 0
            BY <2>2
        <3>7. \A task \in proving : task.game # 0
            BY <3>1 DEF ActorsTypeOK
        <3>8. OriginsOK'
            BY <2>2, <3>6, <3>7 DEF OriginsOK, ActorsTypeOK
        <3>q. QED
            BY <3>5, <3>8
    <2>3. CreationOK' /\ OriginsOK'
        BY <1>1, <1>3, <2>2 DEF DecideCreation, vars
    <2>q. QED
        BY <1>1, <1>3, <2>1, <2>3, <1>p DEF DecideCreation
<1>4. CASE CreateGame
    <2>1. PICK tx \in creation :
            /\ Execute(tx)
            /\ creation' = IF RefusesCreation(tx) THEN {}
                           ELSE {[tx EXCEPT !.game = Len(games) + 1]}
        BY <1>4 DEF CreateGame
    <2>2. proving' = proving /\ orphaned' = orphaned /\ UNCHANGED <<at, cursor, errors, outside>>
        BY <1>4 DEF CreateGame
    <2>3. CASE RefusesCreation(tx)
        BY <1>1, <2>1, <2>2, <2>3, <1>p
    <2>4. CASE ~RefusesCreation(tx)
        <3>1. PICK x : games' = Append(games, x)
            BY <2>1, <2>4 DEF Execute, Initialize
        <3>2. Len(games') = Len(games) + 1 /\ Index' = 1 .. Len(games')
            BY <3>1, GamesType DEF TypeOK, Index
        <3>3. Len(games) + 1 \in Index' /\ Len(games) + 1 \notin Index
            BY <1>0, <3>2, GamesType
        <3> DEFINE n == Len(games) + 1
                   new == [tx EXCEPT !.game = n]
        <3>4. /\ new \in [parent : {0} \cup Index', block : Nat \ {0}, game : {0} \cup Index']
              /\ new.game = n
            BY <1>0, <3>3 DEF ActorsTypeOK
        <3>5. creation' = {new}
            BY <2>1, <2>4
        <3>6. orphaned' \subseteq [parent : {0} \cup Index', block : Nat \ {0}]
            BY <1>0, <2>2 DEF ActorsTypeOK
        <3>7. \A task \in proving : task.game # n
            BY <3>3 DEF ActorsTypeOK
        <3> HIDE DEF n, new
        <3>8. CreationOK'
            BY <3>4, <3>5, <3>6 DEF CreationOK
        <3>9. OriginsOK'
            BY <2>2, <3>4, <3>5, <3>7 DEF OriginsOK, ActorsTypeOK
        <3>q. QED
            BY <1>1, <2>2, <3>8, <3>9, <1>p
    <2>q. QED
        BY <2>3, <2>4
<1>5. CASE CreateLate
    BY <1>1, <1>5, <1>p DEF CreateLate
<1>e. CASE CreationEnds
    <2>1. PICK tx \in creation :
            /\ tx.game # 0
            /\ proving' = IF FastFinality
                          THEN proving \cup {[game |-> tx.game, age |-> 0, origin |-> "creation"]}
                          ELSE proving
        BY <1>e DEF CreationEnds
    <2>2. creation' = {} /\ orphaned' = orphaned /\ UNCHANGED <<at, cursor, errors, outside>>
        BY <1>e DEF CreationEnds
    <2>3. tx.game \in Index'
        BY <1>0, <2>1 DEF ActorsTypeOK
    <2>4. CASE FastFinality
        <3>1. \A task \in proving : task.game = tx.game => task.origin # "creation"
            BY DEF ActorsTypeOK
        <3>2. ProvingOK'
            BY <1>2, <2>1, <2>3, <2>4, <3>1
        <3>3. OriginsOK'
            BY <2>2, <2>4 DEF OriginsOK
        <3>q. QED
            BY <1>1, <2>2, <3>2, <3>3, <1>p
    <2>5. CASE ~FastFinality
        BY <1>1, <2>1, <2>2, <2>5, <1>p
    <2>q. QED
        BY <2>4, <2>5
<1>6. CASE Defend
    <2>1. TurnsOK'
        <3>1. /\ "proposer" \in Programs /\ at["proposer"] # "idle"
              /\ Advance("proposer") /\ UNCHANGED cursor
            BY <1>6 DEF Defend, Programs
        <3>q. QED
            BY <1>0, <3>1, TurnsAdvance
    <2>2. PICK skew \in Skews, head \in Heads :
            LET gs == GamesToActOn("Challenged", {"right"}, skew, head) IN
            proving' = IF gs = {} \/ ProvingGame(Lowest(gs)) THEN proving
                       ELSE proving \cup {[game |-> Lowest(gs), age |-> 0, origin |-> "defence"]}
        BY <1>6 DEF Defend
    <2> DEFINE gs == GamesToActOn("Challenged", {"right"}, skew, head)
    <2>3. gs \subseteq Index /\ Index \subseteq Nat
        BY LooksAtGames, GamesType
    <2>4. gs # {} => Lowest(gs) \in Index'
        BY <1>0, <2>3, LowestIsLeast
    <2> HIDE DEF gs
    <2>5. ProvingOK' /\ OriginsOK'
        <3>1. CASE gs = {} \/ ProvingGame(Lowest(gs))
            BY <1>1, <1>6, <2>2, <3>1 DEF Defend, gs
        <3>2. CASE ~(gs = {} \/ ProvingGame(Lowest(gs)))
            <4>1. proving' = proving \cup {[game |-> Lowest(gs), age |-> 0, origin |-> "defence"]}
                BY <2>2, <3>2 DEF gs
            <4>2. ProvingOK'
                BY <1>2, <2>4, <3>2, <4>1 DEF ProvingGame
            <4>3. OriginsOK'
                <5>1. \A task \in proving' : task \in proving \/ task.origin = "defence"
                    BY <4>1
                <5>q. QED
                    BY <1>6, <5>1 DEF OriginsOK, ActorsTypeOK, Defend
            <4>q. QED
                BY <4>2, <4>3
        <3>q. QED
            BY <3>1, <3>2
    <2>q. QED
        BY <1>1, <1>6, <2>1, <2>5, <1>p DEF Defend
<1>7. ASSUME NEW task \in proving, FinishProof(task) PROVE ActorsTypeOK'
    BY <1>1, <1>7, <1>p DEF FinishProof
<1>8. CASE ChallengeOldest
    <2>1. TurnsOK'
        <3>1. /\ "challenger" \in Programs /\ at["challenger"] # "idle"
              /\ Advance("challenger") /\ UNCHANGED cursor
            BY <1>8 DEF ChallengeOldest, Programs
        <3>q. QED
            BY <1>0, <3>1, TurnsAdvance
    <2>q. QED
        BY <1>1, <1>8, <2>1, <1>p DEF ChallengeOldest
<1>9. ASSUME NEW program \in Programs, BeginResolution(program) PROVE ActorsTypeOK'
    <2>1. UNCHANGED games
        BY <1>9 DEF BeginResolution, vars
    <2>2. [next |-> OldestIndex, last |-> OldestIndex + GamesToCheck - 1]
            \in [next : Nat \ {0}, last : Int]
        BY WindowInList
    <2>3. TurnsOK'
        <3> DEFINE r == [next |-> OldestIndex, last |-> OldestIndex + GamesToCheck - 1]
        <3>1. r \in [next : Nat \ {0}, last : Int] /\ r.last <= Len(games)
            BY <2>2, WindowInList
        <3>2. at[program] # "idle"
            BY <1>9 DEF BeginResolution
        <3>3. \/ Advance(program) /\ UNCHANGED cursor
              \/ /\ at' = [at EXCEPT ![program] = "resolving"]
                 /\ cursor' = [cursor EXCEPT ![program] = r]
            BY <1>9 DEF BeginResolution
        <3> HIDE DEF r
        <3>q. QED
            BY <1>0, <2>1, <3>1, <3>2, <3>3, TurnsAdvance
    <2>q. QED
        BY <1>1, <1>9, <2>3, <1>p DEF BeginResolution
<1>10. ASSUME NEW program \in Programs, ResolveNext(program) PROVE ActorsTypeOK'
    <2>1. PICK skew \in Skews :
            LET gs == {g \in cursor[program].next .. cursor[program].last :
                         WouldResolve(program, g, skew)}
            IN  gs # {} /\ cursor' = [cursor EXCEPT ![program].next = Lowest(gs) + 1]
        BY <1>10 DEF ResolveNext
    <2> DEFINE gs == {g \in cursor[program].next .. cursor[program].last :
                        WouldResolve(program, g, skew)}
    <2>2. cursor \in [Programs -> [next : Nat \ {0}, last : Int]]
        BY DEF ActorsTypeOK
    <2>3. gs \subseteq Nat
        BY <2>2
    <2>4. Lowest(gs) + 1 \in Nat \ {0}
        BY <2>1, <2>3, LowestIsLeast
    <2>5. /\ cursor' \in [Programs -> [next : Nat \ {0}, last : Int]]
          /\ \A other \in Programs : cursor'[other].last = cursor[other].last
        BY <2>1, <2>2, <2>4
    <2>6. Len(games') \in Nat
        BY DEF TypeOK
    <2>7. TurnsOK'
        BY <1>0, <1>10, <2>2, <2>5, <2>6 DEF ResolveNext, TurnsOK, ActorsTypeOK
    <2>q. QED
        BY <1>1, <1>10, <2>7, <1>p DEF ResolveNext
<1>11. ASSUME NEW program \in Programs, ClaimBond(program) PROVE ActorsTypeOK'
    <2>1. at[program] # "idle"
        BY <1>11 DEF ClaimBond, ResolutionEnds
    <2>2. TurnsOK'
        <3>1. /\ at' = [at EXCEPT ![program] = "idle"]
              /\ cursor' = [cursor EXCEPT ![program] = NoGames]
            BY <1>11 DEF ClaimBond
        <3>q. QED
            BY <1>0, <2>1, <3>1, TurnsAdvance
    <2>q. QED
        BY <1>1, <1>11, <2>2, <1>p DEF ClaimBond
<1>12. Fail => errors' \in 0 .. MaxErrors
    BY ActorsAssumption DEF Fail, ActorsTypeOK
<1>13. ASSUME NEW program \in Programs, StepFails(program) PROVE ActorsTypeOK'
    <2>1. TurnsOK'
        <3>1. /\ at[program] # "idle" /\ Advance(program)
              /\ cursor' = [cursor EXCEPT ![program] = NoGames]
            BY <1>13 DEF StepFails
        <3>q. QED
            BY <1>0, <3>1, TurnsAdvance
    <2>q. QED
        BY <1>1, <1>12, <1>13, <2>1, <1>p DEF StepFails, CountsOK, ActorsTypeOK
<1>14. CASE TaskFails
    BY <1>1, <1>12, <1>14, <1>p DEF TaskFails, CountsOK, ActorsTypeOK
<1>15. CASE Restart
    <2>1. /\ at' \in [Programs -> {"create", "challenge", "defend", "resolve", "resolving", "claim", "idle"}]
          /\ cursor' \in [Programs -> [next : Nat \ {0}, last : Int]]
          /\ UNCHANGED games
        BY <1>15 DEF Restart, ActorsTypeOK, NoGames, Programs, vars
    <2>2. \A program \in Programs : cursor'[program].last <= Len(games')
        BY <1>0, <1>15, <2>1 DEF Restart, ActorsTypeOK, NoGames, Programs
    <2>q. QED
        BY <1>1, <1>12, <1>15, <2>1, <2>2, <1>p DEF Restart, TurnsOK, CountsOK, ActorsTypeOK
<1>16. CASE Outside
    <2>1. outside' \in 0 .. MaxOutside
        BY <1>16, ActorsAssumption DEF Outside, ActorsTypeOK
    <2>q. QED
        BY <1>1, <1>16, <2>1, <1>p DEF Outside, CountsOK, ActorsTypeOK
<1>17. CASE ActorsTick
    <2>1. \A task \in proving :
            /\ task \in [game : Index, age : 0 .. ProveTime, origin : {"creation", "defence"}]
            /\ task.age < ProveTime
        BY <1>17 DEF ActorsTick, ActorsTypeOK
    <2>2. \A task \in proving : [task EXCEPT !.age = @ + 1]
                                \in [game : Index', age : 0 .. ProveTime, origin : {"creation", "defence"}]
        BY <1>0, <2>1, ActorsAssumption
    <2>3. ProvingOK' /\ OriginsOK'
        <3> DEFINE aged(task) == [task EXCEPT !.age = @ + 1]
        <3>1. proving' = {aged(task) : task \in proving}
            BY <1>17 DEF ActorsTick
        <3>2. \A task \in proving : aged(task).game = task.game /\ aged(task).origin = task.origin
            BY <2>1
        <3>3. \A task1, task2 \in proving :
                task1.game = task2.game /\ task1.origin = task2.origin => task1 = task2
            BY DEF ActorsTypeOK
        <3>4. \A task \in proving :
                aged(task) \in [game : Index', age : 0 .. ProveTime, origin : {"creation", "defence"}]
            BY <2>2
        <3> HIDE DEF aged
        <3>5. proving' \subseteq [game : Index', age : 0 .. ProveTime, origin : {"creation", "defence"}]
            BY <3>1, <3>4
        <3>6. ASSUME NEW old1 \in proving', NEW old2 \in proving',
                     old1.game = old2.game, old1.origin = old2.origin
              PROVE  old1 = old2
            BY <3>1, <3>2, <3>3, <3>6
        <3>7. creation' = creation
            BY <1>17 DEF ActorsTick
        <3>8. OriginsOK'
            BY <3>1, <3>2, <3>7 DEF OriginsOK, ActorsTypeOK
        <3>q. QED
            BY <3>5, <3>6, <3>8 DEF ProvingOK
    <2>4. at' \in [Programs -> {"create", "challenge", "defend", "resolve", "resolving", "claim", "idle"}]
        BY <1>17 DEF ActorsTick, FirstStep, Programs
    <2>5. Len(games') \in Nat /\ cursor' = cursor
        BY <1>17 DEF ActorsTick, TypeOK
    <2>6. TurnsOK'
        BY <1>0, <2>4, <2>5 DEF TurnsOK, ActorsTypeOK
    <2>q. QED
        BY <1>1, <1>17, <2>3, <2>6, <1>p DEF ActorsTick
<1>18. CASE UNCHANGED allVars
    BY <1>1, <1>18, <1>p DEF allVars, actorVars
<1>q. QED
    BY <1>3, <1>4, <1>5, <1>e, <1>6, <1>7, <1>8, <1>9, <1>10, <1>11, <1>13, <1>14, <1>15, <1>16,
       <1>17, <1>18 DEF ActorsNext

-----------------------------------------------------------------------------
\* The programs' tasks and turns, and the games, keep the invariants of both modules.
LEMMA AlwaysActorsInv == ActorsSpec => [](GameInv /\ ActorsTypeOK)
<1>1. ActorsInit => Init /\ ActorsTypeOK
    <2> SUFFICES ASSUME ActorsInit
                 PROVE  ActorsTypeOK
        BY DEF ActorsInit
    <2>1. Len(games) = 0 /\ creation = {} /\ orphaned = {} /\ proving = {}
        BY DEF ActorsInit, Init
    <2>2. at \in [Programs -> {"create", "challenge", "defend", "resolve", "resolving", "claim", "idle"}]
        BY DEF ActorsInit, FirstStep, Programs
    <2>3. cursor \in [Programs -> [next : Nat \ {0}, last : Int]]
        BY DEF ActorsInit, NoGames
    <2>4. \A program \in Programs : cursor[program].last <= Len(games)
        BY <2>1 DEF ActorsInit, NoGames
    <2>5. errors \in 0 .. MaxErrors /\ outside \in 0 .. MaxOutside
        BY ActorsAssumption DEF ActorsInit
    <2>q. QED
        BY <2>1, <2>2, <2>3, <2>4, <2>5 DEF ActorsTypeOK
<1>2. ASSUME GameInv, ActorsTypeOK, [ActorsNext]_allVars
      PROVE  GameInv' /\ ActorsTypeOK'
    <2>1. [Next]_vars
        BY <1>2, StepImplements DEF GameInv
    <2>2. GameInv'
        BY <1>2, <2>1, GameStep
    <2>3. TypeOK /\ TypeOK'
        BY <1>2, <2>2 DEF GameInv
    <2>q. QED
        BY <1>2, <2>2, <2>3, ActorsStep
<1>3. Init => GameInv
    BY InitGameInv
<1>q. QED
    BY <1>1, <1>2, <1>3, PTL DEF ActorsSpec

\* The proposer never has two creations under way, nor two proofs of a game that its defence
\* has begun or two that its creation has, and a resolution never looks at a game that is not
\* there.
THEOREM ActorsTypesHold == ActorsSpec => []ActorsTypeOK
BY AlwaysActorsInv, PTL

\* Whatever the programs and an outsider do is a behaviour of the games: the programs'
\* modules implement FaultDisputeGame.
THEOREM ActorsImplementGames == ActorsSpec => Spec
<1>1. ActorsInit => Init
    BY DEF ActorsInit
<1>2. (GameInv /\ ActorsTypeOK) /\ [ActorsNext]_allVars => [Next]_vars
    BY StepImplements DEF GameInv
<1>q. QED
    BY <1>1, <1>2, AlwaysActorsInv, PTL DEF ActorsSpec, Spec

\* Every L2 node has the blocks of all games.
AllKnown == \A g \in Index : Known(games[g].block)

\* Then no look of a program fails.
LEMMA KnownIsSeen ==
    ASSUME TypeOK, AllKnown
    PROVE  \A g \in Index : Seen(g)
BY GamesType DEF AllKnown, Seen

\* A claim off the chain that is neither countered nor proven has won.
Missed(g) ==
    /\ games[g].claim # "right" /\ games[g].status = "DEFENDER_WINS"
    /\ games[g].counteredBy = Nobody /\ games[g].prover = Nobody

NoneMissed == \A g \in Index : Seen(g) => ~Missed(g)

\* A slip is a claim that was missed: nothing wrong is proven on a root of the chain.
LEMMA NoSlips ==
    ASSUME GameInv, AllKnown, NoneMissed
    PROVE  ~Slip
<1> SUFFICES ASSUME NEW g \in Index, games[g].startRoot # "wrong", games[g].claim = "wrong",
                    games[g].counteredBy = Nobody, games[g].status = "DEFENDER_WINS"
             PROVE  FALSE
    BY DEF Slip
<1>1. games[g].prover = Nobody
    BY DEF GameInv, Coherent
<1>2. Seen(g)
    BY KnownIsSeen DEF GameInv
<1>q. QED
    BY <1>1, <1>2 DEF NoneMissed, Missed

\* As long as the L2 nodes have the blocks of all games and every claim off the chain is
\* challenged before its deadline, no wrong claim wins and the anchor state is not wrong,
\* whatever the programs do besides.
THEOREM SafeWhileChallenged ==
    ActorsSpec => [](AllKnown /\ WrongChallenged =>
                       /\ anchor.root # "wrong"
                       /\ \A g \in Index :
                            games[g].claim = "wrong" => games[g].status # "DEFENDER_WINS")
<1>1. ASSUME GameInv, ActorsTypeOK, AllKnown, WrongChallenged
      PROVE  /\ anchor.root # "wrong"
             /\ \A g \in Index : games[g].claim = "wrong" => games[g].status # "DEFENDER_WINS"
    <2>1. NoneMissed
        BY <1>1 DEF NoneMissed, Missed, WrongChallenged
    <2>2. ~Slip
        BY <1>1, <2>1, NoSlips
    <2>q. QED
        BY <1>1, <2>2 DEF GameInv, Linked
<1>2. (GameInv /\ ActorsTypeOK) =>
        (AllKnown /\ WrongChallenged =>
           /\ anchor.root # "wrong"
           /\ \A g \in Index : games[g].claim = "wrong" => games[g].status # "DEFENDER_WINS")
    BY <1>1
<1>q. QED
    BY <1>2, AlwaysActorsInv, PTL

-----------------------------------------------------------------------------
\* Counting the games up to one.

\* The games of Q that are not later than g.
UpTo(Q, g) == {h \in Q : h <= g}

\* Games that are no longer counted only make the count smaller.
LEMMA CountShrinks ==
    ASSUME NEW n \in Nat, NEW Q, Q \subseteq 1 .. n, NEW P, NEW g,
           UpTo(P, g) \subseteq Q
    PROVE  /\ Cardinality(UpTo(Q, g)) \in Nat /\ Cardinality(UpTo(P, g)) \in Nat
           /\ Cardinality(UpTo(P, g)) <= Cardinality(UpTo(Q, g))
           /\ Cardinality(UpTo(Q, g)) <= n
<1>1. IsFiniteSet(1 .. n) /\ Cardinality(1 .. n) = n
    BY FS_Interval
<1>2. UpTo(Q, g) \subseteq 1 .. n /\ UpTo(P, g) \subseteq UpTo(Q, g)
    BY DEF UpTo
<1>3. IsFiniteSet(UpTo(Q, g)) /\ Cardinality(UpTo(Q, g)) <= Cardinality(1 .. n)
    BY <1>1, <1>2, FS_Subset
<1>4. IsFiniteSet(UpTo(P, g)) /\ Cardinality(UpTo(P, g)) <= Cardinality(UpTo(Q, g))
    BY <1>2, <1>3, FS_Subset
<1>q. QED
    BY <1>1, <1>3, <1>4, FS_CardinalityType

\* ... by one at least, if a game has gone that was counted.
LEMMA CountDrops ==
    ASSUME NEW n \in Nat, NEW Q, Q \subseteq 1 .. n, NEW P, NEW g,
           UpTo(P, g) \subseteq Q, NEW h \in UpTo(Q, g), h \notin P
    PROVE  Cardinality(UpTo(P, g)) + 1 <= Cardinality(UpTo(Q, g))
<1>1. IsFiniteSet(1 .. n)
    BY FS_Interval
<1>2. UpTo(Q, g) \subseteq 1 .. n /\ UpTo(P, g) \subseteq UpTo(Q, g) \ {h}
    BY DEF UpTo
<1>3. IsFiniteSet(UpTo(Q, g))
    BY <1>1, <1>2, FS_Subset
<1>4. /\ IsFiniteSet(UpTo(Q, g) \ {h})
      /\ Cardinality(UpTo(Q, g) \ {h}) = Cardinality(UpTo(Q, g)) - 1
    BY <1>3, FS_RemoveElement
<1>5. Cardinality(UpTo(P, g)) <= Cardinality(UpTo(Q, g) \ {h})
    BY <1>2, <1>4, FS_Subset
<1>6. Cardinality(UpTo(Q, g)) \in Nat /\ Cardinality(UpTo(P, g)) \in Nat
    BY CountShrinks
<1>q. QED
    BY <1>4, <1>5, <1>6

\* A game that is counted counts itself.
LEMMA CountsItself ==
    ASSUME NEW n \in Nat, NEW Q, Q \subseteq 1 .. n, NEW g \in Q
    PROVE  1 <= Cardinality(UpTo(Q, g))
<1>1. g \in UpTo(Q, g) /\ g \notin {}
    BY DEF UpTo
<1>2. Cardinality(UpTo({}, g)) + 1 <= Cardinality(UpTo(Q, g))
    BY <1>1, CountDrops DEF UpTo
<1>3. Cardinality(UpTo({}, g)) \in Nat /\ Cardinality(UpTo(Q, g)) \in Nat
    BY CountShrinks DEF UpTo
<1>q. QED
    BY <1>2, <1>3

\* Multiples of a duration.
LEMMA Multiples ==
    ASSUME NEW p \in Nat, NEW a \in Nat, NEW b \in Nat
    PROVE  /\ p * a \in Nat
           /\ a <= b => p * a <= p * b
           /\ a + 1 <= b => p * a + p <= p * b
<1>1. ASSUME NEW c \in Nat PROVE p * c \in Nat
    BY <1>1
<1>2. a <= b => b - a \in Nat /\ p * (b - a) = p * b - p * a
    OBVIOUS
<1>3. a + 1 <= b => b - a - 1 \in Nat /\ p * (b - a - 1) = p * b - p * a - p
    OBVIOUS
<1>q. QED
    BY <1>1, <1>2, <1>3

-----------------------------------------------------------------------------
\* What a game was opened with.
SameClaim(x, y) ==
    /\ y.parent = x.parent /\ y.creator = x.creator
    /\ y.startRoot = x.startRoot /\ y.startBlock = x.startBlock
    /\ y.claim = x.claim /\ y.block = x.block /\ y.sound = x.sound

\* How game g may get the outcome of y.
Decided(g, y) ==
    \/ y.status = "CHALLENGER_WINS" /\ ParentGameStatus(g) = "CHALLENGER_WINS"
    \/ y.status = Winner(games[g]) /\ GameOver(g)

\* What becomes of game g when no time passes: a challenge comes in time and gives the
\* time to prove, and nothing else gives any; challenges and proofs are not undone.
RunsOn(g, y) ==
    LET x == games[g] IN
    /\ SameClaim(x, y)
    /\ y.proposal = "Unchallenged" => x.proposal = "Unchallenged" /\ y.timeLeft = x.timeLeft
    /\ y.proposal = "Challenged" =>
         \/ x.proposal = "Challenged" /\ y.timeLeft = x.timeLeft
         \/ /\ x.proposal = "Unchallenged" /\ x.timeLeft >= 0
            /\ y.timeLeft = ProveDuration
    /\ x.counteredBy # Nobody => y.counteredBy # Nobody
    /\ x.prover # Nobody => y.prover # Nobody
    /\ y.status # x.status =>
         /\ x.status = "IN_PROGRESS" /\ Decided(g, y)
         /\ y.counteredBy = x.counteredBy /\ y.prover = x.prover

\* ... and when time passes.
Ages(x, y) ==
    /\ SameClaim(x, y)
    /\ y.proposal = x.proposal /\ y.status = x.status
    /\ y.counteredBy = x.counteredBy /\ y.prover = x.prover
    /\ x.timeLeft - 1 <= y.timeLeft /\ y.timeLeft <= x.timeLeft

\* A game that runs on as it is updated lets all the others run on.
LEMMA UpdateRunsOn ==
    ASSUME GameInv, NEW g \in Index, NEW y, Update(g, y), RunsOn(g, y)
    PROVE  Index' = Index /\ \A h \in Index : RunsOn(h, games'[h])
<1>1. games \in Seq(Game) /\ games' = [games EXCEPT ![g] = y]
    BY DEF GameInv, TypeOK, Update
<1>2. DOMAIN games' = Index /\ \A h \in Index : games'[h] = IF h = g THEN y ELSE games[h]
    BY <1>1 DEF Index
<1>3. \A h \in Index : RunsOn(h, games[h])
    BY DEF RunsOn, SameClaim
<1>q. QED
    BY <1>2, <1>3 DEF Index

LEMMA ChallengeRunsOn ==
    ASSUME GameInv, NEW g \in Index, NEW a \in Accounts, Challenge(g, a)
    PROVE  \E y : Update(g, y) /\ RunsOn(g, y)
<1> DEFINE x == games[g]
           c == [x.refundModeCredit EXCEPT ![a] = @ + ChallengerBond]
           b == x.balance + ChallengerBond
           y == [x EXCEPT !.counteredBy = a, !.proposal = "Challenged",
                          !.timeLeft = ProveDuration, !.refundModeCredit = c, !.balance = b]
<1>1. x \in Game /\ Update(g, y)
    BY GamesType DEF GameInv, Challenge
<1>2. x.proposal = "Unchallenged" /\ x.timeLeft >= 0
    BY <1>1 DEF Challenge, GameOver, Game
<1>3. /\ SameClaim(x, y) /\ y.proposal = "Challenged" /\ y.timeLeft = ProveDuration
      /\ y.status = x.status /\ y.counteredBy # Nobody /\ y.prover = x.prover
    <2>1. a # Nobody
        BY GameAssumption
    <2> HIDE DEF x, c, b
    <2>q. QED
        BY <1>1, <2>1 DEF SameClaim, Game
<1>4. RunsOn(g, y)
    <2> HIDE DEF y
    <2>q. QED
        BY <1>2, <1>3 DEF RunsOn
<1>q. QED
    BY <1>1, <1>4

LEMMA ProveRunsOn ==
    ASSUME GameInv, NEW g \in Index, NEW a \in Accounts, Prove(g, a)
    PROVE  \E y : Update(g, y) /\ RunsOn(g, y) /\ y.proposal \notin {"Unchallenged", "Challenged"}
<1> DEFINE x == games[g]
           p == IF x.counteredBy = Nobody THEN "UnchallengedAndValidProofProvided"
                ELSE "ChallengedAndValidProofProvided"
           y == [x EXCEPT !.prover = a, !.proposal = p]
<1>1. x \in Game /\ Update(g, y)
    BY GamesType DEF GameInv, Prove
<1>2. p \notin {"Unchallenged", "Challenged"}
    OBVIOUS
<1>3. /\ SameClaim(x, y) /\ y.proposal = p /\ y.status = x.status
      /\ y.counteredBy = x.counteredBy /\ y.prover # Nobody
    <2>1. a # Nobody
        BY GameAssumption
    <2> HIDE DEF x, p
    <2>q. QED
        BY <1>1, <2>1 DEF SameClaim, Game
<1>4. RunsOn(g, y)
    <2> HIDE DEF y, p
    <2>q. QED
        BY <1>2, <1>3 DEF RunsOn
<1>q. QED
    BY <1>1, <1>2, <1>3, <1>4

LEMMA ResolveRunsOn ==
    ASSUME GameInv, NEW g \in Index, Resolve(g)
    PROVE  \E y : Update(g, y) /\ RunsOn(g, y)
<1> DEFINE x == games[g]
<1>0. x \in Game
    BY GamesType DEF GameInv
<1>1. ASSUME NEW w PROVE
        /\ SameClaim(x, Resolved(x, w)) /\ Resolved(x, w).status = w
        /\ Resolved(x, w).proposal = "Resolved"
        /\ Resolved(x, w).counteredBy = x.counteredBy /\ Resolved(x, w).prover = x.prover
    <2> DEFINE r == Rewards(x, w)
    <2>1. Resolved(x, w) = [x EXCEPT !.status = w, !.proposal = "Resolved",
                                     !.normalModeCredit = r, !.sinceResolved = 0]
        BY DEF Resolved
    <2> HIDE DEF x, r
    <2>q. QED
        BY <1>0, <2>1 DEF SameClaim, Game
<1>2. ASSUME NEW w, Decided(g, Resolved(x, w)), x.status = "IN_PROGRESS"
      PROVE  RunsOn(g, Resolved(x, w))
    <2>1. Resolved(x, w).proposal = "Resolved"
        BY <1>1
    <2>q. QED
        BY <1>1, <1>2, <2>1 DEF RunsOn
<1>3. PICK w : /\ Update(g, Resolved(x, w)) /\ x.status = "IN_PROGRESS"
               /\ \/ w = "CHALLENGER_WINS" /\ ParentGameStatus(g) = "CHALLENGER_WINS"
                  \/ w = Winner(x) /\ GameOver(g)
    BY DEF Resolve
<1>4. Decided(g, Resolved(x, w))
    BY <1>1, <1>3 DEF Decided
<1>q. QED
    BY <1>2, <1>3, <1>4

LEMMA CloseRunsOn ==
    ASSUME GameInv, NEW g \in Index, CloseGame(g)
    PROVE  \E y : Update(g, y) /\ RunsOn(g, y)
<1> DEFINE x == games[g]
           m == ModeOf(g)
           y == [x EXCEPT !.mode = m]
<1>1. x \in Game /\ Update(g, y)
    BY GamesType DEF GameInv, CloseGame
<1>2. /\ SameClaim(x, y) /\ y.proposal = x.proposal /\ y.timeLeft = x.timeLeft
      /\ y.status = x.status /\ y.counteredBy = x.counteredBy /\ y.prover = x.prover
    <2> HIDE DEF x, m
    <2>q. QED
        BY <1>1 DEF SameClaim, Game
<1>3. RunsOn(g, y)
    <2> HIDE DEF y
    <2>q. QED
        BY <1>2 DEF RunsOn
<1>q. QED
    BY <1>1, <1>3

LEMMA ClaimRunsOn ==
    ASSUME GameInv, NEW g \in Index, NEW h \in Holders, ClaimCredit(g, h)
    PROVE  \E y : Update(g, y) /\ RunsOn(g, y)
<1> DEFINE x == games[g]
           m == ModeOf(g)
           refunds == [x.refundModeCredit EXCEPT ![h] = 0]
           normals == [x.normalModeCredit EXCEPT ![h] = 0]
           rest == x.balance - Credit(x, m, h)
           y == [x EXCEPT !.mode = m, !.balance = rest,
                          !.refundModeCredit = refunds, !.normalModeCredit = normals]
<1>1. x \in Game /\ Update(g, y)
    BY GamesType DEF GameInv, ClaimCredit
<1>2. /\ SameClaim(x, y) /\ y.proposal = x.proposal /\ y.timeLeft = x.timeLeft
      /\ y.status = x.status /\ y.counteredBy = x.counteredBy /\ y.prover = x.prover
    <2> HIDE DEF x, m, refunds, normals, rest
    <2>q. QED
        BY <1>1 DEF SameClaim, Game
<1>3. RunsOn(g, y)
    <2> HIDE DEF y
    <2>q. QED
        BY <1>2 DEF RunsOn
<1>q. QED
    BY <1>1, <1>3

\* A game just opened.
Opened(y) ==
    /\ y.proposal = "Unchallenged" /\ y.timeLeft = ChallengeDuration
    /\ y.status = "IN_PROGRESS"

\* All games run on, and one may be opened.
AllRunOn ==
    /\ Index \subseteq Index'
    /\ \A g \in Index : RunsOn(g, games'[g])
    /\ \A g \in Index' \ Index : Opened(games'[g])
    /\ Len(games) <= MaxGames => Len(games') <= MaxGames

\* ... with what its creator asked for, on what its parent claims.
OpenedWith(a, p, claim, block, y) ==
    /\ y.creator = a /\ y.claim = claim /\ y.block = block
    /\ y.startRoot = StartingOutputRoot(p).root
    /\ y.startBlock = StartingOutputRoot(p).block
    /\ y.sound \in Provable(StartingOutputRoot(p).root, claim)

\* An initialization adds one game and keeps the others.
LEMMA OpensOne ==
    ASSUME GameInv, NEW a, NEW p, NEW claim, NEW block, Initialize(a, p, claim, block)
    PROVE  \E y : /\ Index' = Index \cup {Len(games) + 1} /\ Len(games') = Len(games) + 1
                  /\ \A g \in Index : games'[g] = games[g]
                  /\ games'[Len(games) + 1] = y
                  /\ Opened(y) /\ OpenedWith(a, p, claim, block, y)
<1> DEFINE start == StartingOutputRoot(p)
           y(sound, respected) ==
             [parent |-> p, creator |-> a, startRoot |-> start.root, startBlock |-> start.block,
              claim |-> claim, block |-> block, sound |-> sound,
              counteredBy |-> Nobody, prover |-> Nobody, proposal |-> "Unchallenged",
              timeLeft |-> ChallengeDuration, status |-> "IN_PROGRESS", sinceResolved |-> 0,
              normalModeCredit |-> [h \in Holders |-> 0],
              refundModeCredit |-> [h \in Holders |-> IF h = a THEN InitBond ELSE 0],
              balance |-> InitBond, mode |-> "UNDECIDED", wasRespected |-> respected]
<1>1. PICK sound \in Provable(start.root, claim), respected \in BOOLEAN :
        games' = Append(games, y(sound, respected))
    BY DEF Initialize
<1> DEFINE x == y(sound, respected)
<1>2. Opened(x) /\ OpenedWith(a, p, claim, block, x)
    BY DEF Opened, OpenedWith
<1> HIDE DEF x
<1>3. games' = Append(games, x)
    BY <1>1 DEF x
<1>4. games \in Seq(Game) /\ Len(games) \in Nat /\ Index = 1 .. Len(games)
    BY GamesType DEF GameInv, TypeOK
<1>5. Len(games') = Len(games) + 1 /\ DOMAIN games' = 1 .. Len(games) + 1
    BY <1>3, <1>4
<1>6. /\ \A g \in Index : games'[g] = games[g]
      /\ games'[Len(games) + 1] = x
    BY <1>3, <1>4
<1>7. Index' = Index \cup {Len(games) + 1}
    BY <1>4, <1>5 DEF Index
<1>q. QED
    BY <1>2, <1>5, <1>6, <1>7

\* An initialization opens a game as the factory does, and the others run on.
LEMMA OpeningRunsOn ==
    ASSUME GameInv, NEW a, NEW p, NEW claim, NEW block, Initialize(a, p, claim, block)
    PROVE  AllRunOn
<1>1. PICK y : /\ Index' = Index \cup {Len(games) + 1} /\ Len(games') = Len(games) + 1
               /\ \A g \in Index : games'[g] = games[g]
               /\ games'[Len(games) + 1] = y
               /\ Opened(y)
    BY OpensOne
<1>2. \A g \in Index : RunsOn(g, games[g])
    BY DEF RunsOn, SameClaim
<1>3. Len(games) < MaxGames /\ MaxGames \in Nat /\ Len(games) \in Nat
    BY GameAssumption, GamesType DEF Initialize, GameInv
<1>q. QED
    BY <1>1, <1>2, <1>3 DEF AllRunOn

\* Whatever a program or an outsider does outside of a tick, every game runs on.
LEMMA MovesRunOn ==
    ASSUME GameInv, [Moves]_vars
    PROVE  AllRunOn
<1>1. Len(games) \in Nat /\ Index = 1 .. Len(games)
    BY GamesType DEF GameInv
<1>2. ASSUME NEW g \in Index, NEW y, Update(g, y), RunsOn(g, y) PROVE AllRunOn
    <2>1. Index' = Index /\ \A h \in Index : RunsOn(h, games'[h])
        BY <1>2, UpdateRunsOn
    <2>2. games \in Seq(Game) /\ games' = [games EXCEPT ![g] = y]
        BY <1>2 DEF GameInv, TypeOK, Update
    <2>3. Len(games') = Len(games)
        BY <2>2
    <2>q. QED
        BY <2>1, <2>3 DEF AllRunOn
<1>3. UNCHANGED games => AllRunOn
    BY DEF AllRunOn, RunsOn, SameClaim, Index
<1>4. CASE \E a \in Accounts, p \in {0} \cup Index, claim \in Root, block \in 1 .. MaxBlock :
             Initialize(a, p, claim, block)
    BY <1>4, OpeningRunsOn
<1>5. ASSUME NEW g \in Index, NEW a \in Accounts, Challenge(g, a) \/ Prove(g, a) PROVE AllRunOn
    BY <1>2, <1>5, ChallengeRunsOn, ProveRunsOn
<1>6. ASSUME NEW g \in Index, Resolve(g) \/ CloseGame(g) PROVE AllRunOn
    BY <1>2, <1>6, ResolveRunsOn, CloseRunsOn
<1>7. ASSUME NEW g \in Index, NEW h \in Holders, ClaimCredit(g, h) PROVE AllRunOn
    BY <1>2, <1>7, ClaimRunsOn
<1>8. ASSUME NEW g \in Index, Disown(g) PROVE AllRunOn
    BY <1>3, <1>8 DEF Disown
<1>9. CASE UNCHANGED vars
    BY <1>3, <1>9 DEF vars
<1>q. QED
    BY <1>4, <1>5, <1>6, <1>7, <1>8, <1>9 DEF Moves

\* All games age.
AllAge ==
    /\ Index' = Index /\ Len(games') = Len(games)
    /\ \A g \in Index : Ages(games[g], games'[g])

\* A tick takes at most a unit of time from every game, and changes nothing of its claim.
LEMMA TicksAge ==
    ASSUME GameInv, Tick
    PROVE  AllAge
<1> DEFINE left(x) == IF x.timeLeft < -MaxOverdue THEN x.timeLeft ELSE x.timeLeft - 1
           since(x) == IF x.status = "IN_PROGRESS" THEN 0
                       ELSE AtMost(x.sinceResolved + 1, FinalityDelay + 1)
           older(x) == [x EXCEPT !.timeLeft = left(x), !.sinceResolved = since(x)]
<1>1. games' = [g \in Index |-> older(games[g])]
    BY DEF Tick
<1>2. ASSUME NEW g \in Index PROVE Ages(games[g], older(games[g]))
    <2> DEFINE x == games[g]
               l == left(x)
               s == since(x)
               y == [x EXCEPT !.timeLeft = l, !.sinceResolved = s]
    <2>1. x \in Game
        BY GamesType DEF GameInv
    <2>2. x.timeLeft \in Int
        BY <2>1 DEF Game
    <2>3. x.timeLeft - 1 <= l /\ l <= x.timeLeft
        BY <2>2
    <2>4. SameClaim(x, y) /\ y.status = x.status /\ y.proposal = x.proposal /\ y.timeLeft = l
          /\ y.counteredBy = x.counteredBy /\ y.prover = x.prover
        <3> HIDE DEF x, l, s
        <3>q. QED
            BY <2>1 DEF SameClaim, Game
    <2>5. Ages(x, y)
        <3> HIDE DEF x, y, l, s
        <3>q. QED
            BY <2>3, <2>4 DEF Ages
    <2>q. QED
        BY <2>5
<1>3. DOMAIN games' = Index /\ \A g \in Index : Ages(games[g], games'[g])
    <2> HIDE DEF older
    <2>q. QED
        BY <1>1, <1>2
<1>4. Course
    BY TickCourse
<1>5. Len(games) \in Nat /\ Index = 1 .. Len(games) /\ games' \in Seq(Game)
    BY <1>4, GamesType DEF GameInv, Course
<1>6. Len(games') = Len(games)
    BY <1>3, <1>5
<1>q. QED
    BY <1>3, <1>6 DEF AllAge, Index

-----------------------------------------------------------------------------
\* The challenger keeps up.

\* Whether the looks get to a game never changes.
LEMMA SeenStays ==
    ASSUME TypeOK, AllRunOn \/ AllAge, NEW g \in Index
    PROVE  Seen(g)' <=> Seen(g)
<1>1. \A h \in 1 .. g : h \in Index
    BY GamesType
<1>2. \A h \in Index : SameClaim(games[h], games'[h])
    BY DEF AllRunOn, RunsOn, AllAge, Ages
<1>3. \A h \in 1 .. g : games'[h].block = games[h].block
    BY <1>1, <1>2 DEF SameClaim
<1>q. QED
    BY <1>3 DEF Seen, Known

\* Claims off the chain that the looks get to and nobody has challenged yet.
Unanswered ==
    {g \in Index : Seen(g) /\ games[g].claim # "right" /\ games[g].proposal = "Unchallenged"}

\* Failures and restarts to come.
Left == MaxErrors - errors

One(p) == IF p THEN 1 ELSE 0

\* There is a unit of time for every claim to challenge up to this one and for every failure to
\* come, and S by which the challenger's clock is ahead.  The turn of this unit counts
\* until the challenger has taken it.
InTime(S, g) ==
    S + Cardinality(UpTo(Unanswered, g)) + Left
        <= games[g].timeLeft + One(at["challenger"] = "challenge")

ChallengerKeepsUp(S) == \A g \in Unanswered : InTime(S, g)

\* Games without an answer are among the first MaxGames numbers.
LEMMA UnansweredType ==
    ASSUME TypeOK, Len(games) <= MaxGames
    PROVE  /\ Unanswered \subseteq Index /\ Unanswered \subseteq 1 .. MaxGames
           /\ MaxGames \in Nat
           /\ \A g \in Index : games[g].timeLeft \in Int
<1>1. Len(games) \in Nat /\ Index = 1 .. Len(games) /\ MaxGames \in Nat
    BY GamesType, GameAssumption
<1>2. \A g \in Index : games[g].timeLeft \in Int
    BY GamesType DEF Game
<1>q. QED
    BY <1>1, <1>2 DEF Unanswered

\* The number of failures still to come.
LEMMA LeftType ==
    ASSUME ActorsTypeOK
    PROVE  Left \in Nat /\ Left <= MaxErrors /\ MaxErrors \in Nat
BY ActorsAssumption DEF ActorsTypeOK, Left

\* The same after a step.
LEMMA NextLeftType ==
    ASSUME ActorsTypeOK'
    PROVE  Left' \in Nat /\ Left' <= MaxErrors
<1> DEFINE e == errors'
           l == Left'
<1>1. l = MaxErrors - e
    BY DEF Left
<1>2. e \in 0 .. MaxErrors /\ MaxErrors \in Nat
    BY ActorsAssumption DEF ActorsTypeOK
<1> HIDE DEF e, l
<1>3. l \in Nat /\ l <= MaxErrors
    BY <1>1, <1>2
<1>q. QED
    BY <1>3 DEF l

\* Who has taken his turn, and what a failure takes.
LEMMA TurnsGoOn ==
    ASSUME ActorsTypeOK, [ActorsNext]_allVars, ~ActorsTick
    PROVE  \/ Fail /\ UNCHANGED vars
           \/ /\ errors' = errors
              /\ ChallengeOldest \/ (at["challenger"] = "challenge" => at'["challenger"] = "challenge")
              /\ Defend \/ (at["proposer"] \in {"create", "defend"}
                              => at'["proposer"] \in {"create", "defend"})
<1>0. /\ at \in [Programs -> {"create", "challenge", "defend", "resolve", "resolving", "claim", "idle"}]
      /\ \A program \in Programs : program = "proposer" \/ program = "challenger"
    BY DEF ActorsTypeOK, Programs
<1>1. CASE DecideCreation
    BY <1>0, <1>1 DEF DecideCreation, Advance, Successor, Programs
<1>2. CASE CreateGame \/ CreateLate \/ CreationEnds
    BY <1>2 DEF CreateGame, CreateLate, CreationEnds
<1>3. CASE Defend
    BY <1>0, <1>3 DEF Defend, Advance, Programs
<1>4. ASSUME NEW task \in proving, FinishProof(task) PROVE errors' = errors /\ at' = at
    BY <1>4 DEF FinishProof
<1>5. CASE ChallengeOldest
    BY <1>0, <1>5 DEF ChallengeOldest, Advance, Programs
<1>6. ASSUME NEW program \in Programs, BeginResolution(program) \/ ResolveNext(program) \/ ClaimBond(program)
      PROVE  errors' = errors /\ \A other \in Programs : at'[other] = at[other] \/ at[other] \in {"resolve", "resolving", "claim"}
    <2>1. CASE BeginResolution(program)
        BY <1>0, <2>1 DEF BeginResolution, Advance
    <2>2. CASE ResolveNext(program)
        BY <1>0, <2>2 DEF ResolveNext
    <2>3. CASE ClaimBond(program)
        BY <1>0, <2>3 DEF ClaimBond, ResolutionEnds
    <2>q. QED
        BY <1>6, <2>1, <2>2, <2>3
<1>7. ASSUME NEW program \in Programs, StepFails(program) PROVE Fail /\ UNCHANGED vars
    BY <1>7 DEF StepFails, vars
<1>8. CASE TaskFails \/ Restart
    BY <1>8 DEF TaskFails, Restart, vars
<1>9. CASE Outside
    BY <1>9 DEF Outside
<1>10. CASE UNCHANGED allVars
    BY <1>10 DEF allVars, actorVars
<1>11. "proposer" \in Programs /\ "challenger" \in Programs
    BY DEF Programs
<1>12. ASSUME NEW program \in Programs, BeginResolution(program) \/ ResolveNext(program) \/ ClaimBond(program)
       PROVE  /\ errors' = errors
              /\ at["challenger"] = "challenge" => at'["challenger"] = "challenge"
              /\ at["proposer"] \in {"create", "defend"} => at'["proposer"] \in {"create", "defend"}
    BY <1>6, <1>11, <1>12
<1>q. QED
    BY <1>1, <1>2, <1>3, <1>4, <1>5, <1>7, <1>8, <1>9, <1>10, <1>12 DEF ActorsNext

\* The challenger's turn answers the oldest of the claims to challenge.
LEMMA OldestIsAnswered ==
    ASSUME GameInv, ActorsTypeOK, Len(games) <= MaxGames, MaxGames <= Window + 1,
           IsAllowedChallenger(Challenger),
           NEW S \in Nat, \A skew \in Skews : skew <= S, ChallengerKeepsUp(S),
           ChallengeOldest, NEW g \in Unanswered
    PROVE  \E h \in UpTo(Unanswered, g) : h \notin Unanswered'
<1>1. PICK skew \in Skews, head \in Heads :
        LET wrong == GamesToActOn("Unchallenged", Root \ {"right"}, skew, head) IN
        wrong # {} => IF /\ games[Lowest(wrong)].proposal = "Unchallenged" /\ ~GameOver(Lowest(wrong))
                         /\ IsAllowedChallenger(Challenger)
                      THEN Challenge(Lowest(wrong), Challenger) ELSE UNCHANGED vars
    BY DEF ChallengeOldest
<1> DEFINE wrong == GamesToActOn("Unchallenged", Root \ {"right"}, skew, head)
<1>2. /\ Unanswered \subseteq Index /\ Unanswered \subseteq 1 .. MaxGames
      /\ MaxGames \in Nat /\ TypeOK
      /\ \A h \in Index : games[h].timeLeft \in Int
    BY UnansweredType DEF GameInv
<1>3. skew \in Int /\ skew <= S /\ Left \in Nat
    BY LeftType, ActorsAssumption
<1>4. ASSUME NEW h \in Unanswered PROVE games[h].timeLeft >= S /\ games[h].timeLeft >= skew
    <2>1. 1 <= Cardinality(UpTo(Unanswered, h))
        BY <1>2, CountsItself
    <2>2. Cardinality(UpTo(Unanswered, h)) \in Nat
        BY <1>2, CountShrinks DEF UpTo
    <2>3. S + Cardinality(UpTo(Unanswered, h)) + Left <= games[h].timeLeft + 1
        BY <1>2, <1>3, <2>2 DEF ChallengerKeepsUp, InTime, One
    <2>4. games[h].timeLeft \in Int
        BY <1>2
    <2>q. QED
        BY <1>3, <2>1, <2>2, <2>3, <2>4
<1>5. Index = 1 .. Len(games) /\ Len(games) \in Nat /\ OldestIndex = 1
    <2>1. Index = 1 .. Len(games) /\ Len(games) \in Nat /\ Window \in Nat
        BY <1>2, GamesType, ActorsAssumption
    <2>q. QED
        BY <1>2, <2>1 DEF OldestIndex
<1>6. Unanswered \subseteq wrong /\ wrong \subseteq Index
    <2>1. wrong \subseteq Index
        BY <1>2, LooksAtGames
    <2>2. ASSUME NEW h \in Unanswered PROVE h \in wrong
        <3>1. /\ h \in OldestIndex .. Len(games) /\ games[h].claim \in Root \ {"right"}
              /\ games[h].proposal = "Unchallenged"
            BY <1>2, <1>5, GamesType DEF Unanswered, Game
        <3>2. ~DeadlinePassed(h, skew)
            BY <1>2, <1>3, <1>4 DEF DeadlinePassed
        <3>3. \A k \in Compared("Unchallenged", skew) : k <= h => games[k].block <= head
            BY <1>5 DEF Compared, Unanswered, Seen, Known
        <3>q. QED
            BY <3>1, <3>2, <3>3 DEF GamesToActOn, Compared
    <2>q. QED
        BY <2>1, <2>2
<1> DEFINE low == Lowest(wrong)
<1>7. low \in wrong /\ low <= g
    <2> HIDE DEF wrong
    <2>1. Index \subseteq Nat
        BY <1>5
    <2>2. g \in wrong /\ wrong \subseteq Nat
        BY <1>6, <2>1
    <2>q. QED
        BY <2>2, LowestIsLeast
<1>8. low \in Unanswered /\ low \in UpTo(Unanswered, g)
    <2>1. games[low].proposal = "Unchallenged" /\ games[low].claim # "right"
        BY <1>7 DEF GamesToActOn, Compared
    <2>2. Seen(g) /\ g \in Nat /\ low \in Nat
        <3> HIDE DEF low, wrong
        <3>1. g \in Index /\ low \in Index /\ Index \subseteq Nat
            BY <1>2, <1>5, <1>6, <1>7
        <3>q. QED
            BY <3>1 DEF Unanswered
    <2>3. Seen(low)
        <3> HIDE DEF low
        <3>q. QED
            BY <1>7, <2>2 DEF Seen
    <2>q. QED
        BY <1>6, <1>7, <2>1, <2>3 DEF Unanswered, UpTo
<1>9. games[low].proposal = "Unchallenged" /\ ~GameOver(low)
    <2>1. low \in Index /\ games[low].proposal = "Unchallenged" /\ games[low].timeLeft >= S
        BY <1>2, <1>4, <1>8 DEF Unanswered
    <2>2. games[low].prover = Nobody /\ games[low].timeLeft \in Int
        BY <1>2, <2>1 DEF GameInv, Coherent
    <2>q. QED
        BY <2>1, <2>2 DEF GameOver
<1>10. Challenge(low, Challenger)
    <2>1. wrong # {}
        BY <1>7
    <2>q. QED
        BY <1>1, <1>9, <2>1
<1>11. low \in Index /\ games \in Seq(Game)
    BY <1>2, <1>8 DEF TypeOK
<1>12. games'[low].proposal = "Challenged"
    <2> HIDE DEF low
    <2>1. games[low] \in Game /\ DOMAIN games = Index
        BY <1>2, <1>11, GamesType DEF Index
    <2>2. PICK c, b : games' = [games EXCEPT ![low] =
                        [games[low] EXCEPT !.counteredBy = Challenger, !.proposal = "Challenged",
                           !.timeLeft = ProveDuration, !.refundModeCredit = c, !.balance = b]]
        BY <1>10 DEF Challenge, Update
    <2>q. QED
        BY <1>11, <2>1, <2>2 DEF Game
<1>13. low \notin Unanswered'
    BY <1>12 DEF Unanswered
<1>q. QED
    BY <1>8, <1>13

\* A claim that was waiting before the step waits with less before it, or as many, and
\* no claim comes to wait but by being opened.
LEMMA WaitingShrinks ==
    ASSUME TypeOK, TypeOK', AllRunOn \/ AllAge
    PROVE  \A g \in Index : UpTo(Unanswered', g) \subseteq Unanswered
<1>1. \A h \in Index : SameClaim(games[h], games'[h])
    BY DEF AllRunOn, RunsOn, AllAge, Ages
<1>2. \A h \in Index : games'[h].proposal = "Unchallenged" => games[h].proposal = "Unchallenged"
    BY DEF AllRunOn, RunsOn, AllAge, Ages
<1>3. Len(games) \in Nat /\ Index = 1 .. Len(games) /\ Index' \subseteq Nat \ {0}
    BY GamesType DEF TypeOK, Index
<1>4. \A g \in Index, h \in Index' : h <= g => h \in Index
    BY <1>3
<1>5. \A h \in Index : Seen(h)' => Seen(h)
    BY SeenStays
<1>6. Unanswered' = {h \in Index' : /\ Seen(h)' /\ games'[h].claim # "right"
                                   /\ games'[h].proposal = "Unchallenged"}
    BY DEF Unanswered
<1>q. QED
    BY <1>1, <1>2, <1>4, <1>5, <1>6 DEF UpTo, Unanswered, SameClaim

\* The arithmetic of one claim: its time, the claims before it and the failures to come.
LEMMA SlackCarries ==
    ASSUME NEW S \in Nat, NEW rank \in Nat, NEW left \in Nat, NEW time \in Int, NEW one \in {0, 1},
           NEW rank1 \in Nat, NEW left1 \in Nat, NEW time1 \in Int, NEW one1 \in {0, 1},
           S + rank + left <= time + one, rank1 <= rank,
           \/ time1 = time /\ left1 = left - 1
           \/ time1 = time /\ left1 = left /\ one <= one1
           \/ time1 = time /\ left1 = left /\ rank1 + 1 <= rank
           \/ time - 1 <= time1 /\ left1 = left /\ one = 0 /\ one1 = 1
    PROVE  S + rank1 + left1 <= time1 + one1
OBVIOUS

\* No step of anybody makes the challenger fall behind.
LEMMA ChallengerStep ==
    ASSUME GameInv, GameInv', ActorsTypeOK, ActorsTypeOK', [ActorsNext]_allVars,
           Len(games) <= MaxGames, Len(games') <= MaxGames, MaxGames <= Window + 1,
           IsAllowedChallenger(Challenger),
           NEW S \in Nat, \A skew \in Skews : skew <= S,
           S + MaxGames + MaxErrors <= ChallengeDuration, ChallengerKeepsUp(S)
    PROVE  ChallengerKeepsUp(S)'
<1> SUFFICES ASSUME NEW g \in Unanswered'
             PROVE  InTime(S, g)'
    BY DEF ChallengerKeepsUp
<1>0. TypeOK /\ TypeOK'
    BY DEF GameInv
<1>1. /\ Unanswered \subseteq Index /\ Unanswered \subseteq 1 .. MaxGames /\ MaxGames \in Nat
      /\ \A h \in Index : games[h].timeLeft \in Int
    BY <1>0, UnansweredType
<1>2. /\ Unanswered' \subseteq Index' /\ Unanswered' \subseteq 1 .. MaxGames
      /\ \A h \in Index' : games'[h].timeLeft \in Int
    <2>1. Len(games') \in Nat /\ Index' = 1 .. Len(games') /\ \A h \in Index' : games'[h] \in Game
        BY <1>0 DEF TypeOK, Index
    <2>q. QED
        BY <1>1, <2>1 DEF Unanswered, Game
<1>3. Left \in Nat /\ Left' \in Nat /\ Left' <= MaxErrors /\ MaxErrors \in Nat
    BY LeftType, NextLeftType
<1> DEFINE rank == Cardinality(UpTo(Unanswered, g))
           rank1 == Cardinality(UpTo(Unanswered', g))
           one == One(at["challenger"] = "challenge")
           one1 == One(at'["challenger"] = "challenge")
           time == games[g].timeLeft
           time1 == games'[g].timeLeft
<1>4. one \in {0, 1} /\ one1 \in {0, 1}
    BY DEF One
<1>5. rank1 \in Nat /\ rank1 <= MaxGames
    BY <1>1, <1>2, CountShrinks DEF UpTo
<1>6. time1 \in Int
    BY <1>2
<1>7. S + rank1 + Left' <= time1 + one1 => InTime(S, g)'
    BY DEF InTime
<1>8. AllRunOn \/ (AllAge /\ ActorsTick)
    <2>1. ActorsTick => AllAge
        BY TicksAge DEF ActorsTick
    <2>2. ~ActorsTick => AllRunOn
        BY <1>0, TurnsMove, MovesRunOn
    <2>q. QED
        BY <2>1, <2>2
<1>9. CASE g \notin Index
    <2>1. games'[g].timeLeft = ChallengeDuration
        BY <1>2, <1>8, <1>9 DEF AllRunOn, AllAge, Opened
    <2>2. ChallengeDuration \in Nat
        BY GameAssumption
    <2> HIDE DEF rank1, one1, time1
    <2>3. time1 = ChallengeDuration
        BY <2>1 DEF time1
    <2> DEFINE left1 == Left'
    <2> HIDE DEF left1
    <2>4. left1 \in Nat /\ left1 <= MaxErrors /\ MaxErrors \in Nat /\ MaxGames \in Nat
        BY <1>1, <1>3 DEF left1
    <2>5. S + rank1 + left1 <= time1 + one1
        BY <1>4, <1>5, <2>2, <2>3, <2>4
    <2>q. QED
        BY <1>7, <2>5 DEF left1
<1>10. CASE g \in Index
    <2>1. UpTo(Unanswered', g) \subseteq Unanswered
        BY <1>0, <1>8, <1>10, WaitingShrinks
    <2>2. g \in Unanswered
        BY <2>1, <1>2 DEF UpTo
    <2>3. rank \in Nat /\ rank1 <= rank
        BY <1>1, <2>1, CountShrinks
    <2>4. S + rank + Left <= time + one
        BY <2>2 DEF ChallengerKeepsUp, InTime
    <2>5. time \in Int
        BY <1>1, <1>10
    <2>6. games'[g].proposal = "Unchallenged"
        BY DEF Unanswered
    <2>7. AllRunOn => time1 = time
        BY <1>10, <2>6 DEF AllRunOn, RunsOn
    <2>8. CASE ActorsTick
        <3>1. AllAge
            BY <2>8, TicksAge DEF ActorsTick
        <3>2. time - 1 <= time1
            BY <1>10, <3>1 DEF AllAge, Ages
        <3>3. one = 0 /\ one1 = 1 /\ Left' = Left
            BY <2>8 DEF ActorsTick, One, FirstStep, Programs, Left
        <3> HIDE DEF rank, rank1, one, one1, time, time1
        <3>q. QED
            BY <1>3, <1>4, <1>5, <1>6, <1>7, <2>3, <2>4, <2>5, <3>2, <3>3, SlackCarries
    <2>9. CASE ~ActorsTick
        <3>1. time1 = time
            BY <1>0, <2>7, <2>9, TurnsMove, MovesRunOn
        <3>2. CASE Fail
            <4>1. Left' = Left - 1
                BY <3>2, ActorsAssumption DEF Fail, Left, ActorsTypeOK
            <4> HIDE DEF rank, rank1, one, one1, time, time1
            <4>q. QED
                BY <1>3, <1>4, <1>5, <1>6, <1>7, <2>3, <2>4, <2>5, <3>1, <4>1, SlackCarries
        <3>3. CASE ~Fail /\ ChallengeOldest
            <4>1. Left' = Left
                BY <3>3 DEF ChallengeOldest, Left
            <4>2. PICK h \in UpTo(Unanswered, g) : h \notin Unanswered'
                BY <2>2, <3>3, OldestIsAnswered
            <4>3. rank1 + 1 <= rank
                BY <1>1, <2>1, <4>2, CountDrops
            <4> HIDE DEF rank, rank1, one, one1, time, time1
            <4>q. QED
                BY <1>3, <1>4, <1>5, <1>6, <1>7, <2>3, <2>4, <2>5, <3>1, <4>1, <4>3, SlackCarries
        <3>4. CASE ~Fail /\ ~ChallengeOldest
            <4>1. /\ errors' = errors
                  /\ at["challenger"] = "challenge" => at'["challenger"] = "challenge"
                BY <2>9, <3>4, TurnsGoOn
            <4>2. Left' = Left /\ one <= one1
                BY <4>1 DEF Left, One
            <4> HIDE DEF rank, rank1, one, one1, time, time1
            <4>q. QED
                BY <1>3, <1>4, <1>5, <1>6, <1>7, <2>3, <2>4, <2>5, <3>1, <4>2, SlackCarries
        <3>q. QED
            BY <3>2, <3>3, <3>4
    <2>q. QED
        BY <2>8, <2>9
<1>q. QED
    BY <1>9, <1>10

\* A challenger that keeps up has left no wrong claim over and unchallenged.
LEMMA NoneOverlooked ==
    ASSUME GameInv, ActorsTypeOK, Len(games) <= MaxGames, NEW S \in Nat, ChallengerKeepsUp(S)
    PROVE  \A g \in Unanswered : ~GameOver(g)
<1> SUFFICES ASSUME NEW g \in Unanswered PROVE ~GameOver(g)
    OBVIOUS
<1>1. /\ Unanswered \subseteq Index /\ Unanswered \subseteq 1 .. MaxGames /\ MaxGames \in Nat
      /\ \A h \in Index : games[h].timeLeft \in Int
    BY UnansweredType DEF GameInv
<1>2. 1 <= Cardinality(UpTo(Unanswered, g)) /\ Cardinality(UpTo(Unanswered, g)) \in Nat
    BY <1>1, CountsItself, CountShrinks DEF UpTo
<1>3. S + Cardinality(UpTo(Unanswered, g)) + Left <= games[g].timeLeft + 1
    BY <1>1, <1>2, LeftType DEF ChallengerKeepsUp, InTime, One
<1>4. games[g].timeLeft >= 0
    BY <1>1, <1>2, <1>3, LeftType
<1>5. games[g].prover = Nobody
    BY <1>1 DEF GameInv, Coherent, Unanswered
<1>q. QED
    BY <1>1, <1>4, <1>5 DEF GameOver

\* A challenger that keeps up challenges every claim off the chain in time, if none was missed.
LEMMA KeepingUpChallenges ==
    ASSUME GameInv, ActorsTypeOK, Len(games) <= MaxGames, NEW S \in Nat, ChallengerKeepsUp(S),
           NoneMissed
    PROVE  WrongChallenged
<1> SUFFICES ASSUME NEW g \in Index, games[g].claim # "right", Seen(g),
                    games[g].counteredBy = Nobody, games[g].prover = Nobody,
                    games[g].status # "CHALLENGER_WINS"
             PROVE  games[g].status = "IN_PROGRESS" /\ ~GameOver(g)
    BY DEF WrongChallenged
<1>1. games[g] \in Game /\ Coherent(games[g])
    BY GamesType DEF GameInv
<1>2. games[g].status = "IN_PROGRESS"
    BY <1>1 DEF NoneMissed, Missed, Game, GameStatus
<1>3. games[g].proposal = "Unchallenged"
    BY <1>1, <1>2 DEF Coherent, Game, ProposalStatus
<1>q. QED
    BY <1>2, <1>3, NoneOverlooked DEF Unanswered

\* ... so that none is missed.
LEMMA NothingMissed ==
    ASSUME GameInv, WrongChallenged, NoneMissed, AllRunOn \/ AllAge
    PROVE  NoneMissed'
<1> SUFFICES ASSUME NEW g \in Index', Seen(g)', games'[g].claim # "right",
                    games'[g].counteredBy = Nobody, games'[g].prover = Nobody,
                    games'[g].status = "DEFENDER_WINS"
             PROVE  FALSE
    BY DEF NoneMissed, Missed
<1>1. g \in Index
    BY DEF AllRunOn, AllAge, Opened
<1>2. SameClaim(games[g], games'[g])
    BY <1>1 DEF AllRunOn, RunsOn, AllAge, Ages
<1>3. games[g].claim # "right" /\ Seen(g)
    BY <1>1, <1>2, SeenStays DEF SameClaim, GameInv
<1>4. CASE AllAge
    BY <1>1, <1>3, <1>4 DEF AllAge, Ages, NoneMissed, Missed
<1>5. CASE AllRunOn /\ games'[g].status = games[g].status
    BY <1>1, <1>3, <1>5 DEF AllRunOn, RunsOn, NoneMissed, Missed
<1>6. CASE AllRunOn /\ games'[g].status # games[g].status
    <2>1. /\ games[g].status = "IN_PROGRESS" /\ Decided(g, games'[g])
          /\ games[g].counteredBy = Nobody /\ games[g].prover = Nobody
        BY <1>1, <1>6 DEF AllRunOn, RunsOn
    <2>2. GameOver(g)
        BY <2>1 DEF Decided
    <2>q. QED
        BY <1>1, <1>3, <2>1, <2>2 DEF WrongChallenged
<1>q. QED
    BY <1>4, <1>5, <1>6

\* What holds together with a challenger that keeps up.
ChallengerInv(S) ==
    /\ GameInv /\ ActorsTypeOK /\ Len(games) <= MaxGames
    /\ ChallengerKeepsUp(S) /\ NoneMissed

\* The invariant of the challenger is inductive, and every step is a tick or lets the games run
\* on.
LEMMA ChallengerInvStep ==
    ASSUME NEW S \in Nat, \A skew \in Skews : skew <= S,
           IsAllowedChallenger(Challenger), MaxGames <= Window + 1,
           S + MaxGames + MaxErrors <= ChallengeDuration,
           ChallengerInv(S), GameInv', ActorsTypeOK', [ActorsNext]_allVars
    PROVE  ChallengerInv(S)' /\ (AllRunOn \/ (ActorsTick /\ AllAge))
<1>1. GameInv /\ TypeOK /\ ActorsTypeOK /\ Len(games) <= MaxGames /\ ChallengerKeepsUp(S) /\ NoneMissed
    BY DEF ChallengerInv, GameInv
<1>2. AllRunOn \/ (ActorsTick /\ AllAge)
    <2>1. ActorsTick => AllAge
        BY <1>1, TicksAge DEF ActorsTick
    <2>2. ~ActorsTick => AllRunOn
        BY <1>1, TurnsMove, MovesRunOn
    <2>q. QED
        BY <2>1, <2>2
<1>3. Len(games') <= MaxGames
    BY <1>1, <1>2 DEF AllRunOn, AllAge
<1>4. ChallengerKeepsUp(S)'
    BY <1>1, <1>3, ChallengerStep
<1>5. NoneMissed'
    BY <1>1, <1>2, KeepingUpChallenges, NothingMissed
<1>q. QED
    BY <1>2, <1>3, <1>4, <1>5 DEF ChallengerInv

\* It holds before there are games.
LEMMA ChallengerInvBegins ==
    ASSUME NEW S \in Nat, ActorsInit, GameInv, ActorsTypeOK
    PROVE  ChallengerInv(S)
<1>1. Len(games) = 0 /\ Index = {} /\ MaxGames \in Nat
    BY GameAssumption DEF ActorsInit, Init, Index
<1>q. QED
    BY <1>1 DEF ChallengerInv, ChallengerKeepsUp, Unanswered, NoneMissed

\* The challenger keeps up, and misses no claim that its looks get to.
LEMMA AlwaysChallengerInv ==
    ASSUME NEW S \in Nat, \A skew \in Skews : skew <= S,
           IsAllowedChallenger(Challenger), MaxGames <= Window + 1,
           S + MaxGames + MaxErrors <= ChallengeDuration
    PROVE  ActorsSpec => []ChallengerInv(S)
<1>1. ActorsInit /\ (GameInv /\ ActorsTypeOK) => ChallengerInv(S)
    BY ChallengerInvBegins
<1>2. ChallengerInv(S) /\ (GameInv /\ ActorsTypeOK)' /\ [ActorsNext]_allVars => ChallengerInv(S)'
    BY ChallengerInvStep
<1>q. QED
    BY <1>1, <1>2, AlwaysActorsInv, PTL DEF ActorsSpec

\* Every claim that is not right, and not behind a game on a block the L2 node has not got, is
\* challenged in time, or else proven or lost, though the challenger sends one challenge in a
\* turn, oldest game first, and fails to send some: the deadline must leave its slow clock's
\* skew, a turn for each game and one more for each failure, and the scan's window must reach
\* the oldest game.
THEOREM WrongClaimsAreChallenged ==
    ASSUME NEW S \in Nat, \A skew \in Skews : skew <= S,
           IsAllowedChallenger(Challenger), MaxGames <= Window + 1,
           S + MaxGames + MaxErrors <= ChallengeDuration
    PROVE  ActorsSpec => []WrongChallenged
<1>1. ChallengerInv(S) => WrongChallenged
    BY KeepingUpChallenges DEF ChallengerInv
<1>q. QED
    BY <1>1, AlwaysChallengerInv, PTL

\* Under the same conditions no wrong claim wins and the anchor state is not wrong, whatever the
\* proposer and the outsider do, as long as they open no game on a block the L2 node has not got.
THEOREM NoWrongClaimWins ==
    ASSUME NEW S \in Nat, \A skew \in Skews : skew <= S,
           IsAllowedChallenger(Challenger), MaxGames <= Window + 1,
           S + MaxGames + MaxErrors <= ChallengeDuration
    PROVE  ActorsSpec =>
             [](AllKnown =>
                  /\ anchor.root # "wrong"
                  /\ \A g \in Index :
                       games[g].claim = "wrong" => games[g].status # "DEFENDER_WINS")
BY WrongClaimsAreChallenged, SafeWhileChallenged, PTL

-----------------------------------------------------------------------------
\* The proposer keeps up.

\* Right claims that the looks get to and a proof may still be due for.
Pending ==
    {g \in Index :
        /\ Seen(g) /\ games[g].claim = "right"
        /\ \/ games[g].proposal = "Challenged"
           \/ games[g].proposal = "Unchallenged" /\ games[g].timeLeft >= 0}

\* The time for a proof of each of so many claims, and for one more at every failure to come, each
\* with the unit of time in which it is begun.
Budget(X, claims, left) == X + (ProveTime + 1) * (claims + left)

\* What must be left when a claim is challenged, and the claims before it are.
Need(X, g) == Budget(X, Cardinality(UpTo(Pending, g)), Left)

\* A proof is under way, for this claim or one before it, and leaves the time for the others.
InHand(X, g) ==
    \E task \in proving :
        task.game \in UpTo(Pending, g) /\ Need(X, g) <= games[g].timeLeft + task.age + 1

\* Nothing has begun yet.  The turn of this unit of time counts until the proposer has looked.
NotLate(X, g) ==
    Need(X, g) <= games[g].timeLeft + One(at["proposer"] \in {"create", "defend"})

ProposerKeepsUp(X) ==
    \A g \in Pending : games[g].proposal = "Challenged" => InHand(X, g) \/ NotLate(X, g)

\* Claims a proof may be due for are among the first MaxGames numbers.
LEMMA PendingType ==
    ASSUME TypeOK, Len(games) <= MaxGames
    PROVE  /\ Pending \subseteq Index /\ Pending \subseteq 1 .. MaxGames
           /\ MaxGames \in Nat
           /\ \A g \in Index : games[g].timeLeft \in Int
<1>1. Len(games) \in Nat /\ Index = 1 .. Len(games) /\ MaxGames \in Nat
    BY GamesType, GameAssumption
<1>2. \A g \in Index : games[g].timeLeft \in Int
    BY GamesType DEF Game
<1>q. QED
    BY <1>1, <1>2 DEF Pending

\* A claim that is due after a step and is not new was due before it.
LEMMA PendingShrinks ==
    ASSUME TypeOK, TypeOK', AllRunOn \/ AllAge
    PROVE  \A g \in Index : UpTo(Pending', g) \subseteq Pending
<1>1. \A h \in Index : SameClaim(games[h], games'[h])
    BY DEF AllRunOn, RunsOn, AllAge, Ages
<1>2. \A h \in Index : games[h].timeLeft \in Int
    BY GamesType DEF Game
<1>3. Len(games) \in Nat /\ Index = 1 .. Len(games) /\ Index' \subseteq Nat \ {0}
    BY GamesType DEF TypeOK, Index
<1>4. \A g \in Index, h \in Index' : h <= g => h \in Index
    BY <1>3
<1>5. ASSUME NEW h \in Index, h \in Pending' PROVE h \in Pending
    <2>0. /\ Seen(h)' /\ games'[h].claim = "right"
          /\ \/ games'[h].proposal = "Challenged"
             \/ games'[h].proposal = "Unchallenged" /\ games'[h].timeLeft >= 0
        BY <1>5 DEF Pending
    <2>1. games[h].claim = "right" /\ Seen(h)
        BY <1>1, <2>0, SeenStays DEF SameClaim
    <2>2. CASE AllRunOn
        <3>1. RunsOn(h, games'[h])
            BY <2>2 DEF AllRunOn
        <3>q. QED
            BY <2>0, <2>1, <3>1 DEF RunsOn, Pending
    <2>3. CASE AllAge
        <3>0. \A k \in Index' : games'[k] \in Game
            BY DEF TypeOK, Index
        <3>1. Ages(games[h], games'[h]) /\ games'[h].timeLeft \in Int
            BY <2>3, <3>0 DEF AllAge, Game
        <3>2. games[h].proposal = games'[h].proposal /\ games'[h].timeLeft <= games[h].timeLeft
            BY <3>1 DEF Ages
        <3>3. games'[h].timeLeft >= 0 => games[h].timeLeft >= 0
            BY <1>2, <3>1, <3>2
        <3>q. QED
            BY <2>0, <2>1, <3>2, <3>3 DEF Pending
    <2>q. QED
        BY <2>2, <2>3
<1>6. Pending' \subseteq Index'
    BY DEF Pending
<1>q. QED
    BY <1>4, <1>5, <1>6 DEF UpTo

\* What is needed never grows, and shrinks by a proof when one less is due.
LEMMA NeedShrinks ==
    ASSUME NEW X \in Nat, NEW rank \in Nat, NEW left \in Nat, NEW rank1 \in Nat, NEW left1 \in Nat,
           rank1 <= rank, left1 <= left
    PROVE  /\ Budget(X, rank, left) \in Nat /\ Budget(X, rank1, left1) \in Nat
           /\ Budget(X, rank1, left1) <= Budget(X, rank, left)
           /\ rank1 + 1 <= rank \/ left1 + 1 <= left =>
                Budget(X, rank1, left1) + ProveTime + 1 <= Budget(X, rank, left)
<1> DEFINE need == Budget(X, rank, left)
           need1 == Budget(X, rank1, left1)
<1> DEFINE p == ProveTime + 1
           a == rank1 + left1
           b == rank + left
<1>1. p \in Nat /\ a \in Nat /\ b \in Nat
    BY ActorsAssumption
<1> DEFINE pa == p * a
           pb == p * b
<1>2. pa \in Nat /\ pb \in Nat /\ (a <= b => pa <= pb) /\ (a + 1 <= b => pa + p <= pb)
    <2> HIDE DEF p, a, b
    <2>q. QED
        BY <1>1, Multiples
<1>3. need = X + pb /\ need1 = X + pa
    BY DEF Budget
<1>4. p = ProveTime + 1 /\ a = rank1 + left1 /\ b = rank + left
    OBVIOUS
<1> HIDE DEF p, a, b, pa, pb, need, need1
<1>5. need \in Nat /\ need1 \in Nat
    BY <1>2, <1>3
<1>6. need1 <= need
    BY <1>2, <1>3, <1>4
<1>7. rank1 + 1 <= rank \/ left1 + 1 <= left => need1 + ProveTime + 1 <= need
    BY <1>1, <1>2, <1>3, <1>4, ActorsAssumption
<1>q. QED
    BY <1>5, <1>6, <1>7 DEF need, need1

\* One claim takes a proof.
LEMMA NeedsAProof ==
    ASSUME NEW X \in Nat, NEW rank \in Nat, NEW left \in Nat, 1 <= rank
    PROVE  Budget(X, rank, left) \in Nat /\ X + ProveTime + 1 <= Budget(X, rank, left)
<1> DEFINE need == Budget(X, rank, left)
           p == ProveTime + 1
           b == rank + left
           pb == p * b
<1>1. p \in Nat /\ b \in Nat /\ 1 <= b
    BY ActorsAssumption
<1>2. p \in Nat /\ pb \in Nat /\ p <= pb
    <2> HIDE DEF p, b
    <2>1. p * 0 = 0
        BY <1>1
    <2>q. QED
        BY <1>1, <2>1, Multiples
<1>3. need = X + pb /\ p = ProveTime + 1
    BY DEF Budget
<1> HIDE DEF p, b, pb, need
<1>4. need \in Nat /\ X + ProveTime + 1 <= need
    BY <1>2, <1>3, ActorsAssumption
<1>q. QED
    BY <1>4 DEF need

\* Claims are right or wrong.
ClaimsTrue == \A g \in Index : games[g].claim \in {"right", "wrong"}

\* Right claims that the looks get to are the proposer's, with the interval its proofs are made
\* for, and have not lost.
RightOwned ==
    \A g \in Index :
        LET x == games[g] IN
        x.claim = "right" /\ Seen(g) =>
            /\ x.startRoot = "right" /\ x.creator = Proposer /\ x.sound
            /\ x.startBlock = x.block - Interval
            /\ x.status # "CHALLENGER_WINS"

\* A creation that is sent starts from a right claim, or from the first anchor state.
CreationFresh ==
    \A tx \in creation \cup orphaned :
        IF tx.parent = 0 THEN AllKnown => tx.block = Interval
        ELSE games[tx.parent].claim = "right" /\ tx.block = games[tx.parent].block + Interval

\* The anchor state is the first one or that of a right claim.
AnchorFresh ==
    AllKnown =>
        /\ anchor.root = "right"
        /\ \/ anchor.block = 0
           \/ anchor.block >= Interval /\ \E g \in Index : games[g].claim = "right"

\* What is still due has time left.
LEMMA PendingNotOver ==
    ASSUME GameInv, ActorsTypeOK, Len(games) <= MaxGames, NEW X \in Nat, ProposerKeepsUp(X),
           NEW g \in Pending
    PROVE  games[g].timeLeft >= 0 /\ ~GameOver(g)
<1>1. /\ Pending \subseteq Index /\ Pending \subseteq 1 .. MaxGames /\ MaxGames \in Nat
      /\ games[g].timeLeft \in Int
    BY PendingType DEF GameInv, Pending
<1> DEFINE rank == Cardinality(UpTo(Pending, g))
           need == Need(X, g)
           time == games[g].timeLeft
<1>2. 1 <= rank /\ rank \in Nat
    BY <1>1, CountsItself, CountShrinks DEF UpTo
<1>3. need \in Nat /\ X + ProveTime + 1 <= need
    <2>1. need = Budget(X, rank, Left)
        BY DEF Need
    <2> HIDE DEF rank, need
    <2>q. QED
        BY <1>2, <2>1, LeftType, NeedsAProof
<1>4. \A task \in proving : task.age \in 0 .. ProveTime
    BY DEF ActorsTypeOK
<1>5. ProveTime \in Nat
    BY ActorsAssumption
<1>6. games[g].proposal = "Challenged" => time >= 0
    <2>1. ASSUME NEW task \in proving, need <= time + task.age + 1
          PROVE  time >= 0
        <3> DEFINE age == task.age
        <3>1. age \in Nat /\ age <= ProveTime
            BY <1>4, <1>5
        <3> HIDE DEF age, need, time
        <3>2. need <= time + age + 1 /\ time \in Int
            BY <1>1, <2>1 DEF age, time
        <3>q. QED
            BY <1>3, <1>5, <3>1, <3>2
    <2>2. ASSUME NEW one \in {0, 1}, need <= time + one PROVE time >= 0
        <3> HIDE DEF need, time
        <3>1. time \in Int
            BY <1>1 DEF time
        <3>q. QED
            BY <1>3, <1>5, <2>2, <3>1
    <2>3. One(at["proposer"] \in {"create", "defend"}) \in {0, 1}
        BY DEF One
    <2>q. QED
        BY <2>1, <2>2, <2>3 DEF ProposerKeepsUp, InHand, NotLate
<1>7. time >= 0
    BY <1>6 DEF Pending
<1>8. games[g].prover = Nobody
    BY <1>1 DEF GameInv, Coherent, Pending
<1>q. QED
    BY <1>1, <1>7, <1>8 DEF GameOver

\* Nothing but a failure ends a proof that is still due.
LEMMA TasksStay ==
    ASSUME GameInv, ActorsTypeOK, Len(games) <= MaxGames, RightOwned,
           NEW X \in Nat, ProposerKeepsUp(X), [ActorsNext]_allVars, ~ActorsTick, errors' = errors,
           NEW task \in proving, task.game \in Pending'
    PROVE  task \in proving'
<1>0. errors \in Nat /\ ~Fail
    BY ActorsAssumption DEF ActorsTypeOK, Fail
<1>1. ASSUME FinishProof(task) PROVE FALSE
    <2> DEFINE g == task.game
    <2>1. g \in Index
        BY DEF ActorsTypeOK
    <2>2. CASE Prove(g, Proposer)
        <3>1. PICK y : Update(g, y) /\ y.proposal \notin {"Unchallenged", "Challenged"}
            BY <2>1, <2>2, ProveRunsOn, ActorsAssumption
        <3>2. games \in Seq(Game)
            BY DEF GameInv, TypeOK
        <3>3. games'[g] = y
            BY <2>1, <3>1, <3>2 DEF Update, Index
        <3>q. QED
            BY <3>1, <3>3 DEF Pending
    <2>3. CASE ~Prove(g, Proposer)
        <3>1. /\ UNCHANGED vars
              /\ ~HasProof(g) \/ GameOver(g) \/ games[g].startRoot = "misplaced"
            BY <1>1, <2>3 DEF FinishProof
        <3>2. g \in Pending
            BY <3>1 DEF vars, Pending, Index, Seen
        <3>3. ~GameOver(g)
            BY <3>2, PendingNotOver
        <3>4. HasProof(g) /\ games[g].startRoot = "right"
            BY <2>1, <3>2 DEF Pending, RightOwned, HasProof
        <3>q. QED
            BY <3>1, <3>3, <3>4
    <2>q. QED
        BY <2>2, <2>3
<1>2. ASSUME NEW other \in proving, FinishProof(other) PROVE task \in proving'
    <2>1. other # task
        BY <1>1, <1>2
    <2>q. QED
        BY <1>2, <2>1 DEF FinishProof
<1>3. CASE \/ DecideCreation \/ CreateGame \/ CreateLate \/ CreationEnds
           \/ Defend \/ ChallengeOldest \/ Outside
    BY <1>3 DEF DecideCreation, CreateGame, CreateLate, CreationEnds, Defend, ChallengeOldest, Outside
<1>4. ASSUME NEW program \in Programs,
             BeginResolution(program) \/ ResolveNext(program) \/ ClaimBond(program)
      PROVE  task \in proving'
    BY <1>4 DEF BeginResolution, ResolveNext, ClaimBond
<1>5. CASE UNCHANGED allVars
    BY <1>5 DEF allVars, actorVars
<1>6. ASSUME NEW program \in Programs, StepFails(program) PROVE FALSE
    BY <1>0, <1>6 DEF StepFails
<1>7. CASE TaskFails \/ Restart
    BY <1>0, <1>7 DEF TaskFails, Restart
<1>q. QED
    BY <1>2, <1>3, <1>4, <1>5, <1>6, <1>7 DEF ActorsNext

\* Who opens games: the proposer, with a right claim, or an outsider.
LEMMA WhoOpens ==
    ASSUME GameInv, ActorsTypeOK, [ActorsNext]_allVars, OutsiderClaims \subseteq {"wrong"}
    PROVE  \/ Index' = Index
           \/ \E a, p, block : Initialize(a, p, "wrong", block)
           \/ \E tx \in creation \cup orphaned : Execute(tx) /\ ~RefusesCreation(tx)
<1>1. UNCHANGED vars => Index' = Index
    BY DEF vars, Index
<1>2. ASSUME NEW g, NEW y, Update(g, y) PROVE Index' = Index
    BY <1>2 DEF Update, Index
<1>3. ASSUME NEW g, NEW a, \/ Challenge(g, a) \/ Prove(g, a) \/ Resolve(g) \/ ClaimCredit(g, a)
      PROVE  Index' = Index
    BY <1>2, <1>3 DEF Challenge, Prove, Resolve, ClaimCredit
<1>4. CASE DecideCreation \/ CreationEnds \/ Defend \/ TaskFails \/ Restart
    BY <1>1, <1>4 DEF DecideCreation, CreationEnds, Defend, TaskFails, Restart
<1>5. CASE CreateGame \/ CreateLate
    <2>1. PICK tx \in creation \cup orphaned : Execute(tx)
        BY <1>5 DEF CreateGame, CreateLate
    <2>2. RefusesCreation(tx) => UNCHANGED vars
        BY <2>1 DEF Execute
    <2>q. QED
        BY <1>1, <2>1, <2>2
<1>6. ASSUME NEW task \in proving, FinishProof(task) PROVE Index' = Index
    BY <1>1, <1>3, <1>6 DEF FinishProof
<1>7. CASE ChallengeOldest
    BY <1>1, <1>3, <1>7 DEF ChallengeOldest
<1>8. ASSUME NEW program \in Programs,
             \/ BeginResolution(program) \/ ResolveNext(program)
             \/ ClaimBond(program) \/ StepFails(program)
      PROVE  Index' = Index
    BY <1>1, <1>3, <1>8 DEF BeginResolution, ResolveNext, ClaimBond, StepFails
<1>9. CASE Outside
    <2>1. PICK a \in Outsiders :
            \/ \E p \in {0} \cup Index, claim \in OutsiderClaims, block \in OutsiderBlocks :
                 Initialize(a, p, claim, block)
            \/ \E g \in Index : Challenge(g, a) \/ Prove(g, a) \/ Resolve(g)
        BY <1>9 DEF Outside
    <2>q. QED
        BY <1>3, <2>1
<1>10. CASE ActorsTick
    BY <1>10, TicksAge DEF ActorsTick, AllAge
<1>11. CASE UNCHANGED allVars
    BY <1>1, <1>11 DEF allVars, vars
<1>q. QED
    BY <1>4, <1>5, <1>6, <1>7, <1>8, <1>9, <1>10, <1>11 DEF ActorsNext

\* A creation that is sent was sent before, unless the proposer has just decided on it.
LEMMA SentBefore ==
    ASSUME ActorsTypeOK, [ActorsNext]_allVars, NEW tx1 \in (creation \cup orphaned)'
    PROVE  \/ \E tx \in creation \cup orphaned : tx1.parent = tx.parent /\ tx1.block = tx.block
           \/ /\ DecideCreation
              /\ tx1.parent = LatestValidProposal
              /\ tx1.block = StartingOutputRoot(LatestValidProposal).block + Interval
<1>1. CASE CreateGame
    <2>1. PICK tx \in creation :
            creation' = IF RefusesCreation(tx) THEN {}
                        ELSE {[tx EXCEPT !.game = Len(games) + 1]}
        BY <1>1 DEF CreateGame
    <2>2. tx1 \in orphaned \/ tx1 = [tx EXCEPT !.game = Len(games) + 1]
        BY <1>1, <2>1 DEF CreateGame
    <2>3. tx \in [parent : {0} \cup Index, block : Nat \ {0}, game : {0} \cup Index]
        BY DEF ActorsTypeOK
    <2>4. [tx EXCEPT !.game = Len(games) + 1].parent = tx.parent
          /\ [tx EXCEPT !.game = Len(games) + 1].block = tx.block
        BY <2>3
    <2>q. QED
        BY <2>2, <2>4
<1>2. CASE CreateLate \/ CreationEnds \/ Defend \/ ChallengeOldest \/ Outside \/ ActorsTick
    BY <1>2 DEF CreateLate, CreationEnds, Defend, ChallengeOldest, Outside, ActorsTick
<1>3. CASE TaskFails \/ Restart
    <2>1. tx1 \in creation \cup orphaned \cup Unexecuted
        BY <1>3 DEF TaskFails, Restart
    <2>q. QED
        BY <2>1 DEF Unexecuted
<1>4. ASSUME NEW task \in proving, FinishProof(task) PROVE UNCHANGED <<creation, orphaned>>
    BY <1>4 DEF FinishProof
<1>5. ASSUME NEW program \in Programs,
             \/ BeginResolution(program) \/ ResolveNext(program)
             \/ ClaimBond(program) \/ StepFails(program)
      PROVE  UNCHANGED <<creation, orphaned>>
    BY <1>5 DEF BeginResolution, ResolveNext, ClaimBond, StepFails
<1>6. CASE DecideCreation
    BY <1>6 DEF DecideCreation
<1>7. CASE UNCHANGED allVars
    BY <1>7 DEF allVars, actorVars
<1>q. QED
    BY <1>1, <1>2, <1>3, <1>4, <1>5, <1>6, <1>7 DEF ActorsNext

\* The anchor moves only to a claim that has won.
LEMMA AnchorMoves ==
    ASSUME [Next]_vars, anchor' # anchor
    PROVE  \E g \in Index : /\ games[g].status = "DEFENDER_WINS"
                           /\ anchor' = [root |-> games[g].claim, block |-> games[g].block]
<1> DEFINE To(g) == /\ games[g].status = "DEFENDER_WINS"
                    /\ anchor' = [root |-> games[g].claim, block |-> games[g].block]
<1>1. ASSUME NEW g \in Index, Close(g) \/ UNCHANGED anchor PROVE To(g)
    BY <1>1 DEF Close, CanAnchor
<1>2. CASE \E a \in Accounts, p \in {0} \cup Index, claim \in Root, block \in 1 .. MaxBlock :
             Initialize(a, p, claim, block)
    BY <1>2 DEF Initialize
<1>3. ASSUME NEW g \in Index, NEW a \in Accounts, Challenge(g, a) \/ Prove(g, a) PROVE FALSE
    BY <1>3 DEF Challenge, Prove
<1>4. ASSUME NEW g \in Index, Resolve(g) \/ Disown(g) PROVE FALSE
    BY <1>4 DEF Resolve, Disown
<1>5. ASSUME NEW g \in Index, NEW h \in Holders, ClaimCredit(g, h)
      PROVE  To(g)
    BY <1>1, <1>5 DEF ClaimCredit
<1>6. CASE Tick
    BY <1>6 DEF Tick
<1>7. CASE UNCHANGED vars
    BY <1>7 DEF vars
<1>8. ASSUME NEW g \in Index, CloseGame(g) PROVE To(g)
    BY <1>1, <1>8 DEF CloseGame
<1>q. QED
    BY <1>2, <1>3, <1>4, <1>5, <1>6, <1>7, <1>8 DEF Next

\* If all blocks are known after a step they were before it.
LEMMA KnownBefore ==
    ASSUME AllRunOn \/ AllAge, AllKnown'
    PROVE  AllKnown
<1>1. \A h \in Index : h \in Index' /\ SameClaim(games[h], games'[h])
    BY DEF AllRunOn, RunsOn, AllAge, Ages
<1>2. \A h \in Index : games'[h].block = games[h].block
    BY <1>1 DEF SameClaim
<1>q. QED
    BY <1>1, <1>2 DEF AllKnown, Known

\* Only right claims win, as long as all blocks are known.
LEMMA RightWins ==
    ASSUME GameInv, NoneMissed, ClaimsTrue, AllKnown, NEW g \in Index,
           games[g].status = "DEFENDER_WINS"
    PROVE  games[g].claim = "right"
<1>1. ~Slip
    BY NoSlips
<1>q. QED
    BY <1>1 DEF GameInv, Linked, ClaimsTrue

\* A game is opened on a right root, with the block that the proposer's proofs begin at.
LEMMA StartsRight ==
    ASSUME GameInv, ActorsTypeOK, AllKnown, CreationFresh, AnchorFresh,
           NEW tx \in creation \cup orphaned, ~RefusesCreation(tx)
    PROVE  /\ StartingOutputRoot(tx.parent).root = "right"
           /\ StartingOutputRoot(tx.parent).block = tx.block - Interval
<1>1. /\ tx.parent \in {0} \cup Index /\ tx.block \in Nat /\ Interval \in Nat
      /\ StartingOutputRoot(tx.parent).block \in Nat
    <2>1. tx.parent \in {0} \cup Index /\ tx.block \in Nat
        BY DEF ActorsTypeOK
    <2>q. QED
        BY <2>1, StartsFromBlock, ActorsAssumption DEF GameInv
<1>2. CASE tx.parent = 0
    <2> DEFINE b == anchor.block
               t == tx.block
    <2>1. StartingOutputRoot(tx.parent).root = "right" /\ StartingOutputRoot(tx.parent).block = b
        BY <1>2 DEF AnchorFresh, StartingOutputRoot
    <2>2. t = Interval /\ ~(t <= b) /\ (b = 0 \/ b >= Interval)
        BY <1>2, <2>1 DEF CreationFresh, RefusesCreation, AnchorFresh
    <2>3. b \in Nat /\ t \in Nat
        BY <1>1, <2>1
    <2> HIDE DEF b, t
    <2>4. b = t - Interval
        BY <1>1, <2>2, <2>3
    <2>q. QED
        BY <2>1, <2>4 DEF t
<1>3. CASE tx.parent # 0
    <2> DEFINE b == games[tx.parent].block
               t == tx.block
    <2>1. StartingOutputRoot(tx.parent).root = "right" /\ StartingOutputRoot(tx.parent).block = b
        BY <1>3 DEF CreationFresh, StartingOutputRoot
    <2>2. t = b + Interval
        BY <1>3 DEF CreationFresh
    <2>3. b \in Nat /\ t \in Nat
        BY <1>1, <2>1
    <2> HIDE DEF b, t
    <2>4. b = t - Interval
        BY <1>1, <2>2, <2>3
    <2>q. QED
        BY <2>1, <2>4 DEF t
<1>q. QED
    BY <1>2, <1>3

\* What the proposer opens.
LEMMA ProposerOpens ==
    ASSUME GameInv, NEW tx, Execute(tx), ~RefusesCreation(tx)
    PROVE  \E y : /\ Index' = Index \cup {Len(games) + 1} /\ games'[Len(games) + 1] = y
                  /\ \A g \in Index : games'[g] = games[g]
                  /\ Opened(y) /\ OpenedWith(Proposer, tx.parent, "right", tx.block, y)
                  /\ y.startRoot = "right" => y.sound
<1>1. Initialize(Proposer, tx.parent, "right", tx.block) /\ Derivable(Len(games) + 1)
    BY DEF Execute
<1>q. QED
    BY <1>1, OpensOne DEF Derivable

\* Outsiders claim wrong roots only, and the proposer right ones.
LEMMA ClaimsTrueStep ==
    ASSUME GameInv, ActorsTypeOK, ClaimsTrue, [ActorsNext]_allVars, AllRunOn \/ AllAge,
           OutsiderClaims \subseteq {"wrong"}
    PROVE  ClaimsTrue'
<1> SUFFICES ASSUME NEW g \in Index' PROVE games'[g].claim \in {"right", "wrong"}
    BY DEF ClaimsTrue
<1>1. CASE g \in Index
    <2>1. SameClaim(games[g], games'[g])
        BY <1>1 DEF AllRunOn, RunsOn, AllAge, Ages
    <2>q. QED
        BY <1>1, <2>1 DEF SameClaim, ClaimsTrue
<1>2. CASE g \notin Index
    <2>1. ASSUME NEW a, NEW p, NEW block, Initialize(a, p, "wrong", block)
          PROVE  games'[g].claim = "wrong"
        BY <1>2, <2>1, OpensOne DEF OpenedWith
    <2>2. ASSUME NEW tx, Execute(tx), ~RefusesCreation(tx) PROVE games'[g].claim = "right"
        BY <1>2, <2>2, ProposerOpens DEF OpenedWith
    <2>q. QED
        BY <1>2, <2>1, <2>2, WhoOpens
<1>q. QED
    BY <1>1, <1>2

\* No step makes a right claim that is not the proposer's own, or lets one lose.
LEMMA RightOwnedStep ==
    ASSUME GameInv, GameInv', ActorsTypeOK, Len(games) <= MaxGames,
           NEW X \in Nat, ProposerKeepsUp(X), RightOwned, CreationFresh, AnchorFresh,
           [ActorsNext]_allVars, AllRunOn \/ AllAge, OutsiderClaims \subseteq {"wrong"}
    PROVE  RightOwned'
<1> SUFFICES ASSUME NEW g \in Index', games'[g].claim = "right", Seen(g)'
             PROVE  /\ games'[g].startRoot = "right" /\ games'[g].creator = Proposer
                    /\ games'[g].sound /\ games'[g].startBlock = games'[g].block - Interval
                    /\ games'[g].status # "CHALLENGER_WINS"
    BY DEF RightOwned
<1>0. TypeOK
    BY DEF GameInv
<1>1. CASE g \in Index
    <2>1. SameClaim(games[g], games'[g]) /\ Seen(g)
        BY <1>0, <1>1, SeenStays DEF AllRunOn, RunsOn, AllAge, Ages
    <2>2. /\ games[g].claim = "right" /\ games[g].startRoot = "right" /\ games[g].creator = Proposer
          /\ games[g].sound /\ games[g].startBlock = games[g].block - Interval
          /\ games[g].status # "CHALLENGER_WINS"
        BY <1>1, <2>1 DEF SameClaim, RightOwned
    <2>3. ASSUME games'[g].status = "CHALLENGER_WINS" PROVE FALSE
        <3>1. Decided(g, games'[g])
            BY <1>1, <2>2, <2>3 DEF AllRunOn, RunsOn, AllAge, Ages
        <3>2. CASE ParentGameStatus(g) = "CHALLENGER_WINS"
            <4>1. games[g].parent # 0 /\ games[games[g].parent].status = "CHALLENGER_WINS"
                BY <3>2 DEF ParentGameStatus
            <4>2. games[g].parent \in Index
                BY <1>0, <1>1, <4>1, ParentInIndex
            <4>3. games[games[g].parent].claim = "right"
                BY <1>1, <2>2, <4>1 DEF GameInv, Linked
            <4>4. Seen(games[g].parent)
                <5>1. /\ games[g].parent \in Nat /\ games[g].parent < g /\ g \in Nat
                    BY <1>0, <1>1, GamesType
                <5> DEFINE p == games[g].parent
                <5> HIDE DEF p
                <5>2. p \in Nat /\ p < g /\ g \in Nat
                    BY <5>1 DEF p
                <5>3. Seen(p)
                    BY <2>1, <5>2 DEF Seen
                <5>q. QED
                    BY <5>3 DEF p
            <4>q. QED
                BY <4>1, <4>2, <4>3, <4>4 DEF RightOwned
        <3>3. CASE games'[g].status = Winner(games[g]) /\ GameOver(g)
            <4>1. games[g].proposal = "Challenged"
                BY <2>3, <3>3 DEF Winner
            <4>2. g \in Pending
                BY <1>1, <2>1, <2>2, <4>1 DEF Pending
            <4>q. QED
                BY <3>3, <4>2, PendingNotOver
        <3>q. QED
            BY <3>1, <3>2, <3>3 DEF Decided
    <2>q. QED
        BY <2>1, <2>2, <2>3 DEF SameClaim
<1>2. CASE g \notin Index
    <2>1. ASSUME NEW a, NEW p, NEW block, Initialize(a, p, "wrong", block) PROVE FALSE
        <3>1. games'[g].claim = "wrong"
            BY <1>2, <2>1, OpensOne DEF OpenedWith
        <3>q. QED
            BY <3>1
    <2>2. PICK tx \in creation \cup orphaned : Execute(tx) /\ ~RefusesCreation(tx)
        BY <1>2, <2>1, WhoOpens
    <2>3. /\ g = Len(games) + 1 /\ \A h \in Index : games'[h] = games[h]
          /\ Opened(games'[g]) /\ OpenedWith(Proposer, tx.parent, "right", tx.block, games'[g])
          /\ games'[g].startRoot = "right" => games'[g].sound
        BY <1>2, <2>2, ProposerOpens
    <2>4. AllKnown
        <3>1. \A h \in Index : h \in 1 .. g
            BY <1>0, <2>3, GamesType
        <3>q. QED
            BY <2>3, <3>1 DEF AllKnown, Seen, Known
    <2>5. /\ StartingOutputRoot(tx.parent).root = "right"
          /\ StartingOutputRoot(tx.parent).block = tx.block - Interval
        BY <2>2, <2>4, StartsRight
    <2>q. QED
        BY <2>3, <2>5 DEF Opened, OpenedWith
<1>q. QED
    BY <1>1, <1>2

\* No step makes the anchor state anything else.
LEMMA AnchorFreshStep ==
    ASSUME GameInv, ActorsTypeOK, NoneMissed, ClaimsTrue, RightOwned, AnchorFresh,
           [ActorsNext]_allVars, AllRunOn \/ AllAge
    PROVE  AnchorFresh'
<1> SUFFICES ASSUME AllKnown'
             PROVE  /\ anchor'.root = "right"
                    /\ \/ anchor'.block = 0
                       \/ /\ anchor'.block >= Interval
                          /\ \E g \in Index' : games'[g].claim = "right"
    BY DEF AnchorFresh
<1>0. TypeOK /\ AllKnown
    BY KnownBefore DEF GameInv
<1>1. \A g \in Index : games[g].claim = "right" => g \in Index' /\ games'[g].claim = "right"
    BY DEF AllRunOn, RunsOn, AllAge, Ages, SameClaim
<1>2. CASE anchor' = anchor
    BY <1>0, <1>1, <1>2 DEF AnchorFresh
<1>3. CASE anchor' # anchor
    <2>1. [Next]_vars
        BY <1>0, StepImplements
    <2>2. PICK g \in Index : /\ games[g].status = "DEFENDER_WINS"
                            /\ anchor' = [root |-> games[g].claim, block |-> games[g].block]
        BY <1>3, <2>1, AnchorMoves
    <2>3. games[g].claim = "right" /\ Seen(g)
        BY <1>0, <2>2, RightWins, KnownIsSeen
    <2>4. games[g].startBlock = games[g].block - Interval
        BY <2>3 DEF RightOwned
    <2>5. games[g].block \in Nat /\ games[g].startBlock \in Nat /\ Interval \in Nat
        BY <1>0, GamesType, ActorsAssumption DEF Game
    <2>6. games[g].block >= Interval
        <3> DEFINE b == games[g].block
                   st == games[g].startBlock
        <3> HIDE DEF b, st
        <3>1. st = b - Interval /\ b \in Nat /\ st \in Nat /\ Interval \in Nat
            BY <2>4, <2>5 DEF b, st
        <3>2. b >= Interval
            BY <3>1
        <3>q. QED
            BY <3>2 DEF b
    <2>7. anchor'.root = "right" /\ anchor'.block = games[g].block
        BY <2>2, <2>3
    <2>q. QED
        BY <1>1, <2>3, <2>6, <2>7
<1>q. QED
    BY <1>2, <1>3

\* No step makes a creation that is sent start from anything else.
LEMMA CreationFreshStep ==
    ASSUME GameInv, ActorsTypeOK, NoneMissed, ClaimsTrue, AnchorFresh, CreationFresh,
           [ActorsNext]_allVars, AllRunOn \/ AllAge
    PROVE  CreationFresh'
<1> SUFFICES ASSUME NEW tx1 \in (creation \cup orphaned)'
             PROVE  IF tx1.parent = 0 THEN AllKnown' => tx1.block = Interval
                    ELSE /\ games'[tx1.parent].claim = "right"
                         /\ tx1.block = games'[tx1.parent].block + Interval
    BY DEF CreationFresh
<1>0. /\ TypeOK /\ 0 \notin Index
      /\ \A h \in Index : SameClaim(games[h], games'[h])
    BY GamesType DEF GameInv, AllRunOn, RunsOn, AllAge, Ages
<1>1. ASSUME NEW tx \in creation \cup orphaned, tx1.parent = tx.parent, tx1.block = tx.block
      PROVE  IF tx1.parent = 0 THEN AllKnown' => tx1.block = Interval
             ELSE /\ games'[tx1.parent].claim = "right"
                  /\ tx1.block = games'[tx1.parent].block + Interval
    <2>1. tx.parent \in {0} \cup Index
        BY DEF ActorsTypeOK
    <2>2. CASE tx.parent = 0
        BY <1>1, <2>2, KnownBefore DEF CreationFresh
    <2>3. CASE tx.parent # 0
        BY <1>0, <1>1, <2>1, <2>3 DEF CreationFresh, SameClaim
    <2>q. QED
        BY <2>2, <2>3
<1>2. CASE /\ DecideCreation
           /\ tx1.parent = LatestValidProposal
           /\ tx1.block = StartingOutputRoot(LatestValidProposal).block + Interval
    <2> DEFINE right == {g \in Index : games[g].claim = "right"}
    <2>1. CASE right = {}
        <3>1. LatestValidProposal = 0
            BY <2>1 DEF LatestValidProposal
        <3>2. AllKnown => anchor.block = 0
            BY <2>1 DEF AnchorFresh
        <3>3. tx1.parent = 0 /\ tx1.block = anchor.block + Interval
            BY <1>2, <3>1 DEF StartingOutputRoot
        <3>q. QED
            BY <3>2, <3>3, KnownBefore, ActorsAssumption
    <2>2. CASE right # {}
        <3>1. Len(games) \in Nat /\ Index = 1 .. Len(games)
            BY <1>0, GamesType
        <3>2. LatestValidProposal = Highest(right)
            BY <2>2 DEF LatestValidProposal
        <3>3. Highest(right) \in right
            <4>1. right \subseteq 1 .. Len(games)
                BY <3>1
            <4> HIDE DEF right
            <4>q. QED
                BY <2>2, <3>1, <4>1, HighestIsGreatest
        <3>4. LatestValidProposal \in Index /\ games[LatestValidProposal].claim = "right"
            BY <3>2, <3>3
        <3>5. tx1.parent # 0 /\ tx1.block = games[tx1.parent].block + Interval
            BY <1>0, <1>2, <3>4 DEF StartingOutputRoot
        <3>q. QED
            BY <1>0, <1>2, <3>4, <3>5 DEF SameClaim
    <2>q. QED
        BY <2>1, <2>2
<1>q. QED
    BY <1>1, <1>2, SentBefore

\* The defence of one claim stays in time over a step: after a failure, because one less
\* is to come; otherwise if proofs that are due go on and the proposer's turn is not over
\* with nothing done.
LEMMA DefenceCarries ==
    ASSUME NEW X \in Nat, TypeOK, TypeOK', ActorsTypeOK, ActorsTypeOK',
           Len(games) <= MaxGames, AllRunOn \/ AllAge,
           NEW g \in Index, g \in Pending', InHand(X, g) \/ NotLate(X, g),
           \/ Left' = Left - 1 /\ games'[g].timeLeft = games[g].timeLeft
           \/ /\ Left' = Left
              /\ games[g].timeLeft + One(at["proposer"] \in {"create", "defend"})
                   <= games'[g].timeLeft + One(at'["proposer"] \in {"create", "defend"})
              /\ \A task \in proving : task.game \in Pending' =>
                   \E task1 \in proving' :
                     /\ task1.game = task.game
                     /\ games[g].timeLeft + task.age <= games'[g].timeLeft + task1.age
    PROVE  InHand(X, g)' \/ NotLate(X, g)'
<1> DEFINE rank == Cardinality(UpTo(Pending, g))
           rank1 == Cardinality(UpTo(Pending', g))
           need == Need(X, g)
           need1 == Need(X, g)'
           left == Left
           left1 == Left'
           time == games[g].timeLeft
           time1 == games'[g].timeLeft
           one == One(at["proposer"] \in {"create", "defend"})
           one1 == One(at'["proposer"] \in {"create", "defend"})
<1>1. /\ Pending \subseteq 1 .. MaxGames /\ MaxGames \in Nat /\ time \in Int
      /\ UpTo(Pending', g) \subseteq Pending
    BY PendingType, PendingShrinks
<1>2. time1 \in Int
    <2>1. \A h \in Index' : games'[h] \in Game
        BY DEF TypeOK, Index
    <2>q. QED
        BY <2>1 DEF Pending, Game
<1>3. rank \in Nat /\ rank1 \in Nat /\ rank1 <= rank
    BY <1>1, CountShrinks
<1>4. left \in Nat /\ left1 \in Nat
    BY LeftType, NextLeftType
<1>5. need = Budget(X, rank, left) /\ need1 = Budget(X, rank1, left1)
    BY DEF Need
<1>6. one \in {0, 1} /\ one1 \in {0, 1}
    BY DEF One
<1>7. ProveTime \in Nat /\ \A task \in proving : task.age \in 0 .. ProveTime
    BY ActorsAssumption DEF ActorsTypeOK
<1>8. /\ need \in Nat /\ need1 \in Nat
      /\ left1 <= left => need1 <= need
      /\ left1 <= left /\ (rank1 + 1 <= rank \/ left1 + 1 <= left) =>
           need1 + ProveTime + 1 <= need
    <2> HIDE DEF rank, rank1, need, need1, left, left1
    <2>1. need \in Nat /\ need1 \in Nat
        <3>1. rank <= rank /\ left <= left /\ rank1 <= rank1 /\ left1 <= left1
            BY <1>3, <1>4
        <3>q. QED
            BY <1>3, <1>4, <1>5, <3>1, NeedShrinks
    <2>q. QED
        BY <1>3, <1>4, <1>5, <2>1, NeedShrinks
<1>9. need1 <= time1 + one1 => NotLate(X, g)'
    BY DEF NotLate
<1>10. CASE left1 = left - 1 /\ time1 = time
    <2>1. need1 + ProveTime + 1 <= need
        <3> HIDE DEF rank, rank1, need, need1, left, left1
        <3>q. QED
            BY <1>3, <1>4, <1>8, <1>10
    <2>2. ASSUME NEW task \in proving, need <= time + task.age + 1 PROVE need1 <= time1 + one1
        <3> DEFINE age == task.age
        <3>1. age \in Nat /\ age <= ProveTime /\ need <= time + age + 1
            BY <1>7, <2>2
        <3> HIDE DEF need, need1, left, left1, time, time1, one1, age
        <3>q. QED
            BY <1>1, <1>2, <1>6, <1>7, <1>8, <1>10, <2>1, <3>1
    <2>3. ASSUME need <= time + one PROVE need1 <= time1 + one1
        <3> HIDE DEF need, need1, left, left1, time, time1, one, one1
        <3>q. QED
            BY <1>1, <1>2, <1>6, <1>7, <1>8, <1>10, <2>1, <2>3
    <2>q. QED
        BY <1>9, <2>2, <2>3 DEF InHand, NotLate
<1>11. CASE /\ left1 = left /\ time + one <= time1 + one1
            /\ \A task \in proving : task.game \in Pending' =>
                 \E task1 \in proving' :
                   task1.game = task.game /\ time + task.age <= time1 + task1.age
    <2>0. need1 <= need
        <3> HIDE DEF rank, rank1, need, need1, left, left1
        <3>q. QED
            BY <1>3, <1>4, <1>8, <1>11
    <2>1. ASSUME need <= time + one PROVE need1 <= time1 + one1
        <3>1. time + one <= time1 + one1
            BY <1>11
        <3> HIDE DEF need, need1, left, left1, time, time1, one, one1
        <3>q. QED
            BY <1>1, <1>2, <1>6, <1>8, <2>0, <2>1, <3>1
    <2>2. ASSUME NEW task \in proving, task.game \in UpTo(Pending, g), need <= time + task.age + 1
          PROVE  InHand(X, g)' \/ NotLate(X, g)'
        <3> DEFINE age == task.age
        <3>1. age \in Nat /\ age <= ProveTime /\ need <= time + age + 1
            BY <1>7, <2>2
        <3>2. CASE task.game \in Pending'
            <4>1. PICK task1 \in proving' :
                    task1.game = task.game /\ time + task.age <= time1 + task1.age
                BY <1>11, <3>2
            <4> DEFINE age1 == task1.age
            <4>2. age1 \in Int
                BY DEF ActorsTypeOK
            <4>3. need1 <= time1 + age1 + 1
                <5>1. time + age <= time1 + age1
                    BY <4>1
                <5> HIDE DEF need, need1, time, time1, age, age1
                <5>q. QED
                    BY <1>1, <1>2, <1>8, <2>0, <3>1, <4>2, <5>1
            <4>4. task1.game \in UpTo(Pending', g)
                BY <2>2, <3>2, <4>1 DEF UpTo
            <4>q. QED
                BY <4>3, <4>4 DEF InHand
        <3>3. CASE task.game \notin Pending'
            <4>1. rank1 + 1 <= rank
                BY <1>1, <2>2, <3>3, CountDrops
            <4>2. need1 + ProveTime + 1 <= need
                <5> HIDE DEF rank, rank1, need, need1, left, left1
                <5>q. QED
                    BY <1>3, <1>4, <1>8, <1>11, <4>1
            <4>3. need1 <= time1 + one1
                <5>1. time + one <= time1 + one1
                    BY <1>11
                <5> HIDE DEF need, need1, time, time1, one, one1, age
                <5>q. QED
                    BY <1>1, <1>2, <1>6, <1>7, <1>8, <3>1, <4>2, <5>1
            <4>q. QED
                BY <1>9, <4>3
        <3>q. QED
            BY <3>2, <3>3
    <2>q. QED
        BY <1>9, <2>1, <2>2 DEF InHand, NotLate
<1>q. QED
    BY <1>10, <1>11

\* The proposer's turn begins a proof for a claim that waits for one, or for one before it.
LEMMA DefenceBegins ==
    ASSUME GameInv, ActorsTypeOK, Len(games) <= MaxGames, MaxGames <= Window + 1,
           NEW X \in Nat, \A skew \in Skews : skew <= X + ProveTime,
           Defend, NEW g \in Pending, games[g].proposal = "Challenged", NotLate(X, g)
    PROVE  InHand(X, g)'
<1>1. PICK skew \in Skews, head \in Heads :
        LET gs == GamesToActOn("Challenged", {"right"}, skew, head) IN
        proving' = IF gs = {} \/ ProvingGame(Lowest(gs)) THEN proving
                   ELSE proving \cup {[game |-> Lowest(gs), age |-> 0, origin |-> "defence"]}
    BY DEF Defend
<1> DEFINE gs == GamesToActOn("Challenged", {"right"}, skew, head)
           rank == Cardinality(UpTo(Pending, g))
           need == Need(X, g)
           time == games[g].timeLeft
           one == One(at["proposer"] \in {"create", "defend"})
<1>2. /\ Pending \subseteq Index /\ Pending \subseteq 1 .. MaxGames /\ MaxGames \in Nat
      /\ time \in Int /\ TypeOK
    BY PendingType DEF GameInv, Pending
<1>3. ProveTime \in Nat /\ skew \in Int /\ skew <= X + ProveTime
    BY ActorsAssumption
<1>4. 1 <= rank /\ rank \in Nat
    BY <1>2, CountsItself, CountShrinks DEF UpTo
<1>5. need \in Nat /\ X + ProveTime + 1 <= need
    <2>1. need = Budget(X, rank, Left)
        BY DEF Need
    <2> HIDE DEF rank, need
    <2>q. QED
        BY <1>4, <2>1, LeftType, NeedsAProof
<1>6. one \in {0, 1} /\ need <= time + one
    BY DEF One, NotLate
<1>7. skew <= time /\ need <= time + 1
    <2> HIDE DEF need, time, one
    <2>q. QED
        BY <1>2, <1>3, <1>5, <1>6
<1>8. Index = 1 .. Len(games) /\ Len(games) \in Nat /\ OldestIndex = 1
    <2>1. Index = 1 .. Len(games) /\ Len(games) \in Nat /\ Window \in Nat
        BY <1>2, GamesType, ActorsAssumption
    <2>q. QED
        BY <1>2, <2>1 DEF OldestIndex
<1>9. g \in gs
    <2>1. ~DeadlinePassed(g, skew)
        BY <1>2, <1>3, <1>7 DEF DeadlinePassed
    <2>2. \A h \in Compared("Challenged", skew) : h <= g => games[h].block <= head
        BY <1>8 DEF Compared, Pending, Seen, Known
    <2>q. QED
        BY <1>2, <1>8, <2>1, <2>2 DEF GamesToActOn, Compared, Pending
<1>10. gs \subseteq Index
    BY <1>2, LooksAtGames
<1> DEFINE low == Lowest(gs)
<1>11. low \in UpTo(Pending, g)
    <2>1. low \in gs /\ low <= g
        <3> HIDE DEF gs
        <3>1. Index \subseteq Nat
            BY <1>8
        <3>2. gs \subseteq Nat
            BY <1>10, <3>1
        <3>q. QED
            BY <1>9, <3>2, LowestIsLeast
    <2>2. games[low].proposal = "Challenged" /\ games[low].claim = "right"
        BY <2>1 DEF GamesToActOn, Compared
    <2>3. Seen(low)
        <3> HIDE DEF low, gs
        <3>1. low \in Nat /\ g \in Nat /\ Seen(g)
            BY <1>8, <1>10, <2>1 DEF Pending
        <3>q. QED
            BY <2>1, <3>1 DEF Seen
    <2>q. QED
        BY <1>10, <2>1, <2>2, <2>3 DEF UpTo, Pending
<1>12. \E task \in proving' : task.game = low /\ task.age \in Nat
    <2>1. CASE ProvingGame(low)
        <3>1. PICK task \in proving : task.game = low
            BY <2>1 DEF ProvingGame
        <3>2. task.age \in 0 .. ProveTime
            BY DEF ActorsTypeOK
        <3>q. QED
            BY <1>1, <2>1, <3>1, <3>2
    <2>2. CASE ~ProvingGame(low)
        <3>1. gs # {}
            BY <1>9
        <3>2. proving' = proving \cup {[game |-> low, age |-> 0, origin |-> "defence"]}
            BY <1>1, <2>2, <3>1
        <3> DEFINE task == [game |-> low, age |-> 0, origin |-> "defence"]
        <3>3. task \in proving'
            BY <3>2
        <3>4. task.game = low /\ task.age = 0
            OBVIOUS
        <3>q. QED
            <4> HIDE DEF low, task
            <4>1. task \in proving' /\ task.game = low /\ task.age \in Nat
                BY <3>3, <3>4
            <4>q. QED
                BY <4>1
    <2>q. QED
        BY <2>1, <2>2
<1>13. games' = games /\ errors' = errors
    BY DEF Defend, vars
<1>14. UpTo(Pending, g)' = UpTo(Pending, g) /\ Need(X, g)' = need /\ games'[g].timeLeft = time
    BY <1>13 DEF Pending, Seen, UpTo, Index, Need, Left
<1>15. ASSUME NEW age \in Nat PROVE need <= time + age + 1
    <2> HIDE DEF need, time
    <2>q. QED
        BY <1>2, <1>5, <1>7
<1>16. PICK task \in proving' : task.game = low /\ task.age \in Nat
    BY <1>12
<1>17. task.game \in UpTo(Pending, g)' /\ Need(X, g)' <= games'[g].timeLeft + task.age + 1
    BY <1>11, <1>14, <1>15, <1>16
<1>q. QED
    BY <1>17 DEF InHand

\* No step of anybody makes the proposer fall behind.
LEMMA ProposerStep ==
    ASSUME GameInv, GameInv', ActorsTypeOK, ActorsTypeOK', [ActorsNext]_allVars,
           Len(games) <= MaxGames, Len(games') <= MaxGames, MaxGames <= Window + 1,
           AllRunOn \/ (ActorsTick /\ AllAge),
           NEW X \in Nat, \A skew \in Skews : skew <= X + ProveTime,
           X + (ProveTime + 1) * (MaxGames + MaxErrors) <= ProveDuration,
           RightOwned, ProposerKeepsUp(X)
    PROVE  ProposerKeepsUp(X)'
<1> SUFFICES ASSUME NEW g \in Pending', games'[g].proposal = "Challenged"
             PROVE  InHand(X, g)' \/ NotLate(X, g)'
    BY DEF ProposerKeepsUp
<1>0. TypeOK /\ TypeOK' /\ g \in Index'
    BY DEF GameInv, Pending
<1>1. g \in Index
    BY <1>0 DEF AllRunOn, AllAge, Opened
<1>2. g \in Pending
    <2>1. UpTo(Pending', g) \subseteq Pending /\ g \in Nat
        BY <1>0, <1>1, PendingShrinks, GamesType
    <2>q. QED
        BY <2>1 DEF UpTo
<1>3. CASE games[g].proposal # "Challenged"
    <2>1. games'[g].timeLeft = ProveDuration
        BY <1>1, <1>3 DEF AllRunOn, RunsOn, AllAge, Ages
    <2> DEFINE rank1 == Cardinality(UpTo(Pending', g))
               left1 == Left'
               need1 == Need(X, g)'
               one1 == One(at'["proposer"] \in {"create", "defend"})
    <2>2. rank1 \in Nat /\ rank1 <= MaxGames /\ MaxGames \in Nat
        <3>1. /\ Pending \subseteq 1 .. MaxGames /\ MaxGames \in Nat
              /\ UpTo(Pending', g) \subseteq Pending
            BY <1>0, <1>1, PendingType, PendingShrinks
        <3> DEFINE rank == Cardinality(UpTo(Pending, g))
                   due1 == Pending'
        <3>2. UpTo(due1, g) \subseteq Pending
            BY <3>1
        <3>3. rank1 = Cardinality(UpTo(due1, g))
            OBVIOUS
        <3> HIDE DEF due1, rank1
        <3>4. /\ rank \in Nat /\ Cardinality(UpTo(due1, g)) \in Nat
              /\ Cardinality(UpTo(due1, g)) <= rank /\ rank <= MaxGames
            BY <3>1, <3>2, CountShrinks
        <3> HIDE DEF rank
        <3>q. QED
            BY <3>1, <3>3, <3>4
    <2>3. left1 \in Nat /\ left1 <= MaxErrors /\ MaxErrors \in Nat
        BY NextLeftType, ActorsAssumption
    <2>4. need1 = Budget(X, rank1, left1)
        BY DEF Need
    <2>5. need1 <= Budget(X, MaxGames, MaxErrors) /\ need1 \in Nat
        <3> HIDE DEF rank1, left1, need1
        <3>q. QED
            BY <2>2, <2>3, <2>4, NeedShrinks
    <2>6. Budget(X, MaxGames, MaxErrors) <= ProveDuration /\ ProveDuration \in Nat
        BY GameAssumption DEF Budget
    <2>7. Budget(X, MaxGames, MaxErrors) \in Nat
        BY <2>2, <2>3, NeedShrinks
    <2>8. one1 \in {0, 1}
        BY DEF One
    <2>9. need1 <= games'[g].timeLeft + one1
        <3> HIDE DEF need1, one1
        <3>q. QED
            BY <2>1, <2>5, <2>6, <2>7, <2>8
    <2>q. QED
        BY <2>9 DEF NotLate
<1>4. CASE games[g].proposal = "Challenged"
    <2>0. InHand(X, g) \/ NotLate(X, g)
        BY <1>2, <1>4 DEF ProposerKeepsUp
    <2>1. CASE ActorsTick
        <3>1. AllAge /\ Left' = Left
            BY <2>1, TicksAge DEF ActorsTick, Left
        <3>2. games[g].timeLeft - 1 <= games'[g].timeLeft
            BY <1>1, <3>1 DEF AllAge, Ages
        <3>3. games[g].timeLeft \in Int /\ games'[g].timeLeft \in Int
            <4>1. games[g] \in Game /\ games'[g] \in Game
                BY <1>0, <1>1 DEF TypeOK, Index
            <4>q. QED
                BY <4>1 DEF Game
        <3>4. /\ One(at["proposer"] \in {"create", "defend"}) = 0
              /\ One(at'["proposer"] \in {"create", "defend"}) = 1
            BY <2>1 DEF ActorsTick, One, FirstStep, Programs
        <3>5. ASSUME NEW task \in proving
              PROVE  \E task1 \in proving' :
                       /\ task1.game = task.game
                       /\ games[g].timeLeft + task.age <= games'[g].timeLeft + task1.age
            <4> DEFINE task1 == [task EXCEPT !.age = @ + 1]
            <4>1. task1 \in proving'
                BY <2>1 DEF ActorsTick
            <4>2. task \in [game : Index, age : 0 .. ProveTime, origin : {"creation", "defence"}]
                BY DEF ActorsTypeOK
            <4>3. task1.game = task.game /\ task1.age = task.age + 1 /\ task.age \in Int
                BY <4>2
            <4> HIDE DEF task1
            <4>4. games[g].timeLeft + task.age <= games'[g].timeLeft + task1.age
                <5> DEFINE t == games[g].timeLeft
                           t1 == games'[g].timeLeft
                           a == task.age
                           a1 == task1.age
                <5>1. t - 1 <= t1 /\ t \in Int /\ t1 \in Int /\ a1 = a + 1 /\ a \in Int
                    BY <3>2, <3>3, <4>3
                <5> HIDE DEF t, t1, a, a1
                <5>2. t + a <= t1 + a1
                    BY <5>1
                <5>q. QED
                    BY <5>2 DEF t, t1, a, a1
            <4>q. QED
                BY <4>1, <4>3, <4>4
        <3>6. games[g].timeLeft + 0 <= games'[g].timeLeft + 1
            <4> DEFINE t == games[g].timeLeft
                       t1 == games'[g].timeLeft
            <4> HIDE DEF t, t1
            <4>1. t - 1 <= t1 /\ t \in Int /\ t1 \in Int
                BY <3>2, <3>3 DEF t, t1
            <4>2. t + 0 <= t1 + 1
                BY <4>1
            <4>q. QED
                BY <4>2 DEF t, t1
        <3>q. QED
            BY <1>0, <1>1, <2>0, <3>1, <3>4, <3>5, <3>6, DefenceCarries
    <2>2. CASE ~ActorsTick
        <3>1. AllRunOn
            BY <2>2
        <3>2. games'[g].timeLeft = games[g].timeLeft
            BY <1>1, <1>4, <3>1 DEF AllRunOn, RunsOn
        <3>3. CASE Fail /\ UNCHANGED vars
            <4>1. Left' = Left - 1
                BY <3>3, ActorsAssumption DEF Fail, Left, ActorsTypeOK
            <4>q. QED
                BY <1>0, <1>1, <2>0, <3>1, <3>2, <4>1, DefenceCarries
        <3>4. ASSUME errors' = errors
              PROVE  /\ Left' = Left
                     /\ \A task \in proving : task.game \in Pending' =>
                          \E task1 \in proving' :
                            /\ task1.game = task.game
                            /\ games[g].timeLeft + task.age <= games'[g].timeLeft + task1.age
            <4>1. Left' = Left
                BY <3>4 DEF Left
            <4>2. ASSUME NEW task \in proving, task.game \in Pending'
                  PROVE  task \in proving' /\ games[g].timeLeft + task.age <= games'[g].timeLeft + task.age
                <5>1. task \in proving'
                    BY <2>2, <3>4, <4>2, TasksStay
                <5>2. games[g].timeLeft + task.age \in Int
                    <6>1. games[g] \in Game /\ task.age \in Int
                        BY <1>0, <1>1 DEF TypeOK, Index, ActorsTypeOK
                    <6>q. QED
                        BY <6>1 DEF Game
                <5>q. QED
                    BY <3>2, <5>1, <5>2
            <4>q. QED
                BY <4>1, <4>2
        <3>5. CASE errors' = errors /\ (at["proposer"] \in {"create", "defend"}
                                          => at'["proposer"] \in {"create", "defend"})
            <4>1. games[g].timeLeft + One(at["proposer"] \in {"create", "defend"})
                    <= games'[g].timeLeft + One(at'["proposer"] \in {"create", "defend"})
                <5>1. games[g].timeLeft \in Int
                    <6>1. games[g] \in Game
                        BY <1>0, <1>1 DEF TypeOK, Index
                    <6>q. QED
                        BY <6>1 DEF Game
                <5>q. QED
                    BY <3>2, <3>5, <5>1 DEF One
            <4>q. QED
                BY <1>0, <1>1, <2>0, <3>1, <3>4, <3>5, <4>1, DefenceCarries
        <3>6. CASE errors' = errors /\ Defend
            <4>1. CASE NotLate(X, g)
                BY <1>2, <1>4, <3>6, <4>1, DefenceBegins
            <4>2. CASE InHand(X, g)
                <5>1. UNCHANGED vars /\ proving \subseteq proving' /\ Left' = Left
                    BY <3>6 DEF Defend, Left
                <5>2. UpTo(Pending, g)' = UpTo(Pending, g) /\ Need(X, g)' = Need(X, g)
                      /\ games'[g].timeLeft = games[g].timeLeft
                    BY <5>1 DEF vars, Pending, Seen, UpTo, Index, Need
                <5>q. QED
                    BY <4>2, <5>1, <5>2 DEF InHand
            <4>q. QED
                BY <2>0, <4>1, <4>2
        <3>q. QED
            BY <2>2, <3>3, <3>5, <3>6, TurnsGoOn
    <2>q. QED
        BY <2>1, <2>2
<1>q. QED
    BY <1>3, <1>4

\* Both programs in time: the challenger for the wrong claims, the proposer for its own.
ProgramsInv(S, X) ==
    /\ ChallengerInv(S) /\ ProposerKeepsUp(X)
    /\ ClaimsTrue /\ RightOwned /\ CreationFresh /\ AnchorFresh

\* Both programs are in time before there are games.
LEMMA ProgramsInvBegins ==
    ASSUME NEW S \in Nat, NEW X \in Nat, ActorsInit, GameInv, ActorsTypeOK
    PROVE  ProgramsInv(S, X)
<1>1. /\ Len(games) = 0 /\ Index = {} /\ creation = {} /\ orphaned = {}
      /\ anchor = [root |-> "right", block |-> 0]
    BY DEF ActorsInit, Init, Index
<1>2. ChallengerInv(S)
    BY ChallengerInvBegins
<1>q. QED
    BY <1>1, <1>2 DEF ProgramsInv, ClaimsTrue, RightOwned, CreationFresh, AnchorFresh,
                      ProposerKeepsUp, Pending

\* Both programs stay in time.
LEMMA AlwaysProgramsInv ==
    ASSUME NEW S \in Nat, \A skew \in Skews : skew <= S,
           IsAllowedChallenger(Challenger), MaxGames <= Window + 1,
           S + MaxGames + MaxErrors <= ChallengeDuration,
           OutsiderClaims \subseteq {"wrong"},
           NEW X \in Nat, \A skew \in Skews : skew <= X + ProveTime,
           X + (ProveTime + 1) * (MaxGames + MaxErrors) <= ProveDuration
    PROVE  ActorsSpec => []ProgramsInv(S, X)
<1>1. ActorsInit /\ (GameInv /\ ActorsTypeOK) => ProgramsInv(S, X)
    BY ProgramsInvBegins
<1>2. ASSUME ProgramsInv(S, X), (GameInv /\ ActorsTypeOK)', [ActorsNext]_allVars
      PROVE  ProgramsInv(S, X)'
    <2>1. /\ ChallengerInv(S) /\ ProposerKeepsUp(X)
          /\ ClaimsTrue /\ RightOwned /\ CreationFresh /\ AnchorFresh
          /\ GameInv /\ ActorsTypeOK /\ Len(games) <= MaxGames /\ NoneMissed
          /\ GameInv' /\ ActorsTypeOK'
        BY <1>2 DEF ProgramsInv, ChallengerInv
    <2>2. ChallengerInv(S)' /\ (AllRunOn \/ (ActorsTick /\ AllAge))
        BY <1>2, <2>1, ChallengerInvStep
    <2>3. Len(games') <= MaxGames
        BY <2>2 DEF ChallengerInv
    <2>4. RightOwned'
        BY <1>2, <2>1, <2>2, RightOwnedStep
    <2>5. CreationFresh' /\ AnchorFresh' /\ ClaimsTrue'
        BY <1>2, <2>1, <2>2, CreationFreshStep, AnchorFreshStep, ClaimsTrueStep
    <2>6. ProposerKeepsUp(X)'
        BY <1>2, <2>1, <2>2, <2>3, ProposerStep
    <2>q. QED
        BY <2>2, <2>4, <2>5, <2>6 DEF ProgramsInv
<1>3. ProgramsInv(S, X) /\ (GameInv /\ ActorsTypeOK)' /\ [ActorsNext]_allVars => ProgramsInv(S, X)'
    BY <1>2
<1>q. QED
    BY <1>1, <1>3, AlwaysActorsInv, PTL DEF ActorsSpec

\* If, besides, outsiders make wrong claims only, and the time to prove leaves a proof and the
\* turn that begins it for each game and each failure, then every right claim of the proposer
\* that is challenged is proven before its deadline, and none ever loses, unless a game on a
\* block the L2 node has not got is before it.
THEOREM RightClaimsAreDefended ==
    ASSUME NEW S \in Nat, \A skew \in Skews : skew <= S,
           IsAllowedChallenger(Challenger), MaxGames <= Window + 1,
           S + MaxGames + MaxErrors <= ChallengeDuration,
           OutsiderClaims \subseteq {"wrong"},
           NEW X \in Nat, \A skew \in Skews : skew <= X + ProveTime,
           X + (ProveTime + 1) * (MaxGames + MaxErrors) <= ProveDuration
    PROVE  ActorsSpec => []RightDefended
<1>1. ASSUME ProgramsInv(S, X) PROVE RightDefended
    <2>1. ASSUME NEW g \in Index, games[g].claim = "right", Seen(g)
          PROVE  /\ games[g].status # "CHALLENGER_WINS"
                 /\ ~(games[g].proposal = "Challenged" /\ GameOver(g))
        <3>1. games[g].status # "CHALLENGER_WINS"
            BY <1>1, <2>1 DEF ProgramsInv, RightOwned
        <3>2. ASSUME games[g].proposal = "Challenged" PROVE ~GameOver(g)
            <4>1. g \in Pending
                BY <2>1, <3>2 DEF Pending
            <4>q. QED
                BY <1>1, <4>1, PendingNotOver DEF ProgramsInv, ChallengerInv
        <3>q. QED
            BY <3>1, <3>2
    <2>q. QED
        BY <2>1 DEF RightDefended
<1>2. ProgramsInv(S, X) => RightDefended
    BY <1>1
<1>q. QED
    BY <1>2, AlwaysProgramsInv, PTL

=============================================================================
