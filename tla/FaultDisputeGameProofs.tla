------------------------ MODULE FaultDisputeGameProofs ------------------------
(***************************************************************************)
(* What holds of the dispute games for any number of games, accounts and   *)
(* blocks, any bonds and any durations: their types, that a wrong claim    *)
(* wins only after a slip, that outcomes are justified, and that what the  *)
(* games hold in bonds covers the credits they owe.                        *)
(***************************************************************************)
EXTENDS FaultDisputeGame, NaturalLemmas

\* What the fields of one game say of each other.
Coherent(x) ==
    /\ x.status = "IN_PROGRESS" =>
         /\ x.mode = "UNDECIDED"
         /\ x.counteredBy # Nobody => x.balance >= ChallengerBond
    /\ x.status # "IN_PROGRESS" => x.proposal \notin {"Unchallenged", "Challenged"}
    /\ x.proposal = "Unchallenged" => x.counteredBy = Nobody
    /\ x.proposal \in {"Challenged", "ChallengedAndValidProofProvided"} =>
         x.counteredBy # Nobody
    /\ x.proposal \in {"Unchallenged", "Challenged"} => x.prover = Nobody
    /\ x.proposal \in {"UnchallengedAndValidProofProvided",
                       "ChallengedAndValidProofProvided"} => x.prover # Nobody
    /\ x.status = "IN_PROGRESS" => x.proposal # "Resolved"
    /\ x.prover # Nobody => x.sound
    /\ x.sound /\ x.startRoot # "wrong" => x.claim # "wrong"
    /\ x.status = "DEFENDER_WINS" /\ x.startRoot # "wrong" /\ x.claim = "wrong" =>
         x.counteredBy = Nobody

\* Challenged and out of time to prove.
Defeated(x) == x.counteredBy # Nobody /\ x.prover = Nobody /\ x.timeLeft < 0

\* What a game has to do with its parent and with the anchor state.
Linked(g) ==
    LET x == games[g] IN
    /\ x.parent # 0 => x.startRoot = games[x.parent].claim
    /\ x.parent = 0 /\ x.startRoot = "wrong" => Slip
    /\ x.status = "DEFENDER_WINS" => ParentGameStatus(g) = "DEFENDER_WINS"
    /\ x.status = "DEFENDER_WINS" /\ x.claim = "wrong" => Slip
    /\ x.status = "CHALLENGER_WINS" =>
         ParentGameStatus(g) = "CHALLENGER_WINS" \/ Defeated(x)

GameInv ==
    /\ TypeOK
    /\ \A g \in Index : Coherent(games[g]) /\ Linked(g)
    /\ anchor.root = "wrong" => Slip

\* How one step may change a game: what it was opened with stays, and so does an
\* outcome, who challenged the game it is about, and a defeat.
Follows(x, y) ==
    /\ y.parent = x.parent /\ y.creator = x.creator
    /\ y.startRoot = x.startRoot /\ y.claim = x.claim
    /\ x.status # "IN_PROGRESS" =>
         /\ y.status = x.status
         /\ y.counteredBy = x.counteredBy
         /\ Defeated(x) => Defeated(y)

\* When game g, which becomes y, may get an outcome.
Justified(g, y) ==
    \/ y.status = "CHALLENGER_WINS" /\ ParentGameStatus(g) = "CHALLENGER_WINS"
    \/ /\ ParentGameStatus(g) = "DEFENDER_WINS"
       /\ \/ y.status = "DEFENDER_WINS"
          \/ y.status = "CHALLENGER_WINS" /\ Defeated(y)

\* What game g may become.
MayBecome(g, y) ==
    /\ y \in Game /\ Coherent(y) /\ Follows(games[g], y)
    /\ games[g].status = "IN_PROGRESS" /\ y.status # "IN_PROGRESS" => Justified(g, y)

\* A step that opens no game.
Course ==
    /\ games' \in Seq(Game) /\ DOMAIN games' = Index
    /\ \A g \in Index : MayBecome(g, games'[g])

-----------------------------------------------------------------------------
\* Games are records of the list.
LEMMA GamesType ==
    ASSUME TypeOK
    PROVE  /\ Len(games) \in Nat /\ Index = 1 .. Len(games)
           /\ \A g \in Index : games[g] \in Game /\ g \in Nat \ {0}
                               /\ games[g].parent \in Nat /\ games[g].parent < g
<1>1. Len(games) \in Nat /\ Index = 1 .. Len(games)
  BY DEF TypeOK, Index
<1>2. \A g \in Index : games[g] \in Game
  BY DEF TypeOK, Index
<1>3. \A g \in Index : games[g].parent \in Nat
  BY <1>2 DEF Game
<1> QED
  BY <1>1, <1>2, <1>3 DEF TypeOK

\* The parent of a game is 0 or an earlier game.
LEMMA ParentInIndex ==
    ASSUME TypeOK, NEW g \in Index, games[g].parent # 0
    PROVE  games[g].parent \in Index
  BY GamesType

\* A game that stays as it is.
LEMMA StaysSame ==
    ASSUME GameInv, NEW g \in Index
    PROVE  MayBecome(g, games[g])
  BY GamesType DEF GameInv, MayBecome, Follows

\* Updating one game by something it may become leaves a step on course.
LEMMA UpdateOnCourse ==
    ASSUME GameInv, NEW g \in Index, NEW y, MayBecome(g, y), Update(g, y)
    PROVE  Course
<1>1. games \in Seq(Game) /\ y \in Game /\ games' = [games EXCEPT ![g] = y]
  BY DEF GameInv, TypeOK, MayBecome, Update
<1>2. games' \in Seq(Game) /\ DOMAIN games' = Index
  BY <1>1 DEF Index
<1>3. \A h \in Index : games'[h] = IF h = g THEN y ELSE games[h]
  BY <1>1 DEF Index
<1> QED
  BY <1>2, <1>3, StaysSame DEF Course

\* A slip is never undone.
LEMMA SlipStays ==
    ASSUME GameInv, Course, Slip
    PROVE  Slip'
<1>1. PICK g \in Index :
        /\ games[g].startRoot # "wrong" /\ games[g].claim = "wrong"
        /\ games[g].counteredBy = Nobody /\ games[g].status = "DEFENDER_WINS"
  BY DEF Slip
<1>2. MayBecome(g, games'[g]) /\ g \in Index'
  BY DEF Course, Index
<1> QED
  BY <1>1, <1>2 DEF MayBecome, Follows, Slip

\* The outcome of a parent is never undone.
LEMMA ParentStays ==
    ASSUME GameInv, Course, NEW g \in Index, ParentGameStatus(g) # "IN_PROGRESS"
    PROVE  ParentGameStatus(g)' = ParentGameStatus(g)
<1>1. games'[g].parent = games[g].parent
  BY DEF Course, MayBecome, Follows
<1>2. CASE games[g].parent = 0
  BY <1>1, <1>2 DEF ParentGameStatus
<1>3. CASE games[g].parent # 0
  <2>1. games[g].parent \in Index
    BY <1>3, ParentInIndex DEF GameInv
  <2> QED
    BY <1>1, <1>3, <2>1 DEF Course, MayBecome, Follows, ParentGameStatus
<1> QED
  BY <1>2, <1>3

\* A wrong claim wins in this step only after a slip or as one.
LEMMA WinsBySlip ==
    ASSUME GameInv, Course, NEW g \in Index,
           games'[g].status = "DEFENDER_WINS", games'[g].claim = "wrong"
    PROVE  Slip'
<1>1. MayBecome(g, games'[g]) /\ g \in Index' /\ Coherent(games[g]) /\ Linked(g)
  BY DEF Course, Index, GameInv
<1>2. CASE games[g].status = "DEFENDER_WINS"
  BY <1>1, <1>2, SlipStays DEF MayBecome, Follows, Linked
<1>3. CASE games[g].status # "DEFENDER_WINS"
  <2>1. games[g].status = "IN_PROGRESS"
    BY <1>1, <1>3, GamesType DEF MayBecome, Follows, GameInv, Game, GameStatus
  <2>2. ParentGameStatus(g) = "DEFENDER_WINS"
    BY <1>1, <2>1 DEF MayBecome, Justified
  <2>3. CASE games[g].startRoot # "wrong"
    BY <1>1, <2>3 DEF MayBecome, Follows, Coherent, Slip
  <2>4. CASE games[g].startRoot = "wrong"
    <3>1. CASE games[g].parent = 0
      BY <1>1, <2>4, <3>1, SlipStays DEF Linked
    <3>2. CASE games[g].parent # 0
      <4>1. games[g].parent \in Index
        BY <3>2, ParentInIndex DEF GameInv
      <4>2. games[games[g].parent].claim = "wrong"
        BY <1>1, <2>4, <3>2 DEF Linked
      <4>3. games[games[g].parent].status = "DEFENDER_WINS"
        BY <2>2, <3>2 DEF ParentGameStatus
      <4> QED
        BY <4>1, <4>2, <4>3, SlipStays DEF GameInv, Linked
    <3> QED
      BY <3>1, <3>2
  <2> QED
    BY <2>3, <2>4
<1> QED
  BY <1>2, <1>3

-----------------------------------------------------------------------------
\* What each operation on one game makes of it.

\* challenge.
LEMMA ChallengeCourse ==
    ASSUME GameInv, NEW g \in Index, NEW a \in Accounts, Challenge(g, a)
    PROVE  Course
<1> DEFINE x == games[g]
           deposits == [x.refundModeCredit EXCEPT ![a] = @ + ChallengerBond]
           y == [x EXCEPT !.counteredBy = a, !.proposal = "Challenged",
                          !.timeLeft = ProveDuration, !.refundModeCredit = deposits,
                          !.balance = @ + ChallengerBond]
<1>1. x \in Game /\ Coherent(x)
  BY GamesType DEF GameInv
<1>2. x.proposal = "Unchallenged" /\ x.prover = Nobody /\ Update(g, y)
  BY DEF Challenge, GameOver
<1>3. a \in Holders /\ a # Nobody /\ ChallengerBond \in Nat /\ ProveDuration \in Int
  BY GameAssumption DEF Holders
<1>4. deposits \in [Holders -> Nat]
  <2>1. x.refundModeCredit \in [Holders -> Nat]
    BY <1>1 DEF Game
  <2> QED
    BY <1>3, <2>1
<1>5. y \in Game
  <2>1. x.balance + ChallengerBond \in Nat
    BY <1>1, <1>3 DEF Game
  <2>2. PICK bal \in Nat : bal = x.balance + ChallengerBond
    BY <2>1
  <2>3. y = [x EXCEPT !.counteredBy = a, !.proposal = "Challenged",
                      !.timeLeft = ProveDuration, !.refundModeCredit = deposits,
                      !.balance = bal]
    BY <2>2
  <2> HIDE DEF x, y, deposits
  <2> QED
    BY <1>1, <1>3, <1>4, <2>3 DEF Game, ProposalStatus
<1>6. x.status = "IN_PROGRESS"
  BY <1>1, <1>2 DEF Coherent
<1>7. Coherent(y) /\ Follows(x, y) /\ y.status = "IN_PROGRESS"
  BY <1>1, <1>2, <1>3, <1>6 DEF Coherent, Follows, Game
<1> QED
  BY <1>2, <1>5, <1>7, UpdateOnCourse DEF MayBecome

\* prove.
LEMMA ProveCourse ==
    ASSUME GameInv, NEW g \in Index, NEW a \in Accounts, Prove(g, a)
    PROVE  Course
<1> DEFINE x == games[g]
           y == [x EXCEPT !.prover = a,
                          !.proposal = IF x.counteredBy = Nobody
                                       THEN "UnchallengedAndValidProofProvided"
                                       ELSE "ChallengedAndValidProofProvided"]
<1>1. x \in Game /\ Coherent(x)
  BY GamesType DEF GameInv
<1>2. x.sound /\ x.prover = Nobody /\ ~(x.timeLeft < 0) /\ Update(g, y)
  BY DEF Prove, GameOver
<1>3. a \in Holders /\ a # Nobody
  BY GameAssumption DEF Holders
<1>4. y \in Game
  BY <1>1, <1>3 DEF Game, ProposalStatus
<1>5. Coherent(y) /\ Follows(x, y) /\ y.status = x.status
  BY <1>1, <1>2, <1>3 DEF Coherent, Follows, Defeated, Game
<1> QED
  BY <1>2, <1>4, <1>5, UpdateOnCourse DEF MayBecome

\* The rewards are credits: what the creator is left with is not negative.
LEMMA RewardsType ==
    ASSUME NEW x \in Game, Coherent(x), x.status = "IN_PROGRESS", NEW winner
    PROVE  Rewards(x, winner) \in [Holders -> Nat]
<1>1. /\ x.normalModeCredit \in [Holders -> Nat] /\ x.balance \in Nat
      /\ x.counteredBy \in Holders /\ x.creator \in Holders /\ x.prover \in Holders
  BY DEF Game, Holders
<1>2. \A h \in Holders : Award(x, h) \in [Holders -> Nat]
  BY <1>1 DEF Award
<1>3. CASE x.proposal = "ChallengedAndValidProofProvided"
  <2>1. ChallengerBond \in Nat /\ x.balance - ChallengerBond \in Nat
    BY <1>1, <1>3, GameAssumption DEF Coherent
  <2>2. [x.normalModeCredit EXCEPT ![x.prover] = ChallengerBond,
                                   ![x.creator] = x.balance - ChallengerBond]
          \in [Holders -> Nat]
    BY <1>1, <2>1
  <2> QED
    BY <1>1, <1>2, <2>2 DEF Rewards
<1>4. CASE x.proposal # "ChallengedAndValidProofProvided"
  BY <1>1, <1>2, <1>4 DEF Rewards
<1> QED
  BY <1>3, <1>4

\* resolve.
LEMMA ResolveCourse ==
    ASSUME GameInv, NEW g \in Index, Resolve(g)
    PROVE  Course
<1> DEFINE x == games[g]
<1>1. x \in Game /\ Coherent(x) /\ x.status = "IN_PROGRESS"
  BY GamesType DEF GameInv, Resolve
<1>2. ASSUME NEW winner \in {"CHALLENGER_WINS", "DEFENDER_WINS"},
             winner = "DEFENDER_WINS" /\ x.startRoot # "wrong" /\ x.claim = "wrong" =>
               x.counteredBy = Nobody,
             Justified(g, Resolved(x, winner))
      PROVE  MayBecome(g, Resolved(x, winner))
  <2> DEFINE y == Resolved(x, winner)
  <2>1. Rewards(x, winner) \in [Holders -> Nat]
    BY <1>1, RewardsType
  <2>2. y = [x EXCEPT !.status = winner, !.proposal = "Resolved",
                      !.normalModeCredit = Rewards(x, winner), !.sinceResolved = 0]
    BY DEF Resolved
  <2>3. y \in Game
    <3> HIDE DEF y
    <3> QED
      BY <1>1, <2>1, <2>2 DEF Game, GameStatus, ProposalStatus
  <2>4. /\ y.status = winner /\ y.proposal = "Resolved"
        /\ y.counteredBy = x.counteredBy /\ y.prover = x.prover /\ y.sound = x.sound
        /\ y.startRoot = x.startRoot /\ y.claim = x.claim /\ y.parent = x.parent
        /\ y.creator = x.creator
    BY <1>1, <2>2 DEF Game
  <2>5. Coherent(y)
    <3> HIDE DEF y
    <3> QED
      BY <1>1, <1>2, <2>4 DEF Coherent
  <2>6. Follows(x, y)
    <3> HIDE DEF y
    <3> QED
      BY <1>1, <2>4 DEF Follows
  <2> QED
    BY <1>2, <2>3, <2>5, <2>6 DEF MayBecome
<1>3. CASE ParentGameStatus(g) = "CHALLENGER_WINS"
  <2>1. Resolved(x, "CHALLENGER_WINS").status = "CHALLENGER_WINS"
    BY <1>1 DEF Resolved, Game
  <2>2. MayBecome(g, Resolved(x, "CHALLENGER_WINS"))
    BY <1>2, <1>3, <2>1 DEF Justified
  <2> QED
    BY <1>3, <2>2, UpdateOnCourse DEF Resolve
<1>4. CASE ParentGameStatus(g) = "DEFENDER_WINS"
  <2>1. GameOver(g) /\ Update(g, Resolved(x, Winner(x)))
    BY <1>4 DEF Resolve
  <2>2. /\ Resolved(x, Winner(x)).status = Winner(x)
        /\ Resolved(x, Winner(x)).counteredBy = x.counteredBy
        /\ Resolved(x, Winner(x)).prover = x.prover
        /\ Resolved(x, Winner(x)).timeLeft = x.timeLeft
    BY <1>1 DEF Resolved, Game
  <2>3. CASE x.proposal = "Challenged"
    <3>1. Winner(x) = "CHALLENGER_WINS" /\ Defeated(x)
      BY <1>1, <2>1, <2>3 DEF Winner, Defeated, GameOver, Coherent
    <3> QED
      BY <1>2, <1>4, <2>1, <2>2, <3>1, UpdateOnCourse DEF Justified, Defeated
  <2>4. CASE x.proposal # "Challenged"
    <3>1. Winner(x) = "DEFENDER_WINS"
      BY <2>4 DEF Winner
    <3>2. x.startRoot # "wrong" /\ x.claim = "wrong" => x.counteredBy = Nobody
      BY <1>1, <2>4 DEF Coherent, Game, ProposalStatus
    <3> QED
      BY <1>2, <1>4, <2>1, <2>2, <3>1, <3>2, UpdateOnCourse DEF Justified
  <2> QED
    BY <2>3, <2>4
<1> QED
  BY <1>3, <1>4 DEF Resolve

\* closeGame: it may move the anchor state to the claim of a game that has won.
LEMMA CloseMovesAnchor ==
    ASSUME GameInv, NEW g \in Index, Close(g) \/ UNCHANGED anchor
    PROVE  anchor' \in [root : Root, block : Nat] /\ (anchor'.root = "wrong" => Slip)
<1>1. games[g] \in Game /\ Linked(g) /\ anchor \in [root : Root, block : Nat]
  BY GamesType DEF GameInv, TypeOK
<1>2. CASE UNCHANGED anchor
  BY <1>1, <1>2 DEF GameInv
<1>3. CASE Close(g) /\ CanAnchor(g)
  <2>1. anchor' = [root |-> games[g].claim, block |-> games[g].block]
    BY <1>3 DEF Close
  <2>2. games[g].status = "DEFENDER_WINS"
    BY <1>3 DEF CanAnchor
  <2>3. games[g].claim \in Root /\ games[g].block \in Nat
    BY <1>1 DEF Game
  <2> QED
    BY <1>1, <2>1, <2>2, <2>3 DEF Linked
<1>4. CASE Close(g) /\ ~CanAnchor(g)
  BY <1>1, <1>4 DEF Close, GameInv
<1> QED
  BY <1>2, <1>3, <1>4

\* Only games that have an outcome are closed.
LEMMA ClosedHasOutcome ==
    ASSUME GameInv, NEW g \in Index,
           IF games[g].mode = "UNDECIDED" THEN Close(g) ELSE UNCHANGED anchor
    PROVE  games[g].status # "IN_PROGRESS"
  BY DEF GameInv, Coherent, Close, IsGameFinalized

\* closeGame, the game itself.
LEMMA CloseCourse ==
    ASSUME GameInv, NEW g \in Index, CloseGame(g)
    PROVE  Course
<1> DEFINE x == games[g]
           y == [x EXCEPT !.mode = ModeOf(g)]
<1>1. x \in Game /\ Coherent(x) /\ x.status # "IN_PROGRESS" /\ Update(g, y)
  BY GamesType DEF GameInv, CloseGame, Close, IsGameFinalized
<1>2. ModeOf(g) \in {"UNDECIDED", "NORMAL", "REFUND"}
  BY <1>1 DEF ModeOf, Game
<1>3. y \in Game
  BY <1>1, <1>2 DEF Game
<1>4. Coherent(y) /\ Follows(x, y) /\ y.status = x.status
  BY <1>1 DEF Coherent, Follows, Defeated, Game
<1> QED
  BY <1>1, <1>3, <1>4, UpdateOnCourse DEF MayBecome

\* claimCredit, the game itself.
LEMMA ClaimCourse ==
    ASSUME GameInv, NEW g \in Index, NEW h \in Holders, ClaimCredit(g, h)
    PROVE  Course
<1> DEFINE x == games[g]
           credit == Credit(x, ModeOf(g), h)
           refunds == [x.refundModeCredit EXCEPT ![h] = 0]
           normals == [x.normalModeCredit EXCEPT ![h] = 0]
           rest == x.balance - credit
           y == [x EXCEPT !.mode = ModeOf(g), !.balance = rest,
                          !.refundModeCredit = refunds, !.normalModeCredit = normals]
<1>1. x \in Game /\ Coherent(x) /\ x.status # "IN_PROGRESS"
  BY GamesType, ClosedHasOutcome DEF GameInv, ClaimCredit
<1>2. credit <= x.balance /\ Update(g, y)
  BY DEF ClaimCredit
<1>3. /\ x.refundModeCredit \in [Holders -> Nat] /\ x.normalModeCredit \in [Holders -> Nat]
      /\ x.balance \in Nat
  BY <1>1 DEF Game
<1>4. refunds \in [Holders -> Nat] /\ normals \in [Holders -> Nat] /\ rest \in Nat
  BY <1>2, <1>3 DEF Credit
<1>5. ModeOf(g) \in {"UNDECIDED", "NORMAL", "REFUND"}
  BY <1>1 DEF ModeOf, Game
<1>6. y \in Game
  <2> HIDE DEF x, refunds, normals, rest
  <2> QED
    BY <1>1, <1>4, <1>5 DEF Game
<1>7. /\ y.parent = x.parent /\ y.creator = x.creator /\ y.startRoot = x.startRoot
      /\ y.claim = x.claim /\ y.status = x.status /\ y.counteredBy = x.counteredBy
      /\ y.prover = x.prover /\ y.proposal = x.proposal /\ y.timeLeft = x.timeLeft
      /\ y.sound = x.sound
  <2> HIDE DEF x, refunds, normals, rest
  <2> QED
    BY <1>1 DEF Game
<1>8. Coherent(y) /\ Follows(x, y)
  <2> HIDE DEF x, y
  <2> QED
    BY <1>1, <1>7 DEF Coherent, Follows, Defeated
<1> QED
  BY <1>1, <1>2, <1>6, <1>7, <1>8, UpdateOnCourse DEF MayBecome

\* Time passes for every game at once.
LEMMA TickCourse ==
    ASSUME GameInv, Tick
    PROVE  Course /\ sinceLast' \in Nat
<1> DEFINE left(x) == IF x.timeLeft < -MaxOverdue THEN x.timeLeft ELSE x.timeLeft - 1
           since(x) == IF x.status = "IN_PROGRESS" THEN 0
                       ELSE AtMost(x.sinceResolved + 1, FinalityDelay + 1)
           older(x) == [x EXCEPT !.timeLeft = left(x), !.sinceResolved = since(x)]
<1>1. games' = [g \in Index |-> older(games[g])]
  BY DEF Tick
<1>2. \A n \in Nat, m \in Nat : AtMost(n + 1, m + 1) \in Nat
  BY DEF AtMost
<1>3. ASSUME NEW g \in Index PROVE MayBecome(g, older(games[g]))
  <2> DEFINE x == games[g]
             l == left(x)
             s == since(x)
             y == [x EXCEPT !.timeLeft = l, !.sinceResolved = s]
  <2>1. x \in Game /\ Coherent(x)
    BY GamesType DEF GameInv
  <2>2. x.timeLeft \in Int /\ x.sinceResolved \in Nat
    BY <2>1 DEF Game
  <2>3. l \in Int /\ s \in Nat /\ (x.timeLeft < 0 => l < 0)
    BY <1>2, <2>2, GameAssumption
  <2>4. y \in Game
    <3> HIDE DEF x, l, s
    <3> QED
      BY <2>1, <2>3 DEF Game
  <2>5. /\ y.parent = x.parent /\ y.creator = x.creator /\ y.startRoot = x.startRoot
        /\ y.claim = x.claim /\ y.status = x.status /\ y.counteredBy = x.counteredBy
        /\ y.prover = x.prover /\ y.proposal = x.proposal /\ y.timeLeft = l
        /\ y.sound = x.sound /\ y.mode = x.mode /\ y.balance = x.balance
    <3> HIDE DEF x, l, s
    <3> QED
      BY <2>1 DEF Game
  <2>6. Coherent(y) /\ Follows(x, y)
    <3> HIDE DEF x, y, l, s
    <3> QED
      BY <2>1, <2>3, <2>5 DEF Coherent, Follows, Defeated
  <2>7. MayBecome(g, y)
    <3> HIDE DEF y
    <3> QED
      BY <2>4, <2>5, <2>6 DEF MayBecome
  <2> QED
    BY <2>7
<1>4. DOMAIN games' = Index /\ \A g \in Index : MayBecome(g, games'[g])
  <2> HIDE DEF older
  <2> QED
    BY <1>1, <1>3
<1>5. games' \in Seq(Game)
  <2>1. Len(games) \in Nat /\ Index = 1 .. Len(games)
    BY GamesType DEF GameInv
  <2>2. games' \in [1 .. Len(games) -> Game]
    <3> HIDE DEF older
    <3> QED
      BY <1>1, <1>4, <2>1 DEF MayBecome
  <2> QED
    BY <2>1, <2>2
<1>6. sinceLast' \in Nat
  BY <1>2, GameAssumption DEF Tick, GameInv, TypeOK
<1> QED
  BY <1>4, <1>5, <1>6 DEF Course

-----------------------------------------------------------------------------
\* The invariant.

\* A step that opens no game keeps the invariant.
LEMMA CourseKeepsInv ==
    ASSUME GameInv, Course,
           anchor' \in [root : Root, block : Nat], anchor'.root = "wrong" => Slip,
           disowned' \subseteq Index, sinceLast' \in Nat
    PROVE  GameInv'
<1>1. Index' = Index
  BY DEF Course, Index
<1>2. ASSUME NEW g \in Index
      PROVE  games'[g].parent < g /\ Coherent(games'[g])
  BY <1>2, GamesType DEF Course, MayBecome, Follows, GameInv
<1>3. TypeOK'
  BY <1>1, <1>2 DEF TypeOK, Course
<1>4. ASSUME NEW g \in Index PROVE Linked(g)'
  <2> DEFINE x == games[g]
             y == games'[g]
  <2>1. MayBecome(g, y) /\ Linked(g) /\ x \in Game
    BY GamesType DEF Course, GameInv
  <2>2. y.parent # 0 => y.startRoot = games'[y.parent].claim
    <3>1. SUFFICES ASSUME x.parent # 0 PROVE x.startRoot = games'[x.parent].claim
      BY <2>1 DEF MayBecome, Follows
    <3>2. x.parent \in Index
      BY <3>1, ParentInIndex DEF GameInv
    <3> QED
      BY <2>1, <3>1, <3>2 DEF Linked, Course, MayBecome, Follows
  <2>3. y.parent = 0 /\ y.startRoot = "wrong" => Slip'
    BY <2>1, SlipStays DEF MayBecome, Follows, Linked
  <2>4. y.status = "DEFENDER_WINS" => ParentGameStatus(g)' = "DEFENDER_WINS"
    <3>1. y.status = "DEFENDER_WINS" => ParentGameStatus(g) = "DEFENDER_WINS"
      BY <2>1 DEF MayBecome, Follows, Linked, Justified
    <3> QED
      BY <3>1, ParentStays
  <2>5. y.status = "DEFENDER_WINS" /\ y.claim = "wrong" => Slip'
    BY WinsBySlip
  <2>6. y.status = "CHALLENGER_WINS" =>
          ParentGameStatus(g)' = "CHALLENGER_WINS" \/ Defeated(y)
    <3>1. y.status = "CHALLENGER_WINS" =>
            ParentGameStatus(g) = "CHALLENGER_WINS" \/ Defeated(y)
      BY <2>1 DEF MayBecome, Follows, Linked, Justified
    <3> QED
      BY <3>1, ParentStays
  <2> QED
    BY <2>2, <2>3, <2>4, <2>5, <2>6 DEF Linked
<1> QED
  BY <1>1, <1>2, <1>3, <1>4, SlipStays DEF GameInv

\* A game that is opened keeps the invariant.
LEMMA InitializeKeepsInv ==
    ASSUME GameInv, NEW a \in Accounts, NEW p \in {0} \cup Index, NEW claim \in Root,
           NEW block \in 1 .. MaxBlock, Initialize(a, p, claim, block)
    PROVE  GameInv'
<1>1. Len(games) \in Nat /\ Index = 1 .. Len(games) /\ games \in Seq(Game)
  BY GamesType DEF GameInv, TypeOK
<1>0. PICK n \in Nat : n = Len(games) + 1
  BY <1>1
<1> DEFINE start == StartingOutputRoot(p)
           new == games'[n]
<1>2. start.root \in Root /\ start.block \in Nat
  <2>1. CASE p = 0
    BY <2>1 DEF StartingOutputRoot, GameInv, TypeOK
  <2>2. CASE p \in Index
    <3>1. games[p].claim \in Root /\ games[p].block \in Nat /\ p # 0
      BY <2>2, GamesType DEF GameInv, Game
    <3> QED
      BY <3>1 DEF StartingOutputRoot
  <2> QED
    BY <2>1, <2>2
<1>3. PICK sound \in Provable(start.root, claim), respected \in BOOLEAN :
        games' = Append(games,
          [parent |-> p, creator |-> a, startRoot |-> start.root, startBlock |-> start.block,
           claim |-> claim, block |-> block, sound |-> sound,
           counteredBy |-> Nobody, prover |-> Nobody, proposal |-> "Unchallenged",
           timeLeft |-> ChallengeDuration, status |-> "IN_PROGRESS", sinceResolved |-> 0,
           normalModeCredit |-> [h \in Holders |-> 0],
           refundModeCredit |-> [h \in Holders |-> IF h = a THEN InitBond ELSE 0],
           balance |-> InitBond, mode |-> "UNDECIDED", wasRespected |-> respected])
  BY DEF Initialize
<1>4. /\ new = [parent |-> p, creator |-> a, startRoot |-> start.root,
                startBlock |-> start.block,
                claim |-> claim, block |-> block, sound |-> sound,
                counteredBy |-> Nobody, prover |-> Nobody, proposal |-> "Unchallenged",
                timeLeft |-> ChallengeDuration, status |-> "IN_PROGRESS",
                sinceResolved |-> 0,
                normalModeCredit |-> [h \in Holders |-> 0],
                refundModeCredit |-> [h \in Holders |-> IF h = a THEN InitBond ELSE 0],
                balance |-> InitBond, mode |-> "UNDECIDED", wasRespected |-> respected]
      /\ Index' = 1 .. n
      /\ \A g \in Index : games'[g] = games[g]
  BY <1>1, <1>0, <1>3 DEF Index
<1>5. sound \in BOOLEAN /\ (sound /\ start.root # "wrong" => claim # "wrong")
  BY <1>3 DEF Provable
<1>6. new \in Game
  <2>1. p \in Nat /\ block \in Nat /\ ChallengeDuration \in Int /\ InitBond \in Nat
    BY <1>1, GameAssumption
  <2>2. [h \in Holders |-> 0] \in [Holders -> Nat]
        /\ [h \in Holders |-> IF h = a THEN InitBond ELSE 0] \in [Holders -> Nat]
    BY <2>1
  <2> QED
    BY <1>2, <1>4, <1>5, <2>1, <2>2 DEF Game, Holders, ProposalStatus, GameStatus
<1>7. Coherent(new)
  <2> HIDE DEF new, start
  <2> QED
    BY <1>4, <1>5 DEF Coherent
<1>8. games' \in Seq(Game) /\ Index' = Index \cup {n} /\ n \notin Index
  BY <1>1, <1>0, <1>3, <1>4, <1>6
<1>9. new.parent = p /\ new.startRoot = start.root /\ new.status = "IN_PROGRESS" /\ p < n
  BY <1>1, <1>0, <1>4
<1>10. TypeOK'
  <2>1. disowned' \subseteq Index' /\ anchor' \in [root : Root, block : Nat]
        /\ sinceLast' \in Nat
    BY <1>8 DEF Initialize, GameInv, TypeOK
  <2>2. \A g \in Index' : games'[g].parent < g
    BY <1>4, <1>8, <1>9 DEF GameInv, TypeOK
  <2> QED
    BY <1>8, <2>1, <2>2 DEF TypeOK
<1>11. Slip => Slip'
  BY <1>4, <1>8 DEF Slip
<1>12. ASSUME NEW g \in Index PROVE Linked(g)'
  <2>1. games'[g] = games[g] /\ Linked(g)
    BY <1>4 DEF GameInv
  <2>2. games[g].parent # 0 => games[g].parent \in Index
    BY ParentInIndex DEF GameInv
  <2>3. games[g].parent # 0 => games'[games[g].parent] = games[games[g].parent]
    BY <1>4, <2>2
  <2>4. ParentGameStatus(g)' = ParentGameStatus(g)
    BY <2>1, <2>3 DEF ParentGameStatus
  <2> QED
    BY <1>11, <2>1, <2>3, <2>4 DEF Linked
<1>13. Linked(n)'
  <2>1. p # 0 => start.root = games'[p].claim
    BY <1>4 DEF StartingOutputRoot
  <2>2. p = 0 /\ start.root = "wrong" => Slip'
    BY <1>11 DEF StartingOutputRoot, GameInv
  <2> HIDE DEF start
  <2> QED
    BY <1>9, <2>1, <2>2 DEF Linked
<1>14. anchor'.root = "wrong" => Slip'
  BY <1>11 DEF Initialize, GameInv
<1> QED
  BY <1>4, <1>7, <1>8, <1>10, <1>12, <1>13, <1>14 DEF GameInv

\* Every step keeps the invariant.
LEMMA GameStep == GameInv /\ [Next]_vars => GameInv'
<1> SUFFICES ASSUME GameInv, [Next]_vars PROVE GameInv'
  OBVIOUS
<1>1. /\ anchor \in [root : Root, block : Nat] /\ (anchor.root = "wrong" => Slip)
      /\ disowned \subseteq Index /\ sinceLast \in Nat
  BY DEF GameInv, TypeOK
<1>2. CASE \E a \in Accounts, p \in {0} \cup Index, claim \in Root, block \in 1 .. MaxBlock :
             Initialize(a, p, claim, block)
  BY <1>2, InitializeKeepsInv
<1>3. ASSUME NEW g \in Index, NEW a \in Accounts, Challenge(g, a) \/ Prove(g, a)
      PROVE  GameInv'
  <2>1. Course
    BY <1>3, ChallengeCourse, ProveCourse
  <2> QED
    BY <1>1, <1>3, <2>1, CourseKeepsInv DEF Challenge, Prove
<1>4. ASSUME NEW g \in Index, Resolve(g) PROVE GameInv'
  <2>1. Course
    BY <1>4, ResolveCourse
  <2> QED
    BY <1>1, <1>4, <2>1, CourseKeepsInv DEF Resolve
<1>5. ASSUME NEW g \in Index, CloseGame(g) PROVE GameInv'
  <2>1. Course /\ Close(g) /\ UNCHANGED <<disowned, sinceLast>>
    BY <1>5, CloseCourse DEF CloseGame
  <2> QED
    BY <1>1, <2>1, CloseMovesAnchor, CourseKeepsInv
<1>6. ASSUME NEW g \in Index, NEW h \in Holders, ClaimCredit(g, h) PROVE GameInv'
  <2>1. /\ Course /\ UNCHANGED <<disowned, sinceLast>>
        /\ Close(g) \/ UNCHANGED anchor
    BY <1>6, ClaimCourse DEF ClaimCredit
  <2> QED
    BY <1>1, <2>1, CloseMovesAnchor, CourseKeepsInv
<1>7. ASSUME UNCHANGED games PROVE Course
  BY <1>7, StaysSame DEF Course, GameInv, TypeOK, Index
<1>8. ASSUME NEW g \in Index, Disown(g) PROVE GameInv'
  BY <1>1, <1>7, <1>8, CourseKeepsInv DEF Disown
<1>9. CASE Tick
  <2>1. Course /\ sinceLast' \in Nat /\ UNCHANGED <<anchor, disowned>>
    BY <1>9, TickCourse DEF Tick
  <2> QED
    BY <1>1, <2>1, CourseKeepsInv
<1>10. CASE UNCHANGED vars
  BY <1>1, <1>7, <1>10, CourseKeepsInv DEF vars
<1> QED
  BY <1>2, <1>3, <1>4, <1>5, <1>6, <1>8, <1>9, <1>10 DEF Next

\* The invariant holds when no game is open.
LEMMA InitGameInv == Init => GameInv
<1> SUFFICES ASSUME Init PROVE GameInv
  OBVIOUS
<1>1. games \in Seq(Game) /\ Index = {} /\ disowned = {} /\ sinceLast = 0
  BY DEF Init, Index
<1>2. anchor \in [root : Root, block : Nat] /\ anchor.root # "wrong"
  BY DEF Init, Root
<1>3. TypeOK
  BY <1>1, <1>2 DEF TypeOK
<1> QED
  BY <1>1, <1>2, <1>3 DEF GameInv

\* The invariant holds of every behaviour.
LEMMA AlwaysGameInv == Spec => []GameInv
<1>1. Init => GameInv
  BY InitGameInv
<1>2. GameInv /\ [Next]_vars => GameInv'
  BY GameStep
<1> QED
  BY <1>1, <1>2, PTL DEF Spec

\* Games keep their types: no credit is negative, no contract pays more than it holds and
\* every parent is an earlier game.
THEOREM TypeCorrect == Spec => []TypeOK
<1>1. GameInv => TypeOK
  BY DEF GameInv
<1> QED
  BY <1>1, AlwaysGameInv, PTL

\* Whatever is proposed, challenged, proven, disowned or built upon, a claim off the chain
\* wins or becomes the anchor state only after one on a root of the chain went unchallenged.
THEOREM WrongWinsAfterSlip == Spec => []WrongNeedsSlip
<1>1. GameInv => WrongNeedsSlip
  BY DEF GameInv, Linked, WrongNeedsSlip
<1> QED
  BY <1>1, AlwaysGameInv, PTL

\* A game wins only under a parent that has won, and loses only under one that has lost or
\* because it was challenged and not proven.
THEOREM OutcomesAreJustified == Spec => []OutcomesJustified
<1>1. GameInv => OutcomesJustified
  BY DEF GameInv, Linked, Defeated, OutcomesJustified
<1> QED
  BY <1>1, AlwaysGameInv, PTL

-----------------------------------------------------------------------------
\* Sums of the values of a function, as the community modules define them.

\* The element SumFunction takes from a set next.
Pick(s) == CHOOSE x \in s : TRUE

\* g adds up the values of f over the subsets of S, as SumFunction does.
Adds(g, f, S) ==
    g = [s \in SUBSET S |-> IF s = {} THEN 0 ELSE f[Pick(s)] + g[s \ {Pick(s)}]]

\* SumFunction is what such a function has for the whole domain.
LEMMA SumIsLast ==
    ASSUME NEW f
    PROVE  SumFunction(f) = (CHOOSE g : Adds(g, f, DOMAIN f))[DOMAIN f]
  BY DEF SumFunction, SumFunctionOnSet, FoldFunctionOnSet, MapThenFoldSet, Adds, Pick

\* What is left of a finite set without the element picked.
LEMMA PickShrinks ==
    ASSUME NEW S, IsFiniteSet(S), NEW s \in SUBSET S, s # {}
    PROVE  /\ Pick(s) \in s /\ s \ {Pick(s)} \in SUBSET S
           /\ Cardinality(s) \in Nat /\ Cardinality(s) # 0
           /\ Cardinality(s \ {Pick(s)}) = Cardinality(s) - 1
<1>1. Pick(s) \in s
  BY DEF Pick
<1>2. IsFiniteSet(s)
  BY FS_Subset
<1>3. Cardinality(s) \in Nat /\ Cardinality(s) # 0
  BY <1>2, FS_CardinalityType, FS_EmptySet
<1> QED
  BY <1>1, <1>2, <1>3, FS_RemoveElement

\* Over a finite set there is such a function: it is built up by the size of the subsets.
LEMMA SumsExist ==
    ASSUME NEW S, IsFiniteSet(S), NEW f
    PROVE  \E g : Adds(g, f, S)
<1> DEFINE Small(n) == {s \in SUBSET S : Cardinality(s) <= n}
           Next1(g, s) == IF s = {} THEN 0 ELSE f[Pick(s)] + g[s \ {Pick(s)}]
           T == {n \in Nat : \E g : \A s \in Small(n) : g[s] = Next1(g, s)}
<1>1. \A s \in SUBSET S : Cardinality(s) \in Nat /\ (Cardinality(s) = 0 => s = {})
  BY FS_Subset, FS_CardinalityType, FS_EmptySet
<1>2. 0 \in T
  <2> DEFINE g == [s \in SUBSET S |-> 0]
  <2>1. \A s \in Small(0) : s = {}
    BY <1>1
  <2>2. \A s \in Small(0) : g[s] = Next1(g, s)
    BY <2>1
  <2> QED
    BY <2>2
<1>3. ASSUME NEW n \in Nat, n \in T PROVE n + 1 \in T
  <2>1. PICK g : \A s \in Small(n) : g[s] = Next1(g, s)
    BY <1>3
  <2> DEFINE h == [s \in SUBSET S |-> IF s \in Small(n) THEN g[s] ELSE Next1(g, s)]
  <2>2. ASSUME NEW s \in Small(n + 1) PROVE h[s] = Next1(h, s)
    <3>1. CASE s = {}
      <4>1. s \in Small(n)
        BY <1>1, <3>1, FS_EmptySet
      <4> QED
        BY <2>1, <3>1, <4>1
    <3>2. CASE s # {}
      <4>1. s \ {Pick(s)} \in Small(n)
        BY <3>2, <1>1, PickShrinks
      <4>2. h[s \ {Pick(s)}] = g[s \ {Pick(s)}]
        BY <4>1
      <4>3. h[s] = Next1(g, s)
        BY <2>1
      <4> QED
        BY <3>2, <4>2, <4>3
    <3> QED
      BY <3>1, <3>2
  <2> HIDE DEF h
  <2> QED
    BY <2>2
<1>4. Cardinality(S) \in T /\ \A s \in SUBSET S : s \in Small(Cardinality(S))
  <2>1. Nat \subseteq T
    <3> HIDE DEF T
    <3> QED
      BY <1>2, <1>3, SetInduction
  <2> QED
    BY <2>1, FS_CardinalityType, FS_Subset
<1>5. PICK g : \A s \in SUBSET S : g[s] = Next1(g, s)
  BY <1>4
<1> DEFINE h == [s \in SUBSET S |-> g[s]]
<1>6. \A s \in SUBSET S : h[s] = Next1(h, s)
  <2>1. \A s \in SUBSET S : h[s] = Next1(g, s)
    BY <1>5
  <2>2. ASSUME NEW s \in SUBSET S PROVE Next1(h, s) = Next1(g, s)
    OBVIOUS
  <2> QED
    BY <2>1, <2>2
<1>7. Adds(h, f, S)
  <2> HIDE DEF h
  <2>1. h = [s \in SUBSET S |-> h[s]]
    BY DEF h
  <2> QED
    BY <1>6, <2>1 DEF Adds
<1> QED
  BY <1>7

\* What such a function g says of the sum of f.
Sums(g, f, S) ==
    /\ SumFunction(f) = g[S]
    /\ g[{}] = 0
    /\ \A s \in SUBSET S : s # {} => g[s] = f[Pick(s)] + g[s \ {Pick(s)}]
    /\ \A s \in SUBSET S : g[s] \in Int

\* A set with a size above zero has an element.
LEMMA NotEmpty ==
    ASSUME NEW s, NEW n \in Nat, Cardinality(s) = n + 1
    PROVE  s # {}
<1>1. Cardinality({}) = 0
  BY FS_EmptySet
<1> QED
  BY <1>1

\* A sum of integers is the last value of such a function.
LEMMA SumBy ==
    ASSUME NEW S, IsFiniteSet(S), NEW f \in [S -> Int]
    PROVE  \E g : Sums(g, f, S)
<1> DEFINE g == CHOOSE h : Adds(h, f, S)
<1>1. Adds(g, f, S)
  BY SumsExist
<1>2. SumFunction(f) = g[S]
  BY SumIsLast
<1> HIDE DEF g
<1>3. g[{}] = 0 /\ \A s \in SUBSET S : s # {} => g[s] = f[Pick(s)] + g[s \ {Pick(s)}]
  BY <1>1 DEF Adds
<1> DEFINE T == {n \in Nat : \A s \in SUBSET S : Cardinality(s) = n => g[s] \in Int}
<1>4. 0 \in T
  BY <1>3, FS_Subset, FS_EmptySet
<1>5. ASSUME NEW n \in Nat, n \in T PROVE n + 1 \in T
  <2> SUFFICES ASSUME NEW s \in SUBSET S, Cardinality(s) = n + 1 PROVE g[s] \in Int
    OBVIOUS
  <2>1. s # {}
    BY FS_EmptySet
  <2>2. PICK x \in Int, y \in Int : x = g[s \ {Pick(s)}] /\ y = f[Pick(s)]
    <3>1. Cardinality(s \ {Pick(s)}) = n
      BY <2>1, PickShrinks
    <3> QED
      BY <1>5, <2>1, <3>1, PickShrinks
  <2>3. g[s] = y + x
    BY <1>3, <2>1, <2>2
  <2> QED
    BY <2>3
<1>6. Nat \subseteq T
  <2> HIDE DEF T
  <2> QED
    BY <1>4, <1>5, SetInduction
<1>7. \A s \in SUBSET S : g[s] \in Int
  BY <1>6, FS_Subset, FS_CardinalityType
<1> QED
  BY <1>2, <1>3, <1>7 DEF Sums

\* The sum of nothing but zeros.
LEMMA SumOfZeros ==
    ASSUME NEW S, IsFiniteSet(S)
    PROVE  SumFunction([h \in S |-> 0]) = 0
<1> DEFINE f == [h \in S |-> 0]
<1>1. PICK g : Sums(g, f, S)
  <2>1. f \in [S -> Int]
    OBVIOUS
  <2> HIDE DEF f
  <2> QED
    BY <2>1, SumBy
<1> DEFINE T == {n \in Nat : \A s \in SUBSET S : Cardinality(s) = n => g[s] = 0}
<1>2. 0 \in T
  BY <1>1, FS_Subset, FS_EmptySet DEF Sums
<1>3. ASSUME NEW n \in Nat, n \in T PROVE n + 1 \in T
  <2> SUFFICES ASSUME NEW s \in SUBSET S, Cardinality(s) = n + 1 PROVE g[s] = 0
    OBVIOUS
  <2>1. s # {}
    BY NotEmpty
  <2>2. g[s \ {Pick(s)}] = 0 /\ f[Pick(s)] = 0
    BY <1>3, <2>1, PickShrinks
  <2> QED
    BY <1>1, <2>1, <2>2 DEF Sums
<1>4. Nat \subseteq T
  <2> HIDE DEF T
  <2> QED
    BY <1>2, <1>3, SetInduction
<1> QED
  BY <1>1, <1>4, FS_CardinalityType DEF Sums

\* One value replaced: the sum changes by the difference.
LEMMA SumOfUpdate ==
    ASSUME NEW S, IsFiniteSet(S), NEW f \in [S -> Int], NEW a \in S, NEW v \in Int
    PROVE  /\ SumFunction([f EXCEPT ![a] = v]) = SumFunction(f) - f[a] + v
           /\ SumFunction(f) \in Int
<1> DEFINE e == [f EXCEPT ![a] = v]
<1>0. e \in [S -> Int] /\ e[a] = v /\ \A x \in S : x # a => e[x] = f[x]
  OBVIOUS
<1> HIDE DEF e
<1>1. PICK g : Sums(g, f, S)
  BY SumBy
<1>2. PICK h : Sums(h, e, S)
  BY <1>0, SumBy
<1> DEFINE T == {n \in Nat : \A s \in SUBSET S : Cardinality(s) = n =>
                   h[s] = IF a \in s THEN g[s] - f[a] + v ELSE g[s]}
<1>3. 0 \in T
  BY <1>1, <1>2, FS_Subset, FS_EmptySet DEF Sums
<1>4. ASSUME NEW n \in Nat, n \in T PROVE n + 1 \in T
  <2> SUFFICES ASSUME NEW s \in SUBSET S, Cardinality(s) = n + 1
               PROVE  h[s] = IF a \in s THEN g[s] - f[a] + v ELSE g[s]
    OBVIOUS
  <2>1. s # {}
    BY NotEmpty
  <2>2. PICK p \in s : p = Pick(s)
    BY <2>1, PickShrinks
  <2>3. PICK r \in SUBSET S : r = s \ {p}
    OBVIOUS
  <2>4. h[r] = IF a \in r THEN g[r] - f[a] + v ELSE g[r]
    BY <1>4, <2>1, <2>2, <2>3, PickShrinks
  <2>5. h[s] = e[p] + h[r] /\ g[s] = f[p] + g[r]
    BY <1>1, <1>2, <2>1, <2>2, <2>3 DEF Sums
  <2>6. /\ g[r] \in Int /\ h[r] \in Int /\ f[p] \in Int /\ e[p] \in Int /\ f[a] \in Int
        /\ a \in r <=> a \in s /\ p # a
    BY <1>0, <1>1, <1>2, <2>2, <2>3 DEF Sums
  <2>7. CASE p = a
    BY <1>0, <2>4, <2>5, <2>6, <2>7
  <2>8. CASE p # a
    BY <1>0, <2>4, <2>5, <2>6, <2>8
  <2> QED
    BY <2>7, <2>8
<1>5. Nat \subseteq T
  <2> HIDE DEF T
  <2> QED
    BY <1>3, <1>4, SetInduction
<1>6. h[S] = g[S] - f[a] + v
  BY <1>5, FS_CardinalityType
<1> QED
  BY <1>1, <1>2, <1>6 DEF e, Sums

-----------------------------------------------------------------------------
\* Every game holds what it owes.

\* Solvent of one game; and until it is resolved nothing is owed by the normal mode, so
\* that the rewards are all there is to pay.
Balanced(x) ==
    /\ x.mode # "NORMAL" => SumFunction(x.refundModeCredit) = x.balance
    /\ x.mode # "REFUND" /\ x.status # "IN_PROGRESS" =>
         SumFunction(x.normalModeCredit) = x.balance
    /\ x.status = "IN_PROGRESS" => x.normalModeCredit = [h \in Holders |-> 0]

AllBalanced == \A g \in Index : Balanced(games[g])

\* Credits are functions over finitely many holders.
LEMMA CreditsType ==
    ASSUME IsFiniteSet(Accounts), GameInv, NEW g \in Index
    PROVE  /\ IsFiniteSet(Holders)
           /\ games[g].refundModeCredit \in [Holders -> Nat]
           /\ games[g].normalModeCredit \in [Holders -> Nat]
           /\ games[g].refundModeCredit \in [Holders -> Int]
           /\ games[g].normalModeCredit \in [Holders -> Int]
           /\ games[g].balance \in Nat /\ games[g].creator \in Holders
<1>1. IsFiniteSet(Holders)
  BY FS_AddElement DEF Holders
<1>2. games[g] \in Game
  BY GamesType DEF GameInv
<1>3. /\ games[g].refundModeCredit \in [Holders -> Nat]
      /\ games[g].normalModeCredit \in [Holders -> Nat]
      /\ games[g].balance \in Nat /\ games[g].creator \in Holders
  BY <1>2 DEF Game, Holders
<1>4. \A f \in [Holders -> Nat] : f \in [Holders -> Int]
  OBVIOUS
<1> QED
  BY <1>1, <1>3, <1>4

\* A step that changes one game into a balanced one.
LEMMA UpdateBalanced ==
    ASSUME GameInv, AllBalanced, NEW g \in Index, NEW y, Balanced(y), Update(g, y)
    PROVE  AllBalanced'
<1>1. games \in Seq(Game) /\ games' = [games EXCEPT ![g] = y]
  BY DEF GameInv, TypeOK, Update
<1>2. Index' = Index /\ \A h \in Index : games'[h] = IF h = g THEN y ELSE games[h]
  BY <1>1 DEF Index
<1> QED
  BY <1>2 DEF AllBalanced

\* A game of which nothing that counts has changed.
LEMMA SameBalance ==
    ASSUME NEW x, NEW y, Balanced(x), y.status = x.status, y.mode = x.mode,
           y.balance = x.balance, y.refundModeCredit = x.refundModeCredit,
           y.normalModeCredit = x.normalModeCredit
    PROVE  Balanced(y)
  BY DEF Balanced

\* One credit replaced: the sum changes by the difference.
LEMMA CreditReplaced ==
    ASSUME IsFiniteSet(Holders), NEW f \in [Holders -> Int], NEW h \in Holders,
           NEW v \in Int, NEW total \in Int, SumFunction(f) = total
    PROVE  /\ f[h] \in Int
           /\ SumFunction([f EXCEPT ![h] = v]) = total - f[h] + v
  BY SumOfUpdate

\* No credit at all.
LEMMA NoCredit ==
    ASSUME IsFiniteSet(Holders)
    PROVE  \E none \in [Holders -> Int], zero \in Int :
             /\ zero = 0 /\ none = [h \in Holders |-> 0]
             /\ SumFunction(none) = zero /\ \A h \in Holders : none[h] = 0
<1> DEFINE none == [h \in Holders |-> 0]
<1>1. SumFunction(none) = 0
  BY SumOfZeros
<1>2. none \in [Holders -> Int] /\ none = [h \in Holders |-> 0]
      /\ \A h \in Holders : none[h] = 0
  OBVIOUS
<1> HIDE DEF none
<1>3. 0 \in Int
  OBVIOUS
<1> QED
  BY <1>1, <1>2, <1>3

\* Two credits in place of none.
LEMMA SharedBySum ==
    ASSUME IsFiniteSet(Holders), NEW none \in [Holders -> Int], NEW zero \in Int, zero = 0,
           SumFunction(none) = zero, \A h \in Holders : none[h] = 0,
           NEW one \in Holders, NEW other \in Holders, one # other,
           NEW v \in Int, NEW w \in Int
    PROVE  SumFunction([[none EXCEPT ![one] = v] EXCEPT ![other] = w]) = v + w
<1>1. PICK f \in [Holders -> Int] : f = [none EXCEPT ![one] = v]
  OBVIOUS
<1>2. SumFunction([none EXCEPT ![one] = v]) = zero - none[one] + v
  BY CreditReplaced, Zenon
<1>3. SumFunction(f) = v
  BY <1>1, <1>2
<1>4. f[other] = 0
  BY <1>1
<1>5. SumFunction([f EXCEPT ![other] = w]) = SumFunction(f) - f[other] + w
  BY SumOfUpdate, Zenon
<1> QED
  BY <1>1, <1>3, <1>4, <1>5

\* challenge adds the bond to the refunds.
LEMMA ChallengeBalanced ==
    ASSUME IsFiniteSet(Accounts), GameInv, AllBalanced, NEW g \in Index, NEW a \in Accounts,
           Challenge(g, a)
    PROVE  AllBalanced'
<1> DEFINE x == games[g]
           deposits == [x.refundModeCredit EXCEPT ![a] = @ + ChallengerBond]
           y == [x EXCEPT !.counteredBy = a, !.proposal = "Challenged",
                          !.timeLeft = ProveDuration, !.refundModeCredit = deposits,
                          !.balance = @ + ChallengerBond]
<1>1. x \in Game /\ Coherent(x) /\ Balanced(x) /\ a \in Holders /\ ChallengerBond \in Nat
  BY GamesType, GameAssumption DEF GameInv, AllBalanced, Holders
<1>2. x.status = "IN_PROGRESS" /\ x.mode = "UNDECIDED" /\ Update(g, y)
  BY <1>1 DEF Challenge, Coherent
<1>3. SumFunction(deposits) = x.balance + ChallengerBond
  <2>1. x.refundModeCredit \in [Holders -> Int] /\ x.balance \in Int /\ IsFiniteSet(Holders)
    BY CreditsType
  <2>2. SumFunction(x.refundModeCredit) = x.balance
    BY <1>1, <1>2 DEF Balanced
  <2>3. PICK f \in [Holders -> Int], total \in Int :
          f = x.refundModeCredit /\ total = x.balance
    BY <2>1
  <2>4. PICK v \in Int : v = f[a] + ChallengerBond
    BY <1>1, <2>3
  <2>5. f[a] \in Int /\ SumFunction([f EXCEPT ![a] = v]) = total - f[a] + v
    BY <1>1, <2>1, <2>2, <2>3, CreditReplaced
  <2>6. deposits = [f EXCEPT ![a] = v]
    BY <2>3, <2>4
  <2>7. total - f[a] + v = total + ChallengerBond
    BY <1>1, <2>4, <2>5
  <2> QED
    BY <2>3, <2>5, <2>6, <2>7
<1>4. /\ y.status = "IN_PROGRESS" /\ y.mode = "UNDECIDED"
      /\ y.balance = x.balance + ChallengerBond /\ y.refundModeCredit = deposits
      /\ y.normalModeCredit = x.normalModeCredit
  <2> HIDE DEF x, deposits
  <2> QED
    BY <1>1, <1>2 DEF Game
<1>5. Balanced(y)
  <2> HIDE DEF x, y, deposits
  <2> QED
    BY <1>1, <1>2, <1>3, <1>4 DEF Balanced
<1> QED
  BY <1>2, <1>5, UpdateBalanced

\* A reward of the whole balance to one who had no credit, as nobody had.
LEMMA AwardPaysAll ==
    ASSUME IsFiniteSet(Holders), NEW x, x.normalModeCredit = [h \in Holders |-> 0],
           x.balance \in Nat, NEW h \in Holders
    PROVE  SumFunction(Award(x, h)) = x.balance
<1>1. PICK none \in [Holders -> Int], zero \in Int :
        /\ zero = 0 /\ none = [i \in Holders |-> 0]
        /\ SumFunction(none) = zero /\ \A i \in Holders : none[i] = 0
  BY NoCredit
<1>2. PICK v \in Int : v = x.balance
  OBVIOUS
<1>3. SumFunction([none EXCEPT ![h] = v]) = zero - none[h] + v
  BY <1>1, CreditReplaced
<1> QED
  BY <1>1, <1>2, <1>3 DEF Award

\* The rewards of resolve are the balance, however they are shared.
LEMMA RewardsPayAll ==
    ASSUME IsFiniteSet(Accounts), GameInv, AllBalanced, NEW g \in Index,
           games[g].status = "IN_PROGRESS", NEW winner,
           winner = "CHALLENGER_WINS" => games[g].counteredBy \in Holders
    PROVE  SumFunction(Rewards(games[g], winner)) = games[g].balance
<1> DEFINE x == games[g]
<1>1. /\ x \in Game /\ Coherent(x) /\ IsFiniteSet(Holders) /\ x.balance \in Nat
      /\ x.creator \in Holders /\ x.prover \in Holders
      /\ x.normalModeCredit = [h \in Holders |-> 0]
  BY GamesType, CreditsType DEF GameInv, AllBalanced, Balanced, Game
<1>2. \A h \in Holders : SumFunction(Award(x, h)) = x.balance
  BY <1>1, AwardPaysAll
<1>3. CASE /\ winner # "CHALLENGER_WINS"
           /\ x.proposal = "ChallengedAndValidProofProvided" /\ x.prover # x.creator
  <2>1. PICK none \in [Holders -> Int], zero \in Int :
          /\ zero = 0 /\ none = [h \in Holders |-> 0]
          /\ SumFunction(none) = zero /\ \A h \in Holders : none[h] = 0
    BY <1>1, NoCredit
  <2>2. PICK winning \in Holders, opening \in Holders :
          winning = x.prover /\ opening = x.creator
    BY <1>1
  <2>3. PICK bond \in Int, rest \in Int : bond = ChallengerBond /\ rest = x.balance - bond
    BY <1>1, GameAssumption
  <2>4. Rewards(x, winner) = [none EXCEPT ![winning] = ChallengerBond,
                                          ![opening] = x.balance - ChallengerBond]
    BY <1>1, <1>3, <2>1, <2>2 DEF Rewards
  <2>5. Rewards(x, winner) = [[none EXCEPT ![winning] = bond] EXCEPT ![opening] = rest]
    <3> HIDE DEF x
    <3> QED
      BY <2>3, <2>4
  <2>6. winning # opening /\ IsFiniteSet(Holders)
    BY <1>1, <1>3, <2>2
  <2>7. SumFunction([[none EXCEPT ![winning] = bond] EXCEPT ![opening] = rest]) = bond + rest
    <3> HIDE DEF x
    <3> QED
      BY <2>1, <2>6, SharedBySum
  <2> QED
    BY <1>1, <2>3, <2>5, <2>7
<1>4. CASE winner = "CHALLENGER_WINS"
  BY <1>2, <1>4 DEF Rewards
<1>5. CASE /\ winner # "CHALLENGER_WINS"
           /\ ~(x.proposal = "ChallengedAndValidProofProvided" /\ x.prover # x.creator)
  BY <1>1, <1>2, <1>5 DEF Rewards
<1> QED
  BY <1>3, <1>4, <1>5

\* resolve.
LEMMA ResolveBalanced ==
    ASSUME IsFiniteSet(Accounts), GameInv, AllBalanced, NEW g \in Index, Resolve(g)
    PROVE  AllBalanced'
<1> DEFINE x == games[g]
<1>1. PICK winner \in {"CHALLENGER_WINS", "DEFENDER_WINS"} :
        Update(g, Resolved(x, winner))
  BY DEF Resolve, Winner
<1>2. /\ x \in Game /\ Coherent(x) /\ Balanced(x) /\ x.status = "IN_PROGRESS"
      /\ x.mode = "UNDECIDED" /\ x.counteredBy \in Holders
  BY GamesType DEF GameInv, Coherent, AllBalanced, Resolve, Game
<1>3. PICK rewards : rewards = Rewards(x, winner)
  OBVIOUS
<1>4. SumFunction(rewards) = x.balance
  BY <1>2, <1>3, RewardsPayAll
<1> DEFINE y == Resolved(x, winner)
<1>5. /\ y.status = winner /\ y.mode = x.mode /\ y.balance = x.balance
      /\ y.refundModeCredit = x.refundModeCredit /\ y.normalModeCredit = rewards
  <2>1. y = [x EXCEPT !.status = winner, !.proposal = "Resolved",
                      !.normalModeCredit = rewards, !.sinceResolved = 0]
    BY <1>3 DEF Resolved
  <2> HIDE DEF x, y
  <2> QED
    BY <1>2, <2>1 DEF Game
<1>6. Balanced(y)
  <2> HIDE DEF x, y
  <2> QED
    BY <1>2, <1>4, <1>5 DEF Balanced
<1> QED
  BY <1>1, <1>6, UpdateBalanced

\* The mode a game gets is kept, and only one without a mode gets one.
LEMMA ModeSettles ==
    ASSUME GameInv, NEW g \in Index
    PROVE  /\ ModeOf(g) \in {"NORMAL", "REFUND"}
           /\ games[g].mode # "UNDECIDED" => ModeOf(g) = games[g].mode
<1>1. games[g].mode \in {"UNDECIDED", "NORMAL", "REFUND"}
  BY GamesType DEF GameInv, Game
<1> QED
  BY <1>1 DEF ModeOf

\* claimCredit pays one credit of the mode, and takes both.
LEMMA ClaimBalanced ==
    ASSUME IsFiniteSet(Accounts), GameInv, AllBalanced, NEW g \in Index, NEW h \in Holders,
           ClaimCredit(g, h)
    PROVE  AllBalanced'
<1> DEFINE x == games[g]
           mode == ModeOf(g)
           credit == Credit(x, mode, h)
           refunds == [x.refundModeCredit EXCEPT ![h] = 0]
           normals == [x.normalModeCredit EXCEPT ![h] = 0]
           rest == x.balance - credit
           y == [x EXCEPT !.mode = mode, !.balance = rest,
                          !.refundModeCredit = refunds, !.normalModeCredit = normals]
<1>1. x \in Game /\ Balanced(x) /\ x.status # "IN_PROGRESS" /\ Update(g, y)
  BY GamesType, ClosedHasOutcome DEF GameInv, AllBalanced, ClaimCredit
<1>2. /\ IsFiniteSet(Holders) /\ x.balance \in Int
      /\ x.refundModeCredit \in [Holders -> Int] /\ x.normalModeCredit \in [Holders -> Int]
  BY CreditsType
<1>3. mode \in {"NORMAL", "REFUND"} /\ (x.mode # "UNDECIDED" => mode = x.mode)
  BY ModeSettles
<1>4. ASSUME NEW f \in [Holders -> Int], SumFunction(f) = x.balance
      PROVE  SumFunction([f EXCEPT ![h] = 0]) = x.balance - f[h]
  <2>1. PICK total \in Int, zero \in Int : total = x.balance /\ zero = 0
    BY <1>2
  <2>2. SumFunction(f) = total /\ IsFiniteSet(Holders)
    BY <1>2, <1>4, <2>1
  <2>3. f[h] \in Int /\ SumFunction([f EXCEPT ![h] = zero]) = total - f[h] + zero
    BY <2>2, CreditReplaced
  <2> QED
    BY <2>1, <2>3
<1>5. mode = "REFUND" => SumFunction(refunds) = rest
  <2> SUFFICES ASSUME mode = "REFUND" PROVE SumFunction(refunds) = rest
    OBVIOUS
  <2>1. SumFunction(x.refundModeCredit) = x.balance /\ credit = x.refundModeCredit[h]
    BY <1>1, <1>3 DEF Balanced, Credit
  <2> QED
    BY <1>2, <1>4, <2>1
<1>6. mode = "NORMAL" => SumFunction(normals) = rest
  <2> SUFFICES ASSUME mode = "NORMAL" PROVE SumFunction(normals) = rest
    OBVIOUS
  <2>1. SumFunction(x.normalModeCredit) = x.balance /\ credit = x.normalModeCredit[h]
    BY <1>1, <1>3 DEF Balanced, Credit
  <2> QED
    BY <1>2, <1>4, <2>1
<1>7. /\ y.status = x.status /\ y.mode = mode /\ y.balance = rest
      /\ y.refundModeCredit = refunds /\ y.normalModeCredit = normals
  <2> HIDE DEF x, mode, refunds, normals, rest
  <2> QED
    BY <1>1 DEF Game
<1>8. Balanced(y)
  <2> HIDE DEF x, y, mode, refunds, normals, rest
  <2> QED
    BY <1>1, <1>3, <1>5, <1>6, <1>7 DEF Balanced
<1> QED
  BY <1>1, <1>8, UpdateBalanced

\* closeGame only settles the mode.
LEMMA CloseBalanced ==
    ASSUME GameInv, AllBalanced, NEW g \in Index, CloseGame(g)
    PROVE  AllBalanced'
<1> DEFINE x == games[g]
           y == [x EXCEPT !.mode = ModeOf(g)]
<1>1. /\ x \in Game /\ Balanced(x) /\ x.status # "IN_PROGRESS" /\ x.mode = "UNDECIDED"
      /\ Update(g, y)
  BY GamesType DEF GameInv, AllBalanced, CloseGame, Close, IsGameFinalized
<1>2. /\ y.status = x.status /\ y.balance = x.balance
      /\ y.refundModeCredit = x.refundModeCredit /\ y.normalModeCredit = x.normalModeCredit
  BY <1>1 DEF Game
<1>3. Balanced(y)
  <2> HIDE DEF x, y
  <2> QED
    BY <1>1, <1>2 DEF Balanced
<1> QED
  BY <1>1, <1>3, UpdateBalanced

\* prove moves no money.
LEMMA ProveBalanced ==
    ASSUME GameInv, AllBalanced, NEW g \in Index, NEW a \in Accounts, Prove(g, a)
    PROVE  AllBalanced'
<1> DEFINE x == games[g]
           y == [x EXCEPT !.prover = a,
                          !.proposal = IF x.counteredBy = Nobody
                                       THEN "UnchallengedAndValidProofProvided"
                                       ELSE "ChallengedAndValidProofProvided"]
<1>1. x \in Game /\ Balanced(x) /\ Update(g, y)
  BY GamesType DEF GameInv, AllBalanced, Prove
<1>2. /\ y.status = x.status /\ y.mode = x.mode /\ y.balance = x.balance
      /\ y.refundModeCredit = x.refundModeCredit /\ y.normalModeCredit = x.normalModeCredit
  BY <1>1 DEF Game
<1>3. Balanced(y)
  <2> HIDE DEF x, y
  <2> QED
    BY <1>1, <1>2, SameBalance
<1> QED
  BY <1>1, <1>3, UpdateBalanced

\* A game is opened with the creator's bond.
LEMMA InitializeBalanced ==
    ASSUME IsFiniteSet(Accounts), GameInv, AllBalanced, NEW a \in Accounts,
           NEW p \in {0} \cup Index, NEW claim \in Root, NEW block \in 1 .. MaxBlock,
           Initialize(a, p, claim, block)
    PROVE  AllBalanced'
<1>1. Len(games) \in Nat /\ Index = 1 .. Len(games) /\ games \in Seq(Game)
  BY GamesType DEF GameInv, TypeOK
<1>2. PICK n \in Nat : n = Len(games) + 1
  BY <1>1
<1> DEFINE start == StartingOutputRoot(p)
<1>0. PICK sound \in Provable(start.root, claim), respected \in BOOLEAN :
        games' = Append(games,
          [parent |-> p, creator |-> a, startRoot |-> start.root, startBlock |-> start.block,
           claim |-> claim, block |-> block, sound |-> sound,
           counteredBy |-> Nobody, prover |-> Nobody, proposal |-> "Unchallenged",
           timeLeft |-> ChallengeDuration, status |-> "IN_PROGRESS", sinceResolved |-> 0,
           normalModeCredit |-> [h \in Holders |-> 0],
           refundModeCredit |-> [h \in Holders |-> IF h = a THEN InitBond ELSE 0],
           balance |-> InitBond, mode |-> "UNDECIDED", wasRespected |-> respected])
  BY DEF Initialize
<1> HIDE DEF start
<1> DEFINE new == games'[n]
<1>3. /\ new.refundModeCredit = [h \in Holders |-> IF h = a THEN InitBond ELSE 0]
      /\ new.normalModeCredit = [h \in Holders |-> 0]
      /\ new.balance = InitBond /\ new.status = "IN_PROGRESS"
  BY <1>0, <1>1, <1>2
<1>4. Index' = Index \cup {n} /\ \A g \in Index : games'[g] = games[g]
  BY <1>0, <1>1, <1>2 DEF Index
<1> HIDE DEF new
<1>5. SumFunction(new.refundModeCredit) = InitBond
  <2>1. IsFiniteSet(Holders) /\ a \in Holders /\ InitBond \in Int
    BY FS_AddElement, GameAssumption DEF Holders
  <2>2. PICK none \in [Holders -> Int], zero \in Int :
          /\ zero = 0 /\ none = [h \in Holders |-> 0]
          /\ SumFunction(none) = zero /\ \A h \in Holders : none[h] = 0
    BY <2>1, NoCredit
  <2>3. SumFunction([none EXCEPT ![a] = InitBond]) = zero - none[a] + InitBond
    BY <2>1, <2>2, CreditReplaced
  <2>4. new.refundModeCredit = [none EXCEPT ![a] = InitBond]
    BY <1>3, <2>1, <2>2
  <2> QED
    BY <2>1, <2>2, <2>3, <2>4
<1>6. Balanced(new)
  BY <1>3, <1>5 DEF Balanced
<1> QED
  BY <1>4, <1>6 DEF AllBalanced, new

\* Time moves no money.
LEMMA TickBalanced ==
    ASSUME GameInv, AllBalanced, Tick
    PROVE  AllBalanced'
<1> DEFINE left(x) == IF x.timeLeft < -MaxOverdue THEN x.timeLeft ELSE x.timeLeft - 1
           since(x) == IF x.status = "IN_PROGRESS" THEN 0
                       ELSE AtMost(x.sinceResolved + 1, FinalityDelay + 1)
           older(x) == [x EXCEPT !.timeLeft = left(x), !.sinceResolved = since(x)]
<1>1. games' = [g \in Index |-> older(games[g])]
  BY DEF Tick
<1>2. ASSUME NEW g \in Index PROVE Balanced(older(games[g]))
  <2> DEFINE x == games[g]
             y == older(x)
  <2>1. x \in Game /\ Balanced(x)
    BY GamesType DEF GameInv, AllBalanced
  <2>2. /\ y.status = x.status /\ y.mode = x.mode /\ y.balance = x.balance
        /\ y.refundModeCredit = x.refundModeCredit /\ y.normalModeCredit = x.normalModeCredit
    <3> HIDE DEF left, since, x
    <3> QED
      BY <2>1 DEF Game
  <2>3. Balanced(y)
    <3> HIDE DEF x, y
    <3> QED
      BY <2>1, <2>2, SameBalance
  <2> QED
    BY <2>3
<1>3. Index' = Index /\ \A g \in Index : games'[g] = older(games[g])
  <2> HIDE DEF older
  <2> QED
    BY <1>1 DEF Index
<1> HIDE DEF older
<1> QED
  BY <1>2, <1>3 DEF AllBalanced

\* Every step keeps the games balanced.
LEMMA BalancedStep ==
    ASSUME IsFiniteSet(Accounts), GameInv, AllBalanced, [Next]_vars
    PROVE  AllBalanced'
<1>1. ASSUME UNCHANGED games PROVE AllBalanced'
  BY <1>1 DEF AllBalanced, Index
<1>2. CASE \E a \in Accounts, p \in {0} \cup Index, claim \in Root, block \in 1 .. MaxBlock :
             Initialize(a, p, claim, block)
  BY <1>2, InitializeBalanced
<1>3. ASSUME NEW g \in Index, NEW a \in Accounts, Challenge(g, a) \/ Prove(g, a)
      PROVE  AllBalanced'
  BY <1>3, ChallengeBalanced, ProveBalanced
<1>4. ASSUME NEW g \in Index, Resolve(g) \/ CloseGame(g) PROVE AllBalanced'
  BY <1>4, ResolveBalanced, CloseBalanced
<1>5. ASSUME NEW g \in Index, NEW h \in Holders, ClaimCredit(g, h) PROVE AllBalanced'
  BY <1>5, ClaimBalanced
<1>6. ASSUME NEW g \in Index, Disown(g) PROVE AllBalanced'
  BY <1>1, <1>6 DEF Disown
<1>7. CASE Tick
  BY <1>7, TickBalanced
<1>8. CASE UNCHANGED vars
  BY <1>1, <1>8 DEF vars
<1> QED
  BY <1>2, <1>3, <1>4, <1>5, <1>6, <1>7, <1>8 DEF Next

\* In whatever order a game is challenged, proven, resolved, disowned, closed and claimed
\* from, by however many accounts, its contract holds exactly what it owes in each mode it
\* may still pay in.
THEOREM GamesAreSolvent ==
    ASSUME IsFiniteSet(Accounts)
    PROVE  Spec => []Solvent
<1>1. Init => AllBalanced
  BY DEF Init, AllBalanced, Index
<1>2. GameInv /\ AllBalanced /\ [Next]_vars => AllBalanced'
  BY BalancedStep
<1>3. AllBalanced => Solvent
  BY DEF AllBalanced, Balanced, Solvent
<1> QED
  BY <1>1, <1>2, <1>3, AlwaysGameInv, PTL DEF Spec

=============================================================================
