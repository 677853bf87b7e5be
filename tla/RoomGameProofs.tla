--------------------------- MODULE RoomGameProofs ---------------------------
(***************************************************************************)
(* Theorems about RoomGame, for any people, totals and lengths of games.   *)
(***************************************************************************)
EXTENDS RoomGame, Recursions, FiniteSetTheorems, TLAPS

\* TypeOK without the points, and with what is known of the length.
Types ==
  /\ status \in Statuses
  /\ world \in {"empty", "generated", "confirmed"}
  /\ drafts \in Nat /\ calls \in Nat /\ generating \in BOOLEAN
  /\ length \in Nat /\ length > 1
  /\ players \subseteq People /\ ready \subseteq players
  /\ round \in Nat /\ round > 0
  /\ acted \subseteq players
  /\ dice \in [People -> DiceResult \cup {None}]
  /\ spark \in [People -> 0..3]
  /\ locked \in BOOLEAN /\ asked \in BOOLEAN
  /\ ending \in Endings \cup {None}

\* Every call of the model has been counted first.
Counted == calls = drafts /\ drafts <= 2

\* Nothing of a round is left over where there is none.
NoLeftovers ==
  /\ status \in {"COMPLETION_AVAILABLE", "COMPLETED"} => acted = {}
  /\ status = "COMPLETED" => dice = NoDice \/ Rolled(dice) = players

RInv == Types /\ StageShape /\ NoLeftovers /\ Counted /\ SetupStands /\ SparksCovered

(***************************************************************************)
(* Lemmas about dice                                                       *)
(***************************************************************************)
\* Every total has a grade.
LEMMA Graded ==
  ASSUME NEW total \in Int, NEW use \in BOOLEAN
  PROVE  classify_result(total) \in Results /\ apply_spark(total, use) \in Results
BY DEF classify_result, apply_spark, Results

\* A round without dice has nothing rolled and nothing pending.
LEMMA NothingRolled == Rolled(NoDice) = {} /\ Pending(NoDice) = {}
BY DEF Rolled, Pending, NoDice

LEMMA TotalsAreIntegers == Totals \subseteq Int
BY RoomAssumption

\* None is not a die.
LEMMA NoneIsNoDie == None \notin DiceResult
BY RoomAssumption DEF DiceResult

\* Skipping the undecided closes their decisions and changes nothing else.
LEMMA DeclinedDice ==
  ASSUME NEW d \in [People -> DiceResult \cup {None}]
  PROVE  /\ Declined(d) \in [People -> DiceResult \cup {None}]
         /\ Rolled(Declined(d)) = Rolled(d)
         /\ Pending(Declined(d)) = {}
         /\ \A p \in Rolled(d) :
              /\ Declined(d)[p].base = d[p].base
              /\ Declined(d)[p].result = d[p].result
              /\ Declined(d)[p].decision = "USE" <=> d[p].decision = "USE"
              /\ Spent(Declined(d), p) = Spent(d, p)
         /\ \A p \in People : p \in Pending(d) \/ Declined(d)[p] = d[p]
<1> DEFINE e == Declined(d)
<1>1. ASSUME NEW p \in Pending(d)
      PROVE  /\ p \in People
             /\ d[p] \in DiceResult
             /\ d[p].decision = "PENDING"
             /\ e[p] = [d[p] EXCEPT !.decision = "DECLINE"]
  BY <1>1 DEF Declined, Pending, Rolled
<1>2. ASSUME NEW p \in Pending(d)
      PROVE  /\ e[p] \in DiceResult
             /\ e[p].base = d[p].base
             /\ e[p].result = d[p].result
             /\ e[p].decision = "DECLINE"
  <2> DEFINE r == d[p]
             s == [r EXCEPT !.decision = "DECLINE"]
  <2>1. r \in DiceResult /\ e[p] = s
    BY <1>1
  <2> HIDE DEF r
  <2>2. /\ s \in DiceResult
        /\ s.base = r.base /\ s.result = r.result /\ s.decision = "DECLINE"
    BY <2>1 DEF DiceResult
  <2> QED BY <2>1, <2>2 DEF r
<1> HIDE DEF e
<1>3. \A p \in People : p \in Pending(d) \/ e[p] = d[p]
  BY DEF Declined, e
<1>4. e \in [People -> DiceResult \cup {None}]
  <2>1. e = [p \in People |-> e[p]]
    BY DEF Declined, e
  <2>2. \A p \in People : e[p] \in DiceResult \cup {None}
    BY <1>2, <1>3
  <2> QED BY <2>1, <2>2
<1>5. Rolled(e) = Rolled(d)
  BY <1>2, <1>3, NoneIsNoDie DEF Rolled, Pending
<1>6. Pending(e) = {}
  <2>1. ASSUME NEW p \in Pending(e) PROVE FALSE
    <3>1. p \in People /\ p \in Rolled(d) /\ e[p].decision = "PENDING"
      BY <1>5 DEF Pending, Rolled
    <3>2. CASE p \in Pending(d)
      BY <3>1, <3>2, <1>2
    <3>3. CASE p \notin Pending(d)
      BY <3>1, <3>3, <1>3 DEF Pending
    <3> QED BY <3>2, <3>3
  <2> QED BY <2>1
<1>7. ASSUME NEW p \in Rolled(d)
      PROVE  /\ e[p].base = d[p].base
             /\ e[p].result = d[p].result
             /\ e[p].decision = "USE" <=> d[p].decision = "USE"
  <2>1. CASE p \in Pending(d)
    BY <1>1, <1>2, <2>1
  <2>2. CASE p \notin Pending(d)
    BY <1>3, <2>2 DEF Rolled
  <2> QED BY <2>1, <2>2
<1>8. \A p \in Rolled(d) : Spent(e, p) = Spent(d, p)
  BY <1>7 DEF Spent
<1> QED BY <1>3, <1>4, <1>5, <1>6, <1>7, <1>8 DEF e

\* Dice a round can be told of: all decided, each result right, each spark there.
Settled(d) ==
  /\ d \in [People -> DiceResult \cup {None}]
  /\ Rolled(d) = players /\ Pending(d) = {}
  /\ \A p \in players : /\ d[p].result = apply_spark(d[p].base, d[p].decision = "USE")
                        /\ spark[p] >= Spent(d, p)

Resolved == {"AWAITING_SPARK", "RESOLVING", "RESOLUTION_FAILED"}

\* While a round is resolved, its dice are settled once the undecided are skipped.
LEMMA DeclinedSettles ==
  ASSUME RInv, status \in Resolved
  PROVE  Settled(Declined(dice))
<1> DEFINE e == Declined(dice)
<1>1. dice \in [People -> DiceResult \cup {None}] /\ Rolled(dice) = players
  BY DEF RInv, Types, StageShape, Resolved
<1>2. /\ e \in [People -> DiceResult \cup {None}]
      /\ Rolled(e) = players /\ Pending(e) = {}
      /\ \A p \in players : /\ e[p].base = dice[p].base
                            /\ e[p].result = dice[p].result
                            /\ e[p].decision = "USE" <=> dice[p].decision = "USE"
                            /\ Spent(e, p) = Spent(dice, p)
  BY <1>1, DeclinedDice
<1> HIDE DEF e
<1>3. \A p \in players : /\ dice[p].result = apply_spark(dice[p].base, dice[p].decision = "USE")
                         /\ spark[p] >= Spent(dice, p)
  BY <1>1 DEF RInv, SparksCovered, Resolved
<1>4. \A p \in players : /\ e[p].result = apply_spark(e[p].base, e[p].decision = "USE")
                         /\ spark[p] >= Spent(e, p)
  <2> TAKE p \in players
  <2>1. (e[p].decision = "USE") = (dice[p].decision = "USE")
    BY <1>2
  <2> QED BY <2>1, <1>2, <1>3
<1> QED BY <1>2, <1>4 DEF Settled, e

\* Once every decision is made the dice are settled as they are.
LEMMA DecidedSettles ==
  ASSUME RInv, status \in {"RESOLVING", "RESOLUTION_FAILED"}
  PROVE  Settled(dice)
BY DEF RInv, Types, StageShape, SparksCovered, Settled, Resolved

\* What is told of settled dice leaves a legal number of sparks.
LEMMA SparksTold ==
  ASSUME RInv, NEW d, Settled(d), NEW p \in People
  PROVE  (IF p \in Rolled(d) THEN SparkTold(d, p) ELSE spark[p]) \in 0..3
<1>1. spark[p] \in 0..3 /\ Spent(d, p) \in 0..1
  BY DEF RInv, Types, Spent
<1>2. p \in Rolled(d) => spark[p] >= Spent(d, p)
  BY DEF Settled
<1> QED BY <1>1, <1>2 DEF SparkTold

\* The cap of fallback_round, a minimum, is that of apply_story_result.
LEMMA Capped ==
  ASSUME NEW left \in 0..3
  PROVE  Min({3, left + 1}) = IF left < 3 THEN left + 1 ELSE left
<1> DEFINE both == {3, left + 1}
           m == IF left < 3 THEN left + 1 ELSE left
<1>1. m \in both /\ \A y \in both : m <= y
  OBVIOUS
<1>2. \A x \in both : (\A y \in both : x <= y) => x = m
  BY <1>1
<1> QED BY <1>1, <1>2 DEF Min

\* In a room whose resolution failed, the fallback tells what a narration would.
LEMMA SameTold ==
  ASSUME RInv, status = "RESOLUTION_FAILED"
  PROVE  FallbackTold = StoryTold(dice)
<1>1. Settled(dice)
  BY DecidedSettles
<1> DEFINE left == [p \in People |-> IF p \in Rolled(dice) THEN spark[p] - Spent(dice, p) ELSE spark[p]]
           failed(p) == p \in Rolled(dice) /\ dice[p].result = "FAILURE"
           fallback == [p \in People |-> IF failed(p) THEN Min({3, left[p] + 1}) ELSE left[p]]
           narrated == [p \in People |-> IF p \in Rolled(dice) THEN SparkTold(dice, p) ELSE spark[p]]
<1>2. \A p \in People : fallback[p] = narrated[p]
  <2> TAKE p \in People
  <2>1. spark[p] \in 0..3 /\ Spent(dice, p) \in 0..1
    BY DEF RInv, Types, Spent
  <2>2. p \in Rolled(dice) => spark[p] - Spent(dice, p) \in 0..3
    BY <1>1, <2>1 DEF Settled
  <2>3. CASE p \notin Rolled(dice)
    BY <2>3
  <2>4. CASE p \in Rolled(dice) /\ dice[p].result # "FAILURE"
    BY <2>4 DEF SparkTold
  <2>5. CASE p \in Rolled(dice) /\ dice[p].result = "FAILURE"
    <3>1. fallback[p] = Min({3, (spark[p] - Spent(dice, p)) + 1})
      BY <2>5
    <3>2. Min({3, (spark[p] - Spent(dice, p)) + 1}) = SparkTold(dice, p)
      BY <2>2, <2>5, Capped DEF SparkTold
    <3> QED BY <3>1, <3>2, <2>5
  <2> QED BY <2>3, <2>4, <2>5
<1>3. fallback = narrated
  BY <1>2
<1> QED BY <1>3 DEF FallbackTold, StoryTold

(***************************************************************************)
(* The invariant, operation by operation                                   *)
(***************************************************************************)
LEMMA Initially == Init => RInv
<1> SUFFICES ASSUME Init PROVE RInv
  OBVIOUS
<1>1. Rolled(dice) = {} /\ Pending(dice) = {} /\ dice = NoDice
  BY NothingRolled DEF Init
<1>2. Types
  <2>1. dice \in [People -> DiceResult \cup {None}] /\ spark \in [People -> 0..3]
    BY DEF Init, NoDice
  <2>2. players \subseteq People /\ ready \subseteq players /\ acted \subseteq players
    BY DEF Init
  <2>3. length \in Nat /\ length > 1 /\ round \in Nat /\ round > 0
    BY DEF Init
  <2>4. ending \in Endings \cup {None} /\ locked \in BOOLEAN /\ asked \in BOOLEAN
    BY DEF Init
  <2>5. drafts \in Nat /\ calls \in Nat /\ generating \in BOOLEAN
    BY DEF Init
  <2> QED BY <2>1, <2>2, <2>3, <2>4, <2>5 DEF Init, Types, Statuses
<1>3. StageShape
  BY <1>1, RoomAssumption DEF Init, StageShape
<1> QED BY <1>1, <1>2, <1>3 DEF Init, RInv, NoLeftovers, Counted, SetupStands, SparksCovered

\* Before the game starts there are no dice and nobody has acted.
LEMMA SetupSteps ==
  ASSUME RInv,
         \/ GenerateWorld \/ GenerationEnds
         \/ \E rounds \in Lengths : ConfirmWorld(rounds)
         \/ \E p \in People : JoinRoom(p) \/ UpdateCharacter(p)
         \/ StartGame
  PROVE  RInv'
<1> USE DEF RInv, Types, StageShape, NoLeftovers, Counted, SetupStands, SparksCovered,
            Rolled, Pending, Spent,
            vars, draftVars, lobbyVars, setupVars, roundVars, scoreVars
<1>1. CASE GenerateWorld
  BY <1>1 DEF GenerateWorld
<1>2. CASE GenerationEnds
  BY <1>2 DEF GenerationEnds
<1>3. ASSUME NEW rounds \in Lengths, ConfirmWorld(rounds) PROVE RInv'
  <2>1. rounds \in Nat /\ rounds > 1
    BY <1>3, RoomAssumption
  <2>2. Types'
    BY <1>3, <2>1 DEF ConfirmWorld, Statuses
  <2>3. StageShape' /\ NoLeftovers' /\ Counted'
    BY <1>3, <2>1 DEF ConfirmWorld, Statuses
  <2>4. SetupStands' /\ SparksCovered'
    BY <1>3, <2>1 DEF ConfirmWorld, Statuses
  <2> QED BY <2>2, <2>3, <2>4
<1>4. ASSUME NEW p \in People, JoinRoom(p) PROVE RInv'
  BY <1>4 DEF JoinRoom
<1>5. ASSUME NEW p \in People, UpdateCharacter(p) PROVE RInv'
  BY <1>5, NothingRolled DEF UpdateCharacter
<1>6. CASE StartGame
  BY <1>6, FS_EmptySet DEF StartGame, Statuses
<1> QED BY <1>1, <1>2, <1>3, <1>4, <1>5, <1>6

LEMMA SubmitStep ==
  ASSUME RInv, NEW p \in People, SubmitAction(p)
  PROVE  RInv'
BY NothingRolled
   DEF SubmitAction, RInv, Types, StageShape, NoLeftovers, Counted, SetupStands, SparksCovered,
       Statuses, Rolled, Pending, Spent, draftVars, lobbyVars, setupVars, scoreVars

LEMMA RollStep ==
  ASSUME RInv, RollRound
  PROVE  RInv'
<1>1. players # {} /\ acted = players /\ ready = players /\ players \subseteq People
  BY FS_EmptySet DEF RInv, Types, StageShape, RollRound
<1>2. PICK total \in [players -> Totals] :
        dice' = [p \in People |->
                   IF p \in players
                   THEN [base     |-> total[p],
                         decision |-> IF spark[p] = 0 THEN "DECLINE" ELSE "PENDING",
                         result   |-> classify_result(total[p])]
                   ELSE None]
  BY DEF RollRound
<1>3. \A p \in players : /\ dice'[p] \in DiceResult
                         /\ dice'[p].decision # "USE"
                         /\ dice'[p].decision = "PENDING" => spark[p] > 0
                         /\ dice'[p].result = apply_spark(dice'[p].base, FALSE)
  <2> TAKE p \in players
  <2>1. total[p] \in Totals /\ total[p] \in Int /\ spark[p] \in 0..3
    BY <1>1, TotalsAreIntegers DEF RInv, Types
  <2>2. classify_result(total[p]) \in Results
    BY <2>1, Graded
  <2>3. total[p] + 0 = total[p]
    BY <2>1
  <2>4. dice'[p] = [base     |-> total[p],
                    decision |-> IF spark[p] = 0 THEN "DECLINE" ELSE "PENDING",
                    result   |-> classify_result(total[p])]
    BY <1>1, <1>2
  <2> QED BY <2>1, <2>2, <2>3, <2>4 DEF DiceResult, apply_spark
<1>4. \A p \in People : p \notin players => dice'[p] = None
  BY <1>2
<1>5. dice' \in [People -> DiceResult \cup {None}]
  <2>1. \A p \in People : dice'[p] \in DiceResult \cup {None}
    BY <1>3, <1>4
  <2> QED BY <1>2, <2>1
<1>6. Rolled(dice') = players
  BY <1>1, <1>3, <1>4, NoneIsNoDie DEF Rolled
<1>7. SparksCovered'
  <2> SUFFICES ASSUME NEW p \in players
               PROVE  /\ dice'[p].result = apply_spark(dice'[p].base, dice'[p].decision = "USE")
                      /\ spark'[p] >= Spent(dice', p)
                      /\ dice'[p].decision = "PENDING" => spark'[p] > 0
    BY <1>6 DEF SparksCovered, Spent
  <2>1. (dice'[p].decision = "USE") = FALSE
    BY <1>3
  <2>2. spark'[p] \in 0..3 /\ spark' = spark
    BY <1>1 DEF RInv, Types, RollRound, scoreVars
  <2>3. Spent(dice', p) = 0
    BY <1>3 DEF Spent
  <2>4. apply_spark(dice'[p].base, dice'[p].decision = "USE") = apply_spark(dice'[p].base, FALSE)
    BY <2>1
  <2>5. dice'[p].result = apply_spark(dice'[p].base, dice'[p].decision = "USE")
    BY <1>3, <2>4
  <2>6. dice'[p].decision = "PENDING" => spark'[p] > 0
    BY <1>3, <2>2
  <2>7. spark'[p] >= Spent(dice', p)
    BY <2>2, <2>3
  <2> QED BY <2>5, <2>6, <2>7
<1>8. dice' # NoDice
  BY <1>1, <1>6, NothingRolled
<1>9. StageShape'
  BY <1>1, <1>6 DEF RollRound, RInv, StageShape, setupVars, draftVars, lobbyVars, scoreVars,
                    Rolled, Pending
<1> QED BY <1>5, <1>6, <1>7, <1>9
        DEF RollRound, RInv, Types, Statuses, NoLeftovers, Counted, SetupStands,
            setupVars, draftVars, lobbyVars, scoreVars

LEMMA DecideStep ==
  ASSUME RInv, NEW p \in People, NEW decision \in {"USE", "DECLINE"}, DecideSpark(p, decision)
  PROVE  RInv'
<1> DEFINE r == Decided(dice[p], decision)
<1>1. /\ dice[p] \in DiceResult /\ p \in players /\ p \in Rolled(dice)
      /\ dice \in [People -> DiceResult \cup {None}] /\ Rolled(dice) = players
      /\ players \subseteq People
  BY DEF RInv, Types, StageShape, DecideSpark, Pending, Rolled
<1>2. /\ r \in DiceResult
      /\ r.decision = decision
      /\ r.result = apply_spark(r.base, r.decision = "USE")
  <2>1. dice[p].base \in Totals /\ dice[p].base \in Int
    BY <1>1, TotalsAreIntegers DEF DiceResult
  <2>2. apply_spark(dice[p].base, decision = "USE") \in Results
    BY <2>1, Graded
  <2> QED BY <2>1, <2>2 DEF Decided, DiceResult
<1> HIDE DEF r
<1>3. /\ dice'[p] = r
      /\ \A q \in People : q # p => dice'[q] = dice[q]
      /\ dice' \in [People -> DiceResult \cup {None}]
  BY <1>1, <1>2 DEF DecideSpark, r
<1>4. Rolled(dice') = players
  BY <1>1, <1>2, <1>3, NoneIsNoDie DEF Rolled
<1>5. SparksCovered'
  <2> SUFFICES ASSUME NEW q \in players
               PROVE  /\ dice'[q].result = apply_spark(dice'[q].base, dice'[q].decision = "USE")
                      /\ spark[q] >= Spent(dice', q)
                      /\ dice'[q].decision = "PENDING" => spark[q] > 0
    BY <1>4 DEF SparksCovered, DecideSpark, scoreVars, Spent
  <2>1. CASE q = p
    <3>1. decision = "USE" => spark[p] >= 1
      BY DEF DecideSpark
    <3>2. spark[p] \in 0..3
      BY DEF RInv, Types
    <3> QED BY <2>1, <1>2, <1>3, <3>1, <3>2 DEF Spent
  <2>2. CASE q # p
    <3>1. /\ dice[q].result = apply_spark(dice[q].base, dice[q].decision = "USE")
          /\ spark[q] >= Spent(dice, q)
          /\ dice[q].decision = "PENDING" => spark[q] > 0
      BY <1>1 DEF RInv, SparksCovered, DecideSpark
    <3> QED BY <2>2, <3>1, <1>1, <1>3 DEF Spent
  <2> QED BY <2>1, <2>2
<1>6. dice' # NoDice
  BY <1>1, <1>4, NothingRolled
<1>7. StageShape'
  BY <1>1, <1>4 DEF DecideSpark, RInv, StageShape, setupVars, draftVars, lobbyVars, scoreVars,
                    Rolled, Pending
<1> QED BY <1>3, <1>4, <1>5, <1>7
        DEF DecideSpark, RInv, Types, Statuses, NoLeftovers, Counted, SetupStands,
            setupVars, draftVars, lobbyVars, scoreVars

\* A narration of settled dice, whoever brings it.
LEMMA ContinueStep ==
  ASSUME RInv, status \in Resolved, NEW d, Settled(d), Continue(StoryTold(d), d)
  PROVE  RInv'
<1> DEFINE told == StoryTold(d)
<1>1. players # {}
  BY FS_EmptySet DEF RInv, StageShape, Resolved
<1>2. spark' \in [People -> 0..3]
  <2>1. spark' = [p \in People |-> IF p \in Rolled(d) THEN SparkTold(d, p) ELSE spark[p]]
    BY DEF Continue, StoryTold
  <2> QED BY <2>1, SparksTold
<1>3. \/ /\ round >= length /\ status' = "COMPLETED" /\ round' = round
         /\ dice' = d /\ ending' \in Endings
      \/ /\ round < length /\ round' = round + 1 /\ dice' = NoDice /\ ending' = ending
         /\ status' \in {"COLLECTING_ACTIONS", "COMPLETION_AVAILABLE"}
  <2>1. \A p, x : EndingOf(p, x) \in Endings
    BY DEF EndingOf, Endings, ending_result, ending_cost
  <2>2. round \in Nat /\ length \in Nat
    BY DEF RInv, Types
  <2>3. CASE round >= length
    BY <2>1, <2>3 DEF Continue, StoryTold
  <2>4. CASE round < length
    <3>1. ~(round >= length)
      BY <2>2, <2>4
    <3> QED BY <2>4, <3>1 DEF Continue, StoryTold
  <2> QED BY <2>2, <2>3, <2>4
<1>4. Rolled(d) = players /\ Pending(d) = {} /\ d \in [People -> DiceResult \cup {None}]
  BY DEF Settled
<1>5. SparksCovered'
  <2>1. CASE dice' = NoDice
    BY <2>1, NothingRolled DEF SparksCovered, Rolled
  <2>2. CASE dice' = d /\ status' = "COMPLETED"
    <3>1. \A p \in players : d[p].decision # "PENDING"
      BY <1>4 DEF Pending
    <3>2. \A p \in players : d[p].result = apply_spark(d[p].base, d[p].decision = "USE")
      BY DEF Settled
    <3> QED BY <2>2, <1>4, <3>1, <3>2 DEF SparksCovered
  <2> QED BY <1>3, <2>1, <2>2
<1>6. /\ acted' = {} /\ players' = players /\ ready' = ready /\ size' = size
      /\ length' = length /\ locked' = locked /\ asked' = FALSE /\ world' = world
      /\ calls' = calls /\ drafts' = drafts /\ generating' = generating
  BY DEF Continue, setupVars, draftVars, lobbyVars
<1>7. dice' \in [People -> DiceResult \cup {None}]
  BY <1>3, <1>4 DEF NoDice
<1>8. StageShape'
  <2>1. ending = None
    BY DEF RInv, StageShape, Resolved
  <2>2. \A x \in Endings : x # None
    BY RoomAssumption
  <2>3. Pending(dice') = {}
    BY <1>3, <1>4, NothingRolled
  <2>4. /\ size = Cardinality(players) /\ size \in 3..5 /\ ready = players /\ round <= length
        /\ round \in Nat /\ length \in Nat /\ round > 0
    BY DEF RInv, Types, StageShape, Resolved
  <2> QED BY <1>1, <1>3, <1>6, <2>1, <2>2, <2>3, <2>4 DEF StageShape, Rolled, Pending
<1>9. Types'
  <2>1. Types /\ round' \in Nat /\ round' > 0
    BY <1>3 DEF RInv, Types
  <2>2. status' \in Statuses /\ ending' \in Endings \cup {None}
    BY <1>3, <2>1 DEF Types, Statuses
  <2> QED BY <1>2, <1>6, <1>7, <2>1, <2>2 DEF Types
<1>10. (NoLeftovers /\ Counted /\ SetupStands)'
  BY <1>3, <1>4, <1>6 DEF RInv, NoLeftovers, Counted, SetupStands, Rolled, Resolved
<1> QED BY <1>5, <1>8, <1>9, <1>10 DEF RInv

\* A failure, or a job that is asked for, leaves the round with settled dice.
LEMMA WaitStep ==
  ASSUME RInv, status \in Resolved, NEW d, Settled(d), dice' = d,
         status' \in {"RESOLVING", "RESOLUTION_FAILED"}, asked' \in BOOLEAN,
         UNCHANGED <<setupVars, round, acted, scoreVars>>
  PROVE  RInv'
<1>1. Rolled(d) = players /\ Pending(d) = {} /\ d \in [People -> DiceResult \cup {None}]
  BY DEF Settled
<1>2. SparksCovered'
  <2>1. \A p \in players : d[p].decision # "PENDING"
    BY <1>1 DEF Pending
  <2>2. \A p \in players : /\ d[p].result = apply_spark(d[p].base, d[p].decision = "USE")
                           /\ spark[p] >= Spent(d, p)
    BY DEF Settled
  <2>3. spark' = spark /\ \A p : Spent(dice', p) = Spent(d, p)
    BY DEF scoreVars, Spent
  <2> QED BY <1>1, <2>1, <2>2, <2>3 DEF SparksCovered, Spent
<1>3. StageShape'
  BY <1>1 DEF RInv, StageShape, Resolved, Rolled, Pending,
              setupVars, draftVars, lobbyVars, scoreVars
<1>4. Types'
  BY <1>1 DEF RInv, Types, Statuses, setupVars, draftVars, lobbyVars, scoreVars
<1>5. (NoLeftovers /\ Counted /\ SetupStands)'
  BY DEF RInv, NoLeftovers, Counted, SetupStands, Resolved, setupVars, draftVars, lobbyVars
<1> QED BY <1>2, <1>3, <1>4, <1>5 DEF RInv

LEMMA ResolveStep ==
  ASSUME RInv, NEW skip \in BOOLEAN, ResolveRound(skip) \/ BeginRoundResolution(skip)
  PROVE  RInv'
<1>1. status \in Resolved /\ Settled(Declined(dice))
  BY DeclinedSettles DEF ResolveRound, BeginRoundResolution, Resolvable, Resolved
<1>2. CASE Continue(StoryTold(Declined(dice)), Declined(dice))
  BY <1>1, <1>2, ContinueStep
<1>3. CASE StoryFailed(Declined(dice))
  BY <1>1, <1>3, WaitStep DEF StoryFailed
<1>4. CASE BeginRoundResolution(skip)
  BY <1>1, <1>4, WaitStep DEF BeginRoundResolution
<1> QED BY <1>2, <1>3, <1>4 DEF ResolveRound

LEMMA CommitStep ==
  ASSUME RInv, CommitResult
  PROVE  RInv'
<1>1. status \in Resolved /\ Settled(dice)
  BY DecidedSettles DEF CommitResult, Resolved
<1>2. CASE Continue(StoryTold(dice), dice)
  BY <1>1, <1>2, ContinueStep
<1>3. CASE StoryFailed(dice)
  BY <1>1, <1>3, WaitStep DEF StoryFailed
<1> QED BY <1>2, <1>3 DEF CommitResult

LEMMA FallbackStep ==
  ASSUME RInv, FallbackRound
  PROVE  RInv'
<1>1. status \in Resolved /\ Settled(dice)
  BY DecidedSettles DEF FallbackRound, Resolved
<1>2. Continue(StoryTold(dice), dice)
  BY SameTold DEF FallbackRound
<1> QED BY <1>1, <1>2, ContinueStep

LEMMA FinishStep ==
  ASSUME RInv, NEW decision \in {"CONTINUE", "FINISH_NOW"}, FinishGame(decision)
  PROVE  RInv'
<1>1. \A p, x : EndingOf(p, x) \in Endings /\ EndingOf(p, x) # None
  <2>1. \A p, x : EndingOf(p, x) \in Endings
    BY DEF EndingOf, Endings, ending_result, ending_cost
  <2> QED BY <2>1, RoomAssumption
<1>2. players # {} /\ dice = NoDice /\ Rolled(dice) = {} /\ Pending(dice) = {}
  BY FS_EmptySet, NothingRolled DEF RInv, StageShape, FinishGame
<1>3. Types'
  BY <1>1 DEF FinishGame, RInv, Types, Statuses,
              setupVars, draftVars, lobbyVars, roundVars
<1>4. StageShape'
  BY <1>1, <1>2 DEF FinishGame, RInv, StageShape, Rolled, Pending,
                    setupVars, draftVars, lobbyVars, roundVars
<1>5. SparksCovered'
  BY <1>2 DEF FinishGame, SparksCovered, Rolled, roundVars
<1>6. (NoLeftovers /\ Counted /\ SetupStands)'
  BY <1>2 DEF FinishGame, RInv, StageShape, NoLeftovers, Counted, SetupStands,
              setupVars, draftVars, lobbyVars, roundVars
<1> QED BY <1>3, <1>4, <1>5, <1>6 DEF RInv

LEMMA StillStep ==
  ASSUME RInv, UNCHANGED vars
  PROVE  RInv'
BY DEF vars, setupVars, draftVars, lobbyVars, roundVars, scoreVars,
       RInv, Types, StageShape, NoLeftovers, Counted, SetupStands, SparksCovered,
       Rolled, Pending, Spent

LEMMA Inductive == RInv /\ [Next]_vars => RInv'
<1> SUFFICES ASSUME RInv, [Next]_vars PROVE RInv'
  OBVIOUS
<1>1. CASE Setup
  BY <1>1, SetupSteps DEF Setup
<1>2. CASE Play
  BY <1>2, SubmitStep, DecideStep, RollStep, ResolveStep, CommitStep, FallbackStep, FinishStep
     DEF Play
<1>3. CASE UNCHANGED vars
  BY <1>3, StillStep
<1> QED BY <1>1, <1>2, <1>3 DEF Next, Rest

LEMMA Invariant == Spec => []RInv
<1> QED BY Initially, Inductive, PTL DEF Spec

(***************************************************************************)
(* Theorems                                                                *)
(***************************************************************************)
\* For any group, the status of a room agrees with its players, actions and dice in
\* every history of submissions, rolls, decisions, failures and retries.
THEOREM StageShapeHolds == Spec => []StageShape
<1>1. RInv => StageShape
  BY DEF RInv
<1> QED BY <1>1, Invariant, PTL

\* A spark decided on is never missing when its round is told, and results follow
\* from dice and decisions, however often resolving the round is tried.
THEOREM SparksCoveredHolds == Spec => []SparksCovered
<1>1. RInv => SparksCovered
  BY DEF RInv
<1> QED BY <1>1, Invariant, PTL

\* No generated world arrives after the host confirmed one.
THEOREM SetupStandsHolds == Spec => []SetupStands
<1>1. RInv => SetupStands
  BY DEF RInv
<1> QED BY <1>1, Invariant, PTL

\* The model is asked for at most two worlds per room.
THEOREM GenerationBudgetHolds == Spec => []GenerationBudget
<1>1. RInv => GenerationBudget
  BY DEF RInv, Counted, GenerationBudget
<1> QED BY <1>1, Invariant, PTL

\* No action of a round is shown before everybody's dice are rolled.
THEOREM SecretUntilRolledHolds == Spec => []SecretUntilRolled
<1>1. RInv => SecretUntilRolled
  BY DEF RInv, StageShape, NoLeftovers, SecretUntilRolled, ActionsShown
<1> QED BY <1>1, Invariant, PTL

\* The fallback gives every round of every game the outcome a narration would have
\* given it, sparks at their cap included.
THEOREM FallbackAgreesHolds == Spec => []FallbackAgrees
<1>1. RInv => FallbackAgrees
  BY SameTold DEF FallbackAgrees
<1> QED BY <1>1, Invariant, PTL

\* A step that tells a round changes the number of rounds told.
LEMMA TellingCounts ==
  ASSUME RInv, status \in Resolved, NEW d, Settled(d), Continue(StoryTold(d), d)
  PROVE  Told' # Told
<1>1. Rolled(d) = players /\ players # {}
  BY FS_EmptySet DEF RInv, StageShape, Resolved, Settled
<1>2. d # NoDice
  BY <1>1, NothingRolled
<1>3. round \in Nat /\ length \in Nat /\ status # "COMPLETED"
  BY DEF RInv, Types, Resolved
<1>4. CASE round >= length
  BY <1>2, <1>3, <1>4 DEF Continue, StoryTold, Told
<1>5. CASE ~(round >= length)
  <2>1. status' # "COMPLETED" /\ round' = round + 1
    BY <1>5 DEF Continue, StoryTold
  <2> QED BY <1>3, <2>1 DEF Told
<1> QED BY <1>4, <1>5

\* What RoundLocked says of one step.
Locked ==
  dice # NoDice /\ Told' = Told =>
    /\ UNCHANGED <<round, acted, scoreVars>>
    /\ \A p \in players : /\ dice'[p].base = dice[p].base
                          /\ p \in Pending(dice) \/ dice'[p] = dice[p]

LEMMA LockedStep == RInv /\ [Next]_vars => Locked
<1> SUFFICES ASSUME RInv, [Next]_vars, dice # NoDice, Told' = Told
             PROVE  /\ UNCHANGED <<round, acted, scoreVars>>
                    /\ \A p \in players : /\ dice'[p].base = dice[p].base
                                          /\ p \in Pending(dice) \/ dice'[p] = dice[p]
  BY DEF Locked
<1> DEFINE Goal == /\ UNCHANGED <<round, acted, scoreVars>>
                   /\ \A p \in players : /\ dice'[p].base = dice[p].base
                                         /\ p \in Pending(dice) \/ dice'[p] = dice[p]
<1>1. status \in Resolved \cup {"COMPLETED"}
  BY DEF RInv, Types, Statuses, StageShape, Resolved
<1>2. \A p \in players : /\ Declined(dice)[p].base = dice[p].base
                         /\ p \in Pending(dice) \/ Declined(dice)[p] = dice[p]
  <2>1. dice \in [People -> DiceResult \cup {None}] /\ players \subseteq People
    BY DEF RInv, Types
  <2>2. \A p \in players : p \notin Rolled(dice) => Declined(dice)[p] = dice[p]
    BY <2>1, DeclinedDice DEF Pending
  <2> QED BY <2>1, <2>2, DeclinedDice
<1>3. CASE Setup
  <2>1. ~generating
    BY <1>1 DEF RInv, SetupStands, Resolved
  <2> QED BY <1>1, <1>3, <2>1
          DEF Setup, Resolved, GenerateWorld, GenerationEnds, ConfirmWorld, JoinRoom,
              UpdateCharacter, StartGame
<1>4. ASSUME NEW p \in People, SubmitAction(p) PROVE Goal
  BY <1>1, <1>4 DEF SubmitAction, Resolved
<1>5. ASSUME NEW p \in People, NEW decision \in {"USE", "DECLINE"}, DecideSpark(p, decision)
      PROVE  Goal
  <2>1. dice' = [dice EXCEPT ![p] = Decided(dice[p], decision)] /\ p \in Pending(dice)
    BY <1>5 DEF DecideSpark
  <2>2. dice \in [People -> DiceResult \cup {None}] /\ players \subseteq People
    BY DEF RInv, Types
  <2>3. \A q \in players : /\ dice'[q].base = dice[q].base
                           /\ q \in Pending(dice) \/ dice'[q] = dice[q]
    BY <2>1, <2>2 DEF Decided
  <2> QED BY <1>5, <2>3 DEF DecideSpark
<1>6. CASE RollRound
  BY <1>1, <1>6 DEF RollRound, Resolved
<1>7. ASSUME NEW skip \in BOOLEAN, ResolveRound(skip) PROVE Goal
  <2>1. status \in Resolved /\ Settled(Declined(dice))
    BY <1>7, DeclinedSettles DEF ResolveRound, Resolvable, Resolved
  <2>2. StoryFailed(Declined(dice))
    BY <1>7, <2>1, TellingCounts DEF ResolveRound
  <2> QED BY <1>2, <2>2 DEF StoryFailed
<1>8. ASSUME NEW skip \in BOOLEAN, BeginRoundResolution(skip) PROVE Goal
  BY <1>2, <1>8 DEF BeginRoundResolution
<1>9. CASE CommitResult
  <2>1. status \in Resolved /\ Settled(dice)
    BY <1>9, DecidedSettles DEF CommitResult, Resolved
  <2>2. StoryFailed(dice)
    BY <1>9, <2>1, TellingCounts DEF CommitResult
  <2> QED BY <2>2 DEF StoryFailed
<1>10. CASE FallbackRound
  <2>1. status \in Resolved /\ Settled(dice) /\ Continue(StoryTold(dice), dice)
    BY <1>10, DecidedSettles, SameTold DEF FallbackRound, Resolved
  <2> QED BY <2>1, TellingCounts
<1>11. ASSUME NEW decision \in {"CONTINUE", "FINISH_NOW"}, FinishGame(decision) PROVE Goal
  BY <1>1, <1>11 DEF FinishGame, Resolved
<1>12. CASE UNCHANGED vars
  BY <1>12 DEF vars, roundVars
<1> QED BY <1>3, <1>4, <1>5, <1>6, <1>7, <1>8, <1>9, <1>10, <1>11, <1>12 DEF Next, Play, Rest

\* From the roll until the round is told, nothing but open decisions changes.
THEOREM RoundLockedHolds == Spec => RoundLocked
<1>1. RInv /\ [Next]_vars => [Locked]_vars
  BY LockedStep
<1>2. [][Locked]_vars => RoundLocked
  BY PTL DEF Locked, RoundLocked
<1> QED BY <1>1, <1>2, Invariant, PTL DEF Spec

(***************************************************************************)
(* Percentages                                                             *)
(***************************************************************************)
\* Division with its remainder.
LEMMA Division ==
  ASSUME NEW a \in Nat, NEW t \in Nat \ {0}
  PROVE  /\ a \div t \in Nat /\ a % t \in 0..(t - 1)
         /\ a = t * (a \div t) + (a % t)
OBVIOUS

\* Rounding a percentage does not cross the thresholds of a score.
LEMMA Rounded ==
  ASSUME NEW x \in Nat, NEW t \in 1..199, NEW k \in {40, 60, 70, 100}
  PROVE  /\ points_percent(x, t) \in 0..100
         /\ points_percent(x, t) >= k <=> S!AtLeast(x, t, k)
<1> USE DEF S!AtLeast
<1> DEFINE q == (100 * x) \div t
           r == (100 * x) % t
           up == \/ 2 * r > t
                 \/ 2 * r = t /\ q % 2 = 1 /\ <<x, t>> # <<23, 40>>
           whole == IF up THEN q + 1 ELSE q
<1>1. q \in Nat /\ r \in 0..(t - 1) /\ 100 * x = t * q + r
  <2> DEFINE a == 100 * x
  <2>1. a \in Nat /\ t \in Nat \ {0}
    OBVIOUS
  <2> HIDE DEF a
  <2>2. /\ a \div t \in Nat /\ a % t \in 0..(t - 1)
        /\ a = t * (a \div t) + (a % t)
    BY <2>1, Division
  <2> QED BY <2>2 DEF a
<1>2. points_percent(x, t) = IF whole >= 100 THEN 100 ELSE whole
  BY DEF points_percent
<1>3. <<x, t>> = <<23, 40>> => q = 57
  BY <1>1
<1>4. CASE q >= k
  <2>1. t * q >= t * k
    BY <1>1, <1>4
  <2> QED BY <1>1, <1>2, <1>4, <2>1
<1>5. CASE q = k - 1
  <2>1. t * q = t * k - t
    BY <1>1, <1>5
  <2>2. q % 2 = 1
    BY <1>5
  <2>3. whole >= k <=> 2 * r >= t
    BY <1>1, <1>3, <1>5, <2>2
  <2>4. 200 * x = 2 * t * k - 2 * t + 2 * r
    BY <1>1, <2>1
  <2> QED BY <1>1, <1>2, <1>5, <2>3, <2>4
<1>6. CASE q < k - 1
  <2>1. t * q <= t * (k - 2)
    BY <1>1, <1>6
  <2>2. 200 * x < (2 * k - 2) * t
    BY <1>1, <2>1
  <2>3. whole < k
    BY <1>1, <1>6
  <2> QED BY <1>1, <1>2, <2>2, <2>3
<1> QED BY <1>1, <1>4, <1>5, <1>6

\* What the shares of the target decide, taken to the nearest percent.
NearestResult(p, t) ==
  IF p >= t THEN "FULL_SUCCESS" ELSE IF 200 * p >= 119 * t THEN "PARTIAL_SUCCESS" ELSE "FAILURE"

NearestCost(d, t) ==
  IF 200 * d >= 139 * t THEN "MAJOR" ELSE IF 200 * d >= 79 * t THEN "SIGNIFICANT" ELSE "LOW"

\* Python's percentages decide the same.
LEMMA DecidedByNearest ==
  ASSUME NEW p \in Nat, NEW d \in Nat, NEW t \in 1..199
  PROVE  /\ points_percent(p, t) = 100 <=> p >= t
         /\ ending_result(points_percent(p, t)) = NearestResult(p, t)
         /\ ending_cost(points_percent(d, t)) = NearestCost(d, t)
<1> DEFINE shown == points_percent(p, t)
           lost == points_percent(d, t)
<1>1. /\ shown \in 0..100
      /\ shown >= 100 <=> 200 * p >= 199 * t
      /\ shown >= 60 <=> 200 * p >= 119 * t
  <2>1. \A k \in {40, 60, 70, 100} : shown \in 0..100 /\ (shown >= k <=> S!AtLeast(p, t, k))
    BY Rounded, Zenon
  <2> HIDE DEF shown
  <2>2. /\ shown \in 0..100
        /\ shown >= 100 <=> S!AtLeast(p, t, 100)
        /\ shown >= 60 <=> S!AtLeast(p, t, 60)
    BY <2>1
  <2> QED BY <2>2 DEF S!AtLeast
<1>2. /\ lost \in 0..100
      /\ lost >= 70 <=> 200 * d >= 139 * t
      /\ lost >= 40 <=> 200 * d >= 79 * t
  <2>1. \A k \in {40, 60, 70, 100} : lost \in 0..100 /\ (lost >= k <=> S!AtLeast(d, t, k))
    BY Rounded, Zenon
  <2> HIDE DEF lost
  <2>2. /\ lost \in 0..100
        /\ lost >= 70 <=> S!AtLeast(d, t, 70)
        /\ lost >= 40 <=> S!AtLeast(d, t, 40)
    BY <2>1
  <2> QED BY <2>2 DEF S!AtLeast
<1>3. 200 * p >= 199 * t <=> p >= t
  OBVIOUS
<1> HIDE DEF shown, lost
<1>4. shown = 100 <=> p >= t
  BY <1>1, <1>3
<1>5. ending_result(shown) = NearestResult(p, t)
  BY <1>1, <1>3 DEF ending_result, NearestResult
<1>6. ending_cost(lost) = NearestCost(d, t)
  BY <1>2 DEF ending_cost, NearestCost
<1> QED BY <1>4, <1>5, <1>6 DEF shown, lost

\* Nothing but the target itself is shown as reached.
LEMMA ShownInFull ==
  ASSUME NEW p \in Nat, NEW t \in 1..199
  PROVE  points_percent(p, t) = 100 <=> p >= t
BY DecidedByNearest

\* The ending told is the one the score promises.
LEMMA EndingSame ==
  ASSUME NEW p \in Nat, NEW d \in Nat, NEW t \in 1..199
  PROVE  S!EndingOf(p, d, t) = [result |-> ending_result(points_percent(p, t)),
                                cost   |-> ending_cost(points_percent(d, t))]
<1> DEFINE e == S!EndingOf(p, d, t)
           r == ending_result(points_percent(p, t))
           c == ending_cost(points_percent(d, t))
<1>1. e = [result |-> e.result, cost |-> e.cost]
  BY DEF S!EndingOf
<1>2. e.result = NearestResult(p, t)
  BY DEF S!EndingOf, S!AtLeast, NearestResult
<1>3. e.cost = NearestCost(d, t)
  BY DEF S!EndingOf, S!AtLeast, NearestCost
<1>4. r = NearestResult(p, t) /\ c = NearestCost(d, t)
  BY DecidedByNearest
<1> HIDE DEF e, r, c
<1>5. e = [result |-> r, cost |-> c]
  BY <1>1, <1>2, <1>3, <1>4
<1> QED BY <1>5 DEF e, r, c

\* One score, as progress and as danger.
LEMMA ScoreDecided ==
  ASSUME NEW x \in Nat, NEW t \in 1..199
  PROVE  /\ points_percent(x, t) = 100 <=> x >= t
         /\ ending_result(points_percent(x, t)) = NearestResult(x, t)
         /\ ending_cost(points_percent(x, t)) = NearestCost(x, t)
BY DecidedByNearest

\* At the targets deployed the nearest percent and the exact fraction decide alike, but
\* for the scores that are rounded up.
LEMMA DecidedByFraction ==
  ASSUME NEW n \in 3..5, NEW rounds \in {4, 6, 8}, NEW x \in Nat, NEW t,
         t = target_points(n, rounds)
  PROVE  /\ 200 * x >= 119 * t <=> 100 * x >= 60 * t \/ <<x, t, 60>> \in RoundedUp
         /\ 200 * x >= 139 * t <=> 100 * x >= 70 * t \/ <<x, t, 70>> \in RoundedUp
         /\ 200 * x >= 79 * t  <=> 100 * x >= 40 * t \/ <<x, t, 40>> \in RoundedUp
<1>1. t \in {18, 24, 30, 40, 42, 50, 56, 70}
  BY DEF target_points
<1>2. /\ <<x, t, 60>> \in RoundedUp <=> x = 25 /\ t = 42
      /\ <<x, t, 70>> \in RoundedUp <=> x = 39 /\ t = 56
      /\ <<x, t, 40>> \notin RoundedUp
  BY DEF RoundedUp
<1>3. 200 * x >= 119 * t <=> 100 * x >= 60 * t \/ (x = 25 /\ t = 42)
  BY <1>1
<1>4. 200 * x >= 139 * t <=> 100 * x >= 70 * t \/ (x = 39 /\ t = 56)
  BY <1>1
<1>5. 200 * x >= 79 * t <=> 100 * x >= 40 * t
  BY <1>1
<1> QED BY <1>2, <1>3, <1>4, <1>5

(***************************************************************************)
(* Points                                                                  *)
(***************************************************************************)
\* The points are numbers, the length was chosen, and an end offered is earned.
Points ==
  /\ progress \in Nat /\ danger \in Nat
  /\ status # "DRAFT" => length \in Lengths
  /\ status = "COMPLETION_AVAILABLE" => progress >= Target

\* Everybody's dice make up two points, in progress or in danger.
LEMMA Earned ==
  ASSUME RInv, status \in Resolved, NEW d, Settled(d)
  PROVE  /\ Gain(d) \in 0..(2 * size) /\ Loss(d) \in Nat
         /\ Loss(d) = 2 * size - Gain(d)
<1> DEFINE f == [p \in Rolled(d) |-> ProgressDelta[d[p].result]]
           g == [p \in Rolled(d) |-> DangerDelta[d[p].result]]
<1>1. /\ Rolled(d) = players /\ size = Cardinality(players) /\ size \in 3..5
      /\ IsFiniteSet(players)
  BY RoomAssumption, FS_Subset DEF RInv, Types, StageShape, Resolved, Settled
<1>2. \A p \in players : d[p].result \in Results
  BY DEF Settled, Rolled, DiceResult
<1>3. \A p \in players : f[p] \in Nat /\ g[p] \in Nat /\ f[p] + g[p] = 2
  BY <1>1, <1>2 DEF Results, ProgressDelta, DangerDelta
<1>4. Gain(d) = SumFunctionOnSet(f, players) /\ Loss(d) = SumFunctionOnSet(g, players)
  BY <1>1 DEF Gain, Loss, SumFunction
<1> HIDE DEF f, g
<1>5. SumFunctionOnSet(f, players) \in Nat /\ SumFunctionOnSet(g, players) \in Nat
  BY <1>1, <1>3, SumType
<1>6. SumFunctionOnSet(f, players) + SumFunctionOnSet(g, players) = 2 * Cardinality(players)
  BY <1>1, <1>3, SumPairs
<1> QED BY <1>1, <1>4, <1>5, <1>6

\* The target of a game that was started.
LEMMA TargetSame ==
  ASSUME NEW n \in 3..5, NEW l \in Nat, l \in 2..20
  PROVE  /\ target_points(n, l) = 2 * n * (l - 1)
         /\ target_points(n, l) \in 1..199
<1>1. target_points(n, l) = n * 2 * (l - 1)
  BY DEF target_points
<1>2. CASE n = 3
  BY <1>1, <1>2
<1>3. CASE n = 4
  BY <1>1, <1>3
<1>4. CASE n = 5
  BY <1>1, <1>4
<1> QED BY <1>2, <1>3, <1>4

LEMMA TargetKept ==
  ASSUME RInv, Points, status \notin {"DRAFT", "LOBBY"}
  PROVE  /\ size \in 3..5 /\ length \in Lengths /\ length \in Nat
         /\ Target = S!Target /\ Target \in 1..199
<1>1. size \in 3..5 /\ length \in Lengths /\ length \in 2..20
  BY LengthAssumption DEF RInv, StageShape, Points
<1>2. Target = 2 * size * (length - 1) /\ Target \in 1..199
  BY <1>1, TargetSame DEF Target
<1>3. S!Target = 2 * size * (length - 1)
  BY <1>1 DEF S!Target
<1> QED BY <1>1, <1>2, <1>3

\* A narration of settled dice scores the round, whoever brings it.
LEMMA ContinueScores ==
  ASSUME RInv, Points, status \in Resolved, NEW d, Settled(d), Continue(StoryTold(d), d)
  PROVE  S!TellRound /\ Points'
<1>1. /\ size \in 3..5 /\ length \in Lengths /\ length \in Nat
      /\ Target = S!Target /\ Target \in 1..199
  BY TargetKept DEF Resolved
<1>2. /\ Gain(d) \in 0..(2 * size) /\ Loss(d) \in Nat /\ Loss(d) = 2 * size - Gain(d)
  BY Earned
<1>3. /\ progress' = progress + Gain(d) /\ danger' = danger + Loss(d)
      /\ progress' \in Nat /\ danger' \in Nat
  BY <1>1, <1>2 DEF Continue, StoryTold, Points
<1>4. danger' = danger + 2 * size - Gain(d)
  BY <1>1, <1>2, <1>3 DEF Points
<1>5. size' = size /\ length' = length
  BY DEF Continue, setupVars, lobbyVars
<1>6. /\ ending = None /\ status # "COMPLETED" /\ round \in Nat /\ round > 0 /\ round <= length
      /\ Rolled(d) # {}
  BY <1>1, FS_EmptySet DEF RInv, Types, StageShape, Resolved, Settled
<1>7. d # NoDice
  BY <1>6, NothingRolled
<1>8. Told = round - 1 /\ Told < length
  BY <1>1, <1>6 DEF Told
<1>9. Told' = Told + 1
  <2>1. CASE round >= length
    BY <1>6, <1>7, <1>8, <2>1 DEF Continue, StoryTold, Told
  <2>2. CASE ~(round >= length)
    <3>1. status' # "COMPLETED" /\ round' = round + 1
      BY <2>2 DEF Continue, StoryTold
    <3> QED BY <1>6, <1>8, <3>1 DEF Told
  <2> QED BY <2>1, <2>2
<1>10. ending' = IF Told' = length THEN S!EndingOf(progress', danger', S!Target) ELSE None
  <2>1. CASE round >= length
    <3>1. ending' = EndingOf(progress', danger')
      BY <1>3, <2>1 DEF Continue, StoryTold
    <3>2. EndingOf(progress', danger') = S!EndingOf(progress', danger', Target)
      BY <1>1, <1>3, EndingSame DEF EndingOf
    <3>3. Told' = length
      BY <1>1, <1>6, <1>8, <1>9, <2>1
    <3> QED BY <1>1, <3>1, <3>2, <3>3
  <2>2. CASE ~(round >= length)
    <3>1. ending' = ending
      BY <2>2 DEF Continue, StoryTold
    <3>2. Told' # length
      BY <1>1, <1>6, <1>8, <1>9, <2>2
    <3> QED BY <1>6, <3>1, <3>2
  <2> QED BY <2>1, <2>2
<1>11. S!TellRound
  <2>1. Gain(d) \in S!Gains(size)
    BY <1>2 DEF S!Gains
  <2> QED BY <1>1, <1>3, <1>4, <1>5, <1>6, <1>8, <1>9, <1>10, <2>1 DEF S!TellRound
<1>12. status' = "COMPLETION_AVAILABLE" => progress' >= Target'
  <2>1. SUFFICES ASSUME status' = "COMPLETION_AVAILABLE" PROVE progress' >= Target'
    OBVIOUS
  <2>2. points_percent(progress', Target) >= 100
    BY <1>3, <2>1 DEF Continue, StoryTold
  <2>3. points_percent(progress', Target) = 100 <=> progress' >= Target
    <3> DEFINE q == progress'
               t == Target
    <3>1. q \in Nat /\ t \in 1..199
      BY <1>1, <1>3
    <3> HIDE DEF q, t
    <3> QED BY <3>1, ShownInFull DEF q, t
  <2>4. points_percent(progress', Target) \in 0..100
    BY <1>1, <1>3, Rounded
  <2> QED BY <1>5, <2>2, <2>3, <2>4 DEF Target
<1>13. status # "DRAFT"
  BY DEF Resolved
<1> QED BY <1>1, <1>3, <1>5, <1>11, <1>12, <1>13 DEF Points

\* A step that tells nothing and ends nothing leaves the score alone.
LEMMA ScoreStays ==
  ASSUME UNCHANGED <<size, progress, danger, ending>>, Told' = Told,
         size = 0 \/ length' = length
  PROVE  UNCHANGED S!vars
BY DEF S!vars

\* Each operation is a step of the score or leaves it alone.
LEMMA ScoreStep ==
  ASSUME RInv, Points, [Next]_vars
  PROVE  Points' /\ [S!Next]_(S!vars)
<1> DEFINE Goal == Points' /\ [S!Next]_(S!vars)
<1>1. ASSUME UNCHANGED <<size, length, progress, danger, ending>>, Told' = Told,
             status' = "DRAFT" \/ status # "DRAFT",
             status' # "COMPLETION_AVAILABLE" \/ status = "COMPLETION_AVAILABLE"
      PROVE  Goal
  <2>1. Target' = Target
    BY <1>1 DEF Target
  <2>2. Points'
    BY <1>1, <2>1 DEF Points
  <2> QED BY <1>1, <2>2, ScoreStays
<1>2. CASE Setup
  <2>1. GenerateWorld => Goal
    BY <1>1 DEF GenerateWorld, Told, lobbyVars, roundVars, scoreVars
  <2>2. GenerationEnds => Goal
    BY <1>1 DEF GenerationEnds, Told, lobbyVars, roundVars, scoreVars, RInv, SetupStands
  <2>3. ASSUME NEW rounds \in Lengths, ConfirmWorld(rounds) PROVE Goal
    <3>1. size = 0 /\ round = 1
      BY <2>3 DEF ConfirmWorld, RInv, StageShape
    <3>2. UNCHANGED S!vars
      BY <2>3, <3>1, ScoreStays DEF ConfirmWorld, Told, lobbyVars, roundVars, scoreVars
    <3>3. Points'
      BY <2>3 DEF ConfirmWorld, Points, scoreVars
    <3> QED BY <3>2, <3>3
  <2>4. ASSUME NEW p \in People, JoinRoom(p) \/ UpdateCharacter(p) PROVE Goal
    BY <1>1, <2>4 DEF JoinRoom, UpdateCharacter, Told, roundVars, scoreVars
  <2>5. CASE StartGame
    <3>1. size = 0 /\ length \in Lengths /\ size' \in 3..5 /\ length' = length
      BY <2>5 DEF StartGame, RInv, StageShape, Points
    <3>2. Told' = Told /\ UNCHANGED <<progress, danger, ending>>
      BY <2>5 DEF StartGame, Told, roundVars, scoreVars
    <3>3. S!Start
      BY <3>1, <3>2 DEF S!Start
    <3>4. Points'
      BY <2>5 DEF StartGame, Points, scoreVars
    <3> QED BY <3>3, <3>4 DEF S!Next
  <2> QED BY <1>2, <2>1, <2>2, <2>3, <2>4, <2>5 DEF Setup
<1>3. ASSUME NEW p \in People, SubmitAction(p) PROVE Goal
  BY <1>1, <1>3 DEF SubmitAction, Told, setupVars, lobbyVars, scoreVars
<1>4. ASSUME NEW p \in People, NEW decision \in {"USE", "DECLINE"}, DecideSpark(p, decision)
      PROVE  Goal
  BY <1>1, <1>4 DEF DecideSpark, Told, setupVars, lobbyVars, scoreVars
<1>5. CASE RollRound
  BY <1>1, <1>5 DEF RollRound, Told, setupVars, lobbyVars, scoreVars
<1>6. ASSUME NEW d, StoryFailed(d), status \in Resolved PROVE Goal
  BY <1>1, <1>6 DEF StoryFailed, Told, setupVars, lobbyVars, scoreVars, Resolved
<1>7. ASSUME NEW skip \in BOOLEAN, ResolveRound(skip) PROVE Goal
  <2>1. status \in Resolved /\ Settled(Declined(dice))
    BY <1>7, DeclinedSettles DEF ResolveRound, Resolvable, Resolved
  <2>2. CASE Continue(StoryTold(Declined(dice)), Declined(dice))
    BY <2>1, <2>2, ContinueScores DEF S!Next
  <2> QED BY <1>6, <1>7, <2>1, <2>2 DEF ResolveRound
<1>8. ASSUME NEW skip \in BOOLEAN, BeginRoundResolution(skip) PROVE Goal
  BY <1>1, <1>8 DEF BeginRoundResolution, Resolvable, Told, setupVars, lobbyVars, scoreVars
<1>9. CASE CommitResult
  <2>1. status \in Resolved /\ Settled(dice)
    BY <1>9, DecidedSettles DEF CommitResult, Resolved
  <2>2. CASE Continue(StoryTold(dice), dice)
    BY <2>1, <2>2, ContinueScores DEF S!Next
  <2> QED BY <1>6, <1>9, <2>1, <2>2 DEF CommitResult
<1>10. CASE FallbackRound
  <2>1. status \in Resolved /\ Settled(dice) /\ Continue(StoryTold(dice), dice)
    BY <1>10, DecidedSettles, SameTold DEF FallbackRound, Resolved
  <2> QED BY <2>1, ContinueScores DEF S!Next
<1>11. ASSUME NEW decision \in {"CONTINUE", "FINISH_NOW"}, FinishGame(decision) PROVE Goal
  <2>1. /\ size \in 3..5 /\ length \in Lengths /\ length \in Nat
        /\ Target = S!Target /\ Target \in 1..199
    BY <1>11, TargetKept DEF FinishGame
  <2>2. /\ dice = NoDice /\ round > 1 /\ round <= length /\ round \in Nat
        /\ ending = None /\ progress >= Target /\ progress \in Nat /\ danger \in Nat
    BY <1>11 DEF FinishGame, RInv, Types, StageShape, Points
  <2>3. Told = round - 1 /\ Told' = Told
    BY <1>11, <2>2 DEF FinishGame, Told, roundVars
  <2>4. UNCHANGED <<size, length, progress, danger>> /\ status = "COMPLETION_AVAILABLE"
    BY <1>11 DEF FinishGame, setupVars, lobbyVars
  <2>5. Points'
    BY <1>11, <2>4 DEF FinishGame, Points
  <2>6. CASE ending' = ending
    BY <2>3, <2>4, <2>5, <2>6, ScoreStays
  <2>7. CASE ending' = EndingOf(progress, danger)
    <3>1. ending' = S!EndingOf(progress, danger, S!Target)
      BY <2>1, <2>2, <2>7, EndingSame DEF EndingOf
    <3>2. S!FinishEarly
      BY <2>1, <2>2, <2>3, <2>4, <3>1 DEF S!FinishEarly
    <3> QED BY <2>5, <3>2 DEF S!Next
  <2> QED BY <1>11, <2>6, <2>7 DEF FinishGame
<1>12. CASE UNCHANGED vars
  BY <1>1, <1>12 DEF vars, Told, setupVars, lobbyVars, roundVars, scoreVars
<1> QED BY <1>2, <1>3, <1>4, <1>5, <1>7, <1>8, <1>9, <1>10, <1>11, <1>12 DEF Next, Play, Rest

LEMMA PointsHold == Spec => []Points
<1>1. Init => Points
  BY DEF Init, Points
<1>2. RInv /\ Points /\ [Next]_vars => Points'
  BY ScoreStep
<1> QED BY <1>1, <1>2, Invariant, PTL DEF Spec

\* A room implements the score: each round told adds two points for each player, once,
\* and the game ends as the shares of the target, to the nearest percent, decide.
THEOREM ScoreIsKept == Spec => ScoreKept
<1>1. Init => S!Init
  BY DEF Init, S!Init, Told
<1>2. RInv /\ Points /\ [Next]_vars => [S!Next]_(S!vars)
  BY ScoreStep
<1> QED BY <1>1, <1>2, Invariant, PointsHold, PTL DEF Spec, ScoreKept, S!Spec

\* Everything in a room keeps its type, however long the game.
THEOREM RoomTypeOK == Spec => []TypeOK
<1>1. RInv /\ Points => TypeOK
  BY DEF RInv, Types, StageShape, Points, TypeOK, Rounds, Statuses
<1> QED BY <1>1, Invariant, PointsHold, PTL

\* At every size and length deployed, every score has the ending of the exact fraction of
\* its target, whatever Python's rounding of binary fractions does, but for the two that
\* are rounded up to a threshold; 100 percent is shown at the target only (rules.py:28-48).
THEOREM EndingsByFractionHolds == Spec => []EndingsByFraction
<1>1. ASSUME RInv PROVE EndingsByFraction
  <2> SUFFICES ASSUME size # 0, NEW n \in size..5, NEW rounds \in {4, 6, 8},
                      NEW x \in 0..(2 * n * rounds)
               PROVE  LET t == target_points(n, rounds)
                          shown == points_percent(x, t)
                          Reaches(k) == 100 * x >= k * t \/ <<x, t, k>> \in RoundedUp
                      IN /\ shown = 100 <=> x >= t
                         /\ ending_result(shown) =
                              IF x >= t THEN "FULL_SUCCESS"
                              ELSE IF Reaches(60) THEN "PARTIAL_SUCCESS" ELSE "FAILURE"
                         /\ ending_cost(shown) =
                              IF Reaches(70) THEN "MAJOR"
                              ELSE IF Reaches(40) THEN "SIGNIFICANT" ELSE "LOW"
    BY Zenon DEF EndingsByFraction
  <2>1. n \in 3..5 /\ rounds \in Nat /\ rounds \in 2..20 /\ x \in Nat
    BY <1>1 DEF RInv, StageShape
  <2> DEFINE t == target_points(n, rounds)
  <2>2. t \in 1..199
    BY <2>1, TargetSame
  <2>3. /\ 200 * x >= 119 * t <=> 100 * x >= 60 * t \/ <<x, t, 60>> \in RoundedUp
        /\ 200 * x >= 139 * t <=> 100 * x >= 70 * t \/ <<x, t, 70>> \in RoundedUp
        /\ 200 * x >= 79 * t  <=> 100 * x >= 40 * t \/ <<x, t, 40>> \in RoundedUp
    BY <2>1, DecidedByFraction
  <2> HIDE DEF t
  <2>4. /\ points_percent(x, t) = 100 <=> x >= t
        /\ ending_result(points_percent(x, t)) = NearestResult(x, t)
        /\ ending_cost(points_percent(x, t)) = NearestCost(x, t)
    BY <2>1, <2>2, ScoreDecided
  <2> QED BY <2>3, <2>4 DEF t, NearestResult, NearestCost
<1> QED BY <1>1, Invariant, PTL

=============================================================================
