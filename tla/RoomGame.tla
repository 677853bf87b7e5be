------------------------------ MODULE RoomGame ------------------------------
(***************************************************************************)
(* A room from its creation to its ending: the operations of RoomService   *)
(* (application/room_service.py) and apply_story_result, which the         *)
(* synchronous request and the worker share (application/                  *)
(* story_resolution.py).                                                   *)
(*                                                                         *)
(* Every operation checks the version its caller has seen, so an accepted  *)
(* one acts on the room as it is; a refused one changes nothing.  The      *)
(* version itself is modelled in StoryPipeline, with the read and the save *)
(* of an operation as separate steps; here an operation is one step,       *)
(* except generate_world, which saves twice around a call of the model.    *)
(***************************************************************************)
EXTENDS GameRules, FiniteSets, FiniteSetsExt, Functions

CONSTANTS
  People,   \* those who may join, by nickname
  Totals,   \* totals of two dice and an attribute: 2..14 in the deployed game
  Lengths,  \* max_rounds a host may choose: 4, 6 or 8
  None

DiceResult == [base : Totals, decision : {"PENDING", "USE", "DECLINE"}, result : Results]

Endings == [result : {"FULL_SUCCESS", "PARTIAL_SUCCESS", "FAILURE"},
            cost   : {"LOW", "SIGNIFICANT", "MAJOR"}]

ASSUME RoomAssumption ==
  /\ IsFiniteSet(People)
  /\ Totals \subseteq 2..14
  /\ Lengths \subseteq Nat \ {0, 1}
  /\ None \notin DiceResult \cup Endings

\* In a longer game the largest group could be shown 100 percent one point short of its goal.
ASSUME LengthAssumption == Lengths \subseteq 2..20

VARIABLES
  status, world,
  drafts,      \* world_generation_count
  calls,       \* history: how often the model was asked for a world
  generating,  \* a generate_world is waiting for the model
  length,      \* max_rounds
  players,     \* who has joined
  ready,       \* who has a character
  size,        \* initial_player_count
  round,
  acted,       \* who has submitted an action for the round
  dice,        \* the DiceResult of each player in this round, or None
  spark,       \* the sparks of each player's character
  progress, danger, locked,
  asked,       \* a story job for the room as it is has been queued
  ending

draftVars == <<drafts, calls, generating>>
lobbyVars == <<players, ready, size>>
setupVars == <<world, length, draftVars, lobbyVars>>
roundVars == <<round, acted, dice>>
scoreVars == <<spark, progress, danger, ending, locked>>
vars == <<status, setupVars, roundVars, scoreVars, asked>>

Statuses ==
  {"DRAFT", "LOBBY", "COLLECTING_ACTIONS", "AWAITING_HOST", "AWAITING_SPARK", "RESOLVING",
   "RESOLUTION_FAILED", "COMPLETION_AVAILABLE", "COMPLETED"}

Rounds == 1..(length + 1)

NoDice == [p \in People |-> None]

\* Types; sparks stay within what a character can hold (room_service.py:1100).
TypeOK ==
  /\ status \in Statuses
  /\ world \in {"empty", "generated", "confirmed"}
  /\ drafts \in Nat /\ calls \in Nat /\ generating \in BOOLEAN
  /\ length \in Nat
  /\ players \subseteq People /\ ready \subseteq players /\ size \in Nat
  /\ round \in Rounds
  /\ acted \subseteq players
  /\ dice \in [People -> DiceResult \cup {None}]
  /\ spark \in [People -> 0..3]
  /\ progress \in Nat /\ danger \in Nat
  /\ locked \in BOOLEAN /\ asked \in BOOLEAN
  /\ ending \in Endings \cup {None}

\* create_room: the creator is the first player.
Init ==
  /\ status = "DRAFT" /\ world = "empty"
  /\ drafts = 0 /\ calls = 0 /\ generating = FALSE
  /\ length = 6
  /\ \E creator \in People : players = {creator}
  /\ ready = {} /\ size = 0 /\ round = 1
  /\ acted = {} /\ dice = NoDice
  /\ spark = [p \in People |-> 1]
  /\ progress = 0 /\ danger = 0
  /\ locked = FALSE /\ asked = FALSE /\ ending = None

(***************************************************************************)
(* Setup                                                                   *)
(***************************************************************************)
\* generate_world up to the call: the attempt is counted and saved first.
GenerateWorld ==
  /\ status = "DRAFT" /\ ~generating
  /\ drafts < 2
  /\ drafts' = drafts + 1
  /\ calls' = calls + 1
  /\ generating' = TRUE
  /\ UNCHANGED <<status, world, length, lobbyVars, roundVars, scoreVars, asked>>

\* Mutant: a generation that failed does not count.
GenerationEnds_Refund ==
  /\ generating
  /\ generating' = FALSE
  /\ \/ world' = "generated" /\ status' = "DRAFT" /\ UNCHANGED drafts
     \/ drafts' = drafts - 1 /\ UNCHANGED <<world, status>>
  /\ UNCHANGED <<calls, length, lobbyVars, roundVars, scoreVars, asked>>

\* The model answers and the room is saved as it was read, with its new world; or
\* it fails; or the web process dies with the request.
GenerationEnds ==
  /\ generating
  /\ generating' = FALSE
  /\ \/ world' = "generated" /\ status' = "DRAFT"
     \/ UNCHANGED <<world, status>>
  /\ UNCHANGED <<drafts, calls, length, lobbyVars, roundVars, scoreVars, asked>>

\* Mutant: it does not wait for a generation to end.
ConfirmWorld_Unlocked(rounds) ==
  /\ status = "DRAFT"
  /\ status' = "LOBBY" /\ world' = "confirmed"
  /\ length' = rounds
  /\ UNCHANGED <<draftVars, lobbyVars, roundVars, scoreVars, asked>>

\* confirm_world; the lock of the idempotency store makes it wait for a generation.
ConfirmWorld(rounds) ==
  /\ ~generating
  /\ status = "DRAFT"
  /\ status' = "LOBBY" /\ world' = "confirmed"
  /\ length' = rounds
  /\ UNCHANGED <<draftVars, lobbyVars, roundVars, scoreVars, asked>>

\* join_room and join_room_by_code: a nickname is taken once.
JoinRoom(p) ==
  /\ status = "LOBBY"
  /\ Cardinality(players) < 5
  /\ p \notin players
  /\ players' = players \cup {p}
  /\ UNCHANGED <<status, world, draftVars, length, ready, size, roundVars, scoreVars, asked>>

\* update_character: a new or another character, with one spark.
UpdateCharacter(p) ==
  /\ status = "LOBBY"
  /\ p \in players
  /\ ready' = ready \cup {p}
  /\ spark' = [spark EXCEPT ![p] = 1]
  /\ UNCHANGED <<status, world, draftVars, length, players, size, roundVars,
                 progress, danger, ending, locked, asked>>

StartGame ==
  /\ status = "LOBBY"
  /\ Cardinality(players) \in 3..5
  /\ ready = players
  /\ status' = "COLLECTING_ACTIONS"
  /\ size' = Cardinality(players)
  /\ UNCHANGED <<world, draftVars, length, players, ready, roundVars, scoreVars, asked>>

(***************************************************************************)
(* A round                                                                 *)
(***************************************************************************)
\* Mutant: an action may be changed after the roll.
SubmitAction_Late(p) ==
  /\ status \in {"COLLECTING_ACTIONS", "AWAITING_HOST", "AWAITING_SPARK"}
  /\ p \in ready
  /\ acted' = acted \cup {p}
  /\ status' = IF Cardinality(players) >= 3 /\ acted' = players
               THEN "AWAITING_HOST" ELSE "COLLECTING_ACTIONS"
  /\ UNCHANGED <<setupVars, round, dice, scoreVars, asked>>

\* submit_action, for the first time or over an earlier action of the round.
SubmitAction(p) ==
  /\ status \in {"COLLECTING_ACTIONS", "AWAITING_HOST"}
  /\ p \in ready
  /\ acted' = acted \cup {p}
  /\ status' = IF Cardinality(players) >= 3 /\ acted' = players
               THEN "AWAITING_HOST" ELSE "COLLECTING_ACTIONS"
  /\ UNCHANGED <<setupVars, round, dice, scoreVars, asked>>

Rolled(d)  == {p \in People : d[p] # None}
Pending(d) == {p \in Rolled(d) : d[p].decision = "PENDING"}

\* roll_round: who has no spark has nothing to decide.
RollRound ==
  /\ status = "AWAITING_HOST"
  /\ acted = players /\ ready = players
  /\ \E total \in [players -> Totals] :
       dice' = [p \in People |->
                  IF p \in players
                  THEN [base     |-> total[p],
                        decision |-> IF spark[p] = 0 THEN "DECLINE" ELSE "PENDING",
                        result   |-> classify_result(total[p])]
                  ELSE None]
  /\ status' = IF Pending(dice') = {} THEN "RESOLVING" ELSE "AWAITING_SPARK"
  /\ UNCHANGED <<setupVars, round, acted, scoreVars, asked>>

\* Mutant: the result of the roll stays.
Decided_Stale(result, decision) ==
  [base |-> result.base, decision |-> decision, result |-> result.result]

\* The result follows the decision.
Decided(result, decision) ==
  [base |-> result.base, decision |-> decision,
   result |-> apply_spark(result.base, decision = "USE")]

\* Mutant: a decision may be made again.
DecideSpark_Again(p, decision) ==
  /\ status = "AWAITING_SPARK"
  /\ p \in Rolled(dice)
  /\ decision = "USE" => spark[p] >= 1
  /\ dice' = [dice EXCEPT ![p] = Decided(@, decision)]
  /\ status' = IF Pending(dice') = {} THEN "RESOLVING" ELSE status
  /\ UNCHANGED <<setupVars, round, acted, scoreVars, asked>>

DecideSpark(p, decision) ==
  /\ status = "AWAITING_SPARK"
  /\ p \in Pending(dice)
  /\ decision = "USE" => spark[p] >= 1
  /\ dice' = [dice EXCEPT ![p] = Decided(@, decision)]
  /\ status' = IF Pending(dice') = {} THEN "RESOLVING" ELSE status
  /\ UNCHANGED <<setupVars, round, acted, scoreVars, asked>>

(***************************************************************************)
(* The end of a round                                                      *)
(***************************************************************************)
\* The pending decisions become DECLINE when the host skips them.
Declined(d) ==
  [p \in People |-> IF p \in Pending(d) THEN [d[p] EXCEPT !.decision = "DECLINE"] ELSE d[p]]

\* The round may be resolved, the host having seen who is undecided.
Resolvable(skip_pending_spark) ==
  /\ status \in {"AWAITING_SPARK", "RESOLVING", "RESOLUTION_FAILED"}
  /\ Pending(dice) # {} => skip_pending_spark

Target == target_points(size, length)

EndingOf(p, d) == [result |-> ending_result(points_percent(p, Target)),
                   cost   |-> ending_cost(points_percent(d, Target))]

\* Mutant: the points of the roll, whatever was decided.
Gain_Base(d) == SumFunction([p \in Rolled(d) |-> ProgressDelta[classify_result(d[p].base)]])

Gain(d) == SumFunction([p \in Rolled(d) |-> ProgressDelta[d[p].result]])
Loss(d) == SumFunction([p \in Rolled(d) |-> DangerDelta[d[p].result]])

Spent(d, p) == IF d[p].decision = "USE" THEN 1 ELSE 0

\* Mutant: who failed is given a spark beyond the three one can hold.
SparkTold_Uncapped(d, p) ==
  spark[p] - Spent(d, p) + (IF d[p].result = "FAILURE" THEN 1 ELSE 0)

\* Mutant: the failure is paid out before the decision is paid for.
SparkTold_PaidFirst(d, p) ==
  (IF d[p].result = "FAILURE" /\ spark[p] < 3 THEN spark[p] + 1 ELSE spark[p]) - Spent(d, p)

\* The sparks left to p, one more after a failure but three at most.
SparkTold(d, p) ==
  LET left == spark[p] - Spent(d, p)
  IN IF d[p].result = "FAILURE" /\ left < 3 THEN left + 1 ELSE left

\* apply_story_result of a narration: what becomes of the room.
StoryTold(d) ==
  LET earned    == progress + Gain(d)
      lost      == danger + Loss(d)
      completed == round >= length
  IN [progress |-> earned, danger |-> lost,
      spark    |-> [p \in People |-> IF p \in Rolled(d) THEN SparkTold(d, p) ELSE spark[p]],
      round    |-> IF completed THEN round ELSE round + 1,
      status   |-> CASE completed -> "COMPLETED"
                     [] ~completed /\ points_percent(earned, Target) >= 100 -> "COMPLETION_AVAILABLE"
                     [] OTHER -> "COLLECTING_ACTIONS",
      ending   |-> IF completed THEN EndingOf(earned, lost) ELSE ending]

\* The room continues as told; a next round has no dice yet.
Continue(told, d) ==
  /\ progress' = told.progress /\ danger' = told.danger /\ spark' = told.spark
  /\ round' = told.round /\ status' = told.status /\ ending' = told.ending
  /\ acted' = {}
  /\ dice' = IF told.status = "COMPLETED" THEN d ELSE NoDice
  /\ asked' = FALSE
  /\ UNCHANGED <<setupVars, locked>>

\* apply_story_result of a failure: the round waits as it is.
StoryFailed(d) ==
  /\ status' = "RESOLUTION_FAILED"
  /\ dice' = d
  /\ asked' = FALSE
  /\ UNCHANGED <<setupVars, round, acted, scoreVars>>

\* resolve_round: the synchronous mode tells the round within the request.
ResolveRound(skip_pending_spark) ==
  /\ Resolvable(skip_pending_spark)
  /\ \/ Continue(StoryTold(Declined(dice)), Declined(dice))
     \/ StoryFailed(Declined(dice))

\* begin_round_resolution: the asynchronous mode queues a job for the room as it
\* is; a job begun before it is out of date.
BeginRoundResolution(skip_pending_spark) ==
  /\ Resolvable(skip_pending_spark)
  /\ dice' = Declined(dice)
  /\ status' = "RESOLVING"
  /\ asked' = TRUE
  /\ UNCHANGED <<setupVars, round, acted, scoreVars>>

\* commit_result of that job.
CommitResult ==
  /\ asked /\ status = "RESOLVING"
  /\ \/ Continue(StoryTold(dice), dice)
     \/ StoryFailed(dice)

\* fallback_round: the same, written a second time.
FallbackTold ==
  LET earned    == progress + Gain(dice)
      lost      == danger + Loss(dice)
      left      == [p \in People |-> IF p \in Rolled(dice) THEN spark[p] - Spent(dice, p) ELSE spark[p]]
      failed(p) == p \in Rolled(dice) /\ dice[p].result = "FAILURE"
      completed == round >= length
  IN [progress |-> earned, danger |-> lost,
      spark    |-> [p \in People |-> IF failed(p) THEN Min({3, left[p] + 1}) ELSE left[p]],
      round    |-> IF completed THEN round ELSE round + 1,
      status   |-> CASE completed -> "COMPLETED"
                     [] ~completed /\ points_percent(earned, Target) >= 100 -> "COMPLETION_AVAILABLE"
                     [] OTHER -> "COLLECTING_ACTIONS",
      ending   |-> IF completed THEN EndingOf(earned, lost) ELSE ending]

FallbackRound ==
  /\ status = "RESOLUTION_FAILED"
  /\ Continue(FallbackTold, dice)

\* finish_game: the goal reached is reached, whether the game goes on or not.
FinishGame(decision) ==
  /\ status = "COMPLETION_AVAILABLE"
  /\ locked' = TRUE
  /\ \/ /\ decision = "CONTINUE"
        /\ status' = "COLLECTING_ACTIONS"
        /\ UNCHANGED ending
     \/ /\ decision = "FINISH_NOW"
        /\ status' = "COMPLETED"
        /\ ending' = EndingOf(progress, danger)
  /\ UNCHANGED <<setupVars, roundVars, spark, progress, danger, asked>>

(***************************************************************************)
(* Specification                                                           *)
(***************************************************************************)
Setup ==
  \/ GenerateWorld \/ GenerationEnds
  \/ \E rounds \in Lengths : ConfirmWorld(rounds)
  \/ \E p \in People : JoinRoom(p) \/ UpdateCharacter(p)
  \/ StartGame

Play ==
  \/ \E p \in People :
       \/ SubmitAction(p)
       \/ \E decision \in {"USE", "DECLINE"} : DecideSpark(p, decision)
  \/ RollRound
  \/ \E skip \in BOOLEAN : ResolveRound(skip) \/ BeginRoundResolution(skip)
  \/ CommitResult \/ FallbackRound
  \/ \E decision \in {"CONTINUE", "FINISH_NOW"} : FinishGame(decision)

\* A completed game is at rest.
Rest == status = "COMPLETED" /\ UNCHANGED vars

Next == Setup \/ Play \/ Rest

Spec == Init /\ [][Next]_vars

\* Mutant: the host sees the actions before rolling.
ActionsShown_Early == status \notin {"DRAFT", "LOBBY", "COLLECTING_ACTIONS", "RESOLUTION_FAILED"}

\* serialization.py: the players' actions of this round are shown to everyone.
ActionsShown == status \in {"AWAITING_SPARK", "RESOLVING", "COMPLETION_AVAILABLE", "COMPLETED"}

(***************************************************************************)
(* Properties                                                              *)
(***************************************************************************)
\* The status agrees with the data behind it: nobody's action is missing when the
\* host may roll, nobody's dice while a round is resolved, no decision is open when
\* it is told, nothing of an old round is left in a new one (room_service.py:773,
\* :843, :911 and story_resolution.py:77 derive them separately).
StageShape ==
  /\ status \in {"DRAFT", "LOBBY"} => size = 0 /\ round = 1 /\ acted = {} /\ dice = NoDice
  /\ status \notin {"DRAFT", "LOBBY"} =>
       size = Cardinality(players) /\ size \in 3..5 /\ ready = players /\ round <= length
  /\ status = "COLLECTING_ACTIONS" => acted # players /\ dice = NoDice
  /\ status = "AWAITING_HOST" => acted = players /\ dice = NoDice
  /\ status \in {"AWAITING_SPARK", "RESOLVING", "RESOLUTION_FAILED"} =>
       acted = players /\ Rolled(dice) = players
  /\ status = "AWAITING_SPARK" <=> Pending(dice) # {}
  /\ status = "COMPLETION_AVAILABLE" => acted = {} /\ dice = NoDice /\ round > 1
  /\ status = "COMPLETED" <=> ending # None

\* The rounds told.
Told == round - 1 + (IF status = "COMPLETED" /\ dice # NoDice THEN 1 ELSE 0)

\* A spark decided on is there when the round is told, however long its resolution
\* fails, and a result follows from the dice and the decision (room_service.py:899).
SparksCovered ==
  \A p \in Rolled(dice) :
    /\ dice[p].result = apply_spark(dice[p].base, dice[p].decision = "USE")
    /\ status # "COMPLETED" => spark[p] >= Spent(dice, p)
    /\ dice[p].decision = "PENDING" => spark[p] > 0

\* The fallback gives a round the outcome the storyteller would have given it:
\* points, sparks, round, status and ending (room_service.py:1092 repeats
\* story_resolution.py:53).
FallbackAgrees == status = "RESOLUTION_FAILED" => FallbackTold = StoryTold(dice)

\* A generated world that arrives late does not undo the host's confirmation
\* (room_service.py:367 saves the room as it was before the call).
SetupStands == status # "DRAFT" => world = "confirmed" /\ ~generating

\* The model is asked for at most two worlds per room, crashes and failures
\* included (room_service.py:342 counts before it calls).
GenerationBudget == calls <= 2

\* From the roll until the round is told, actions, dice and decisions made stand, and
\* points and sparks wait: no failure, retry or late request changes them.
RoundLocked ==
  [][dice # NoDice /\ Told' = Told =>
       /\ UNCHANGED <<round, acted, scoreVars>>
       /\ \A p \in players :
            /\ dice'[p].base = dice[p].base
            /\ p \in Pending(dice) \/ dice'[p] = dice[p]]_vars

\* The game keeps its score as promised.
S == INSTANCE Score WITH
       Sizes <- 3..5, Open <- None,
       length <- IF size = 0 THEN 0 ELSE length,
       told <- Told

ScoreKept == S!Spec

\* Points, target and threshold where rounding to the nearest percent lifts a score over
\* a threshold its exact fraction does not reach: 59.52 and 69.64 percent.
RoundedUp == {<<25, 42, 60>>, <<39, 56, 70>>}

\* Endings and early ends go by rounded percentages, though text-rpg-mvp-spec.md:321 rounds
\* for display and keeps the points.  In the sizes and lengths deployed neither rounding
\* nor binary fractions, ties or the cap make a difference: every score has the ending of
\* the exact fraction of its target, and 100 percent is shown at the target only, but for
\* the two scores of RoundedUp (room_service.py:1135, :1189, story_resolution.py:78).
\* Asked when a game starts, of the group that plays and of any larger one.
EndingsByFraction ==
  size # 0 /\ round = 1 /\ acted = {} => \A n \in size..5, rounds \in {4, 6, 8} :
    LET target == target_points(n, rounds)
        Reaches(x, percent) == \/ 100 * x >= percent * target
                               \/ <<x, target, percent>> \in RoundedUp
    IN \A x \in 0..(2 * n * rounds) :
         LET shown == points_percent(x, target)
         IN /\ shown = 100 <=> x >= target
            /\ ending_result(shown) = IF x >= target THEN "FULL_SUCCESS"
                                      ELSE IF Reaches(x, 60) THEN "PARTIAL_SUCCESS" ELSE "FAILURE"
            /\ ending_cost(shown) = IF Reaches(x, 70) THEN "MAJOR"
                                    ELSE IF Reaches(x, 40) THEN "SIGNIFICANT" ELSE "LOW"

\* No action is shown before all are locked by the roll (text-rpg-mvp-spec.md:251-252).
SecretUntilRolled == ActionsShown => acted = {} \/ Rolled(dice) = players

=============================================================================
