----------------------------- MODULE GameRules -----------------------------
(***************************************************************************)
(* application/rules.py: what the dice are worth and how a game ends.      *)
(***************************************************************************)
EXTENDS Integers

Results == {"SUCCESS", "PARTIAL_SUCCESS", "FAILURE"}

\* classify_result, the grade of a total.
classify_result(total) ==
  CASE total >= 10 -> "SUCCESS"
    [] total \in 7..9 -> "PARTIAL_SUCCESS"
    [] OTHER -> "FAILURE"

\* classify_result, the points of a grade: every die result is worth two, split
\* between progress and danger.
ProgressDelta == [SUCCESS |-> 2, PARTIAL_SUCCESS |-> 1, FAILURE |-> 0]
DangerDelta   == [SUCCESS |-> 0, PARTIAL_SUCCESS |-> 1, FAILURE |-> 2]

apply_spark(base_total, use_spark) ==
  classify_result(base_total + (IF use_spark THEN 1 ELSE 0))

target_points(initial_player_count, max_rounds) ==
  initial_player_count * 2 * (IF max_rounds > 1 THEN max_rounds - 1 ELSE 0)

\* Mutant: the percentage is cut off.
points_percent_CutOff(points, target) ==
  IF points >= target THEN 100 ELSE (100 * points) \div target

\* Python's round: to the nearest integer, ties to even, of a binary fraction.
\* Among the sizes of a game one tie falls short: 23 / 40 * 100 < 57.5.
points_percent(points, target) ==
  LET floor == (100 * points) \div target
      twice == 2 * ((100 * points) % target)
      up    == \/ twice > target
               \/ twice = target /\ floor % 2 = 1 /\ <<points, target>> # <<23, 40>>
      whole == IF up THEN floor + 1 ELSE floor
  IN CASE target <= 0 -> 0
       [] target > 0 /\ whole >= 100 -> 100
       [] OTHER -> whole

ending_result(progress_percent) ==
  CASE progress_percent >= 100 -> "FULL_SUCCESS"
    [] progress_percent \in 60..99 -> "PARTIAL_SUCCESS"
    [] OTHER -> "FAILURE"

ending_cost(danger_percent) ==
  CASE danger_percent >= 70 -> "MAJOR"
    [] danger_percent \in 40..69 -> "SIGNIFICANT"
    [] OTHER -> "LOW"

=============================================================================
