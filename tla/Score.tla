------------------------------- MODULE Score -------------------------------
(***************************************************************************)
(* What the score of a game promises, whoever tells its rounds: every      *)
(* round is scored once, each player's part of it splits two points        *)
(* between progress and danger, and the ending is decided by the share of  *)
(* the target reached, taken to the nearest percent: half a percent below  *)
(* a threshold counts as the threshold.                                    *)
(***************************************************************************)
EXTENDS Integers

CONSTANTS
  Sizes,    \* how many players may start a game
  Lengths,  \* for how many rounds
  Open      \* the ending of a game that has not ended

VARIABLES
  size,      \* the players of the game, 0 before it starts
  length,    \* its rounds, 0 before it starts
  told,      \* the rounds told
  progress, danger,
  ending     \* result and cost, or Open

vars == <<size, length, told, progress, danger, ending>>

Target == 2 * size * (length - 1)

\* What a round of n players may earn.
Gains(n) == 0..(2 * n)

\* points/target, taken to the nearest percent, is percent/100 or more.
AtLeast(points, target, percent) == 200 * points >= (2 * percent - 1) * target

EndingOf(p, d, target) ==
  [result |-> CASE p >= target                  -> "FULL_SUCCESS"
                [] p < target /\ AtLeast(p, target, 60) -> "PARTIAL_SUCCESS"
                [] OTHER                         -> "FAILURE",
   cost   |-> CASE AtLeast(d, target, 70) -> "MAJOR"
                [] AtLeast(d, target, 40) /\ ~AtLeast(d, target, 70) -> "SIGNIFICANT"
                [] OTHER                  -> "LOW"]

Init ==
  /\ size = 0 /\ length = 0
  /\ told = 0 /\ progress = 0 /\ danger = 0
  /\ ending = Open

Start ==
  /\ size = 0
  /\ size' \in Sizes /\ length' \in Lengths
  /\ UNCHANGED <<told, progress, danger, ending>>

TellRound ==
  /\ ending = Open /\ told < length
  /\ \E gain \in Gains(size) :
       /\ progress' = progress + gain
       /\ danger' = danger + 2 * size - gain
  /\ told' = told + 1
  /\ ending' = IF told' = length THEN EndingOf(progress', danger', Target) ELSE Open
  /\ UNCHANGED <<size, length>>

\* The host may end a game whose target is reached.
FinishEarly ==
  /\ ending = Open /\ told \in 1..(length - 1)
  /\ progress >= Target
  /\ ending' = EndingOf(progress, danger, Target)
  /\ UNCHANGED <<size, length, told, progress, danger>>

Next == Start \/ TellRound \/ FinishEarly

Spec == Init /\ [][Next]_vars

=============================================================================
