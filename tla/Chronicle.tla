----------------------------- MODULE Chronicle -----------------------------
(***************************************************************************)
(* What a game promises its players: rounds are told one after another,    *)
(* each exactly once, by the storyteller or, only after the storyteller    *)
(* gave up on it, by the fallback; what was told is never taken back; an   *)
(* ended game stays ended and a deleted one stays deleted.                 *)
(***************************************************************************)
EXTENDS Naturals, Sequences

CONSTANT MaxRounds  \* rounds of a game, at least one

VARIABLES
  phase,  \* what the game waits for
  told    \* who told each round so far

vars == <<phase, told>>

TypeOK ==
  /\ phase \in {"acting", "resolving", "failed", "ended", "gone"}
  /\ told \in Seq({"storyteller", "fallback"})
  /\ Len(told) <= MaxRounds

Init ==
  /\ phase = "acting"
  /\ told = <<>>

Ask ==
  /\ phase \in {"acting", "failed"}
  /\ phase' = "resolving"
  /\ UNCHANGED told

GiveUp ==
  /\ phase = "resolving"
  /\ phase' = "failed"
  /\ UNCHANGED told

\* The round after the ones told so far; the last round ends the game.
Tell(teller) ==
  /\ phase = IF teller = "fallback" THEN "failed" ELSE "resolving"
  /\ told' = Append(told, teller)
  /\ phase' = IF Len(told') = MaxRounds THEN "ended" ELSE "acting"

\* The host may end a game whose goal is reached.
Finish ==
  /\ phase = "acting"
  /\ told # <<>>
  /\ phase' = "ended"
  /\ UNCHANGED told

Delete ==
  /\ phase # "gone"
  /\ phase' = "gone"
  /\ told' = <<>>

Next ==
  \/ Ask \/ GiveUp \/ Finish \/ Delete
  \/ \E teller \in {"storyteller", "fallback"} : Tell(teller)

Spec == Init /\ [][Next]_vars

=============================================================================
