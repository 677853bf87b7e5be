----------------------------- MODULE Storyteller -----------------------------
(***************************************************************************)
(* BedrockStoryteller and the operations of RoomService that call it: a    *)
(* round is resolved, told by the fallback, or the game finished, and the  *)
(* model may answer anything: an error of the service, a refusal of the    *)
(* guardrail, a call of the wrong tool, a round with players missing,      *)
(* twice or unknown, a narrative that is too long.                         *)
(*                                                                         *)
(* An operation holds the lock of the idempotency store and a copy of the  *)
(* room while it waits for the model; the copy is saved at its end.  A     *)
(* text is a sequence of words, "." is any of the marks that end a         *)
(* sentence, and a limit counts words.  The consequences for progress and  *)
(* crisis and the hook of the next scene are one text.  What the rules do  *)
(* with the points of a round is in RoomGame.                              *)
(***************************************************************************)
EXTENDS Integers, Sequences, SequencesExt

CONSTANTS
  Words,       \* bound: what a text is made of
  Expected,    \* the players of the round's dice results, in their order
  Opening,     \* the world's opening scene
  MaxRounds,
  NarrativeLimit,
  Answers,     \* bound: what the model may say
  MaxCrashes,  \* bound on ends of the process while a call is open
  None

\* The word that is a player's name stands for what came of his action: what is said of a
\* player, if it says anything, has it.
ASSUME StorytellerAssumption ==
  /\ {".", "...", "next scene", "template"} \subseteq Words
  /\ Expected \in Seq(Words) /\ Len(Expected) \in 1..5 /\ IsInjective(Expected)
  /\ Opening \in Seq(Words)
  /\ \A answer \in Answers :
       /\ answer.narrative \in Seq(Words)
       /\ answer.consequences \in Seq([player : Words, says : Seq(Words)])
       /\ \A i \in DOMAIN answer.consequences :
            LET consequence == answer.consequences[i]
            IN consequence.says # <<>> => consequence.player \in ToSet(consequence.says)
  /\ MaxRounds \in Nat \ {0} /\ NarrativeLimit \in Nat \ {0} /\ MaxCrashes \in Nat

VARIABLES
  room,    \* the row of the room
  call,    \* the operation that waits for the model, or None
  reply,   \* to the last operation
  crashes

vars == <<room, call, reply, crashes>>

Round  == "submit_round_narrative"
Ending == "submit_ending_narrative"

(***************************************************************************)
(* What an answer is worth                                                 *)
(***************************************************************************)
\* _failure_code: by the name of the service's error.
FailureCode(error) ==
  CASE error = "AccessDeniedException" -> "AUTHORIZATION_ERROR"
    [] error \in {"ValidationException", "ResourceNotFoundException"} -> "INVALID_MODEL"
    [] error = "GuardrailException" -> "CONTENT_REJECTED"
    [] error = "ThrottlingException" -> "THROTTLED"
    [] error \in {"ModelTimeoutException", "ReadTimeoutError"} -> "TIMEOUT"
    [] OTHER -> "TRANSIENT_SERVICE_ERROR"

FailureCodes == {"AUTHORIZATION_ERROR", "INVALID_MODEL", "CONTENT_REJECTED", "THROTTLED", "TIMEOUT",
                 "TRANSIENT_SERVICE_ERROR", "SCHEMA_INVALID"}

ASSUME NoneAssumption == None \notin FailureCodes

Retryable == {"TIMEOUT", "THROTTLED", "TRANSIENT_SERVICE_ERROR", "SCHEMA_INVALID"}

\* _extract_tool_output: one call of the tool that was asked for, with its arguments.
CallsTool(answer, tool) ==
  /\ answer.stop = "tool_use" /\ answer.blocks = 1
  /\ answer.tool = tool /\ answer.shaped

\* _validate_round_tool_input: every player of the round, and each of them once.
TellsAll(consequences) ==
  /\ Len(consequences) = Len(Expected)
  /\ {consequences[i].player : i \in DOMAIN consequences} = ToSet(Expected)
  /\ \A i \in DOMAIN consequences : consequences[i].says # <<>>

\* Why an answer is no narrative, or None.
Failure(answer, tool) ==
  CASE answer.error # None -> FailureCode(answer.error)
    [] answer.error = None /\ answer.stop = "guardrail_intervened" -> "CONTENT_REJECTED"
    [] answer.error = None /\ answer.stop # "guardrail_intervened" ->
         IF /\ CallsTool(answer, tool) /\ answer.narrative # <<>>
            /\ tool = Round => TellsAll(answer.consequences)
         THEN None ELSE "SCHEMA_INVALID"

(***************************************************************************)
(* What becomes of a narrative                                             *)
(***************************************************************************)
\* Mutant: the mark is looked for one word further on.
Compacted_Further(text, limit) ==
  LET marks == {i \in 1..Len(text) : i <= limit + 2 /\ text[i] = "." /\ i - 1 >= limit \div 2}
  IN IF Len(text) <= limit THEN text
     ELSE IF marks # {} THEN SubSeq(text, 1, Max(marks))
     ELSE Append(SubSeq(text, 1, limit - 1), "...")

\* _compact_bounded_text: cut behind the last mark in reach, if it is not too early.  The
\* search reaches the position after the limit (bedrock_storyteller.py:787).
Compacted(text, limit) ==
  LET marks == {i \in 1..Len(text) : i <= limit + 1 /\ text[i] = "." /\ i - 1 >= limit \div 2}
  IN IF Len(text) <= limit THEN text
     ELSE IF marks # {} THEN SubSeq(text, 1, Max(marks))
     ELSE Append(SubSeq(text, 1, limit - 1), "...")

\* "in" of Python: the text has the part somewhere.
Within(part, text) ==
  \E i \in 1..(Len(text) - Len(part) + 1) : SubSeq(text, i, i + Len(part) - 1) = part

\* The story goes on behind the opening, if the model told that again.
Continued(text) ==
  IF IsPrefix(Opening, text) /\ text # Opening
  THEN SubSeq(text, Len(Opening) + 1, Len(text)) ELSE text

\* What the model says of a player.
Says(answer, player) ==
  answer.consequences[CHOOSE i \in DOMAIN answer.consequences :
                        answer.consequences[i].player = player].says

\* Mutant: left out is what the narrative said before it was cut.
Composed_BeforeCut(answer) ==
  LET narrative  == Continued(Compacted(answer.narrative, NarrativeLimit))
      candidates == [i \in DOMAIN Expected |-> Says(answer, Expected[i])] \o << <<"next scene">> >>
  IN FoldLeft(LAMBDA lines, part : IF Within(part, answer.narrative) THEN lines ELSE Append(lines, part),
              <<narrative>>, candidates)

\* _compose_round_narrative: what the narrative does not say has a line of its own.
Composed(answer) ==
  LET narrative  == Continued(Compacted(answer.narrative, NarrativeLimit))
      candidates == [i \in DOMAIN Expected |-> Says(answer, Expected[i])] \o << <<"next scene">> >>
  IN FoldLeft(LAMBDA lines, part : IF Within(part, narrative) THEN lines ELSE Append(lines, part),
              <<narrative>>, candidates)

(***************************************************************************)
(* The room                                                                *)
(***************************************************************************)
Statuses == {"COLLECTING_ACTIONS", "AWAITING_SPARK", "RESOLUTION_FAILED", "COMPLETION_AVAILABLE",
             "COMPLETED"}

Kinds == {"storyteller", "fallback", "ending"}

Text == Seq(Words)

Entries == [kind : Kinds, round : 1..MaxRounds, lines : Seq(Text)]

Rooms == [status : Statuses, round : 1..MaxRounds, attempts : 0..2,
          failure : FailureCodes \cup {None}, entries : Seq(Entries)]

Calls == [op : {"resolve_round", "fallback_round", "finish_game"}, tool : {Round, Ending},
          attempts : 1..2, room : Rooms]

ASSUME CallAssumption == None \notin Calls

\* Types: a failed round has its reason, and a text that was told fits its column: it stays
\* within the limit but for one mark behind it, and was not cut to nothing
\* (bedrock_storyteller.py:773-804).
TypeOK ==
  /\ room.status \in Statuses /\ room.round \in 1..MaxRounds
  /\ room.attempts \in 0..2 /\ room.failure \in FailureCodes \cup {None}
  /\ room.status = "RESOLUTION_FAILED" => room.failure # None
  /\ \A i \in DOMAIN room.entries :
       LET entry == room.entries[i]
           text  == Head(entry.lines)
       IN /\ entry.kind \in Kinds /\ entry.round \in 1..MaxRounds
          /\ text # <<>>
          /\ Len(text) <= NarrativeLimit \/ (Len(text) = NarrativeLimit + 1 /\ Last(text) = ".")
  /\ call # None => /\ call.op \in {"resolve_round", "fallback_round", "finish_game"}
                    /\ call.tool \in {Round, Ending} /\ call.attempts \in 1..2
  /\ crashes \in 0..MaxCrashes

Init ==
  /\ room = [status |-> "COLLECTING_ACTIONS", round |-> 1, attempts |-> 0, failure |-> None,
             entries |-> <<>>]
  /\ call = None /\ reply = None /\ crashes = 0

Entry(kind, round, lines) == [kind |-> kind, round |-> round, lines |-> lines]

\* The room with one more round told; it ends with the last round, or success is near.
Told(rm, kind, lines) ==
  LET told == [rm EXCEPT !.entries = Append(@, Entry(kind, rm.round, lines))]
  IN IF rm.round >= MaxRounds THEN {[told EXCEPT !.status = "COMPLETED"]}
     ELSE {[told EXCEPT !.round = @ + 1, !.status = status] :
             status \in {"COLLECTING_ACTIONS", "COMPLETION_AVAILABLE"}}

Reply(op, code) == reply' = [op |-> op, code |-> code]

\* Mutant: the room is saved before its ending is told.
SaveOrAsk_Early(op, rm, attempts) ==
  IF rm.status # "COMPLETED" THEN room' = rm /\ call' = None /\ Reply(op, "ok")
  ELSE /\ room' = rm
       /\ call' = [op |-> op, tool |-> Ending, attempts |-> attempts, room |-> rm]
       /\ UNCHANGED reply

\* The room is saved, but an ending has to be told first.
SaveOrAsk(op, rm, attempts) ==
  IF rm.status # "COMPLETED" THEN room' = rm /\ call' = None /\ Reply(op, "ok")
  ELSE /\ call' = [op |-> op, tool |-> Ending, attempts |-> attempts, room |-> rm]
       /\ UNCHANGED <<room, reply>>

(***************************************************************************)
(* Operations                                                              *)
(***************************************************************************)
\* The players act and the dice are rolled: all that comes before a round is resolved.
Play ==
  /\ call = None /\ room.status = "COLLECTING_ACTIONS"
  /\ room' = [room EXCEPT !.status = "AWAITING_SPARK"]
  /\ UNCHANGED <<call, reply, crashes>>

\* resolve_round, for the first time or after a failure.
ResolveRound ==
  /\ call = None /\ room.status \in {"AWAITING_SPARK", "RESOLUTION_FAILED"}
  /\ call' = [op |-> "resolve_round", tool |-> Round, attempts |-> 1, room |-> room]
  /\ UNCHANGED <<room, reply, crashes>>

\* Mutant: only after a failure that may pass.
FallbackRound_Retryable ==
  /\ call = None /\ room.status = "RESOLUTION_FAILED" /\ room.failure \in Retryable
  /\ \E rm \in Told(room, "fallback", << <<"template">> >>) : SaveOrAsk("fallback_round", rm, 1)
  /\ UNCHANGED crashes

\* Mutant: a round that nobody tried to tell is left to the fallback.
FallbackRound_Impatient ==
  /\ call = None /\ room.status \in {"AWAITING_SPARK", "RESOLUTION_FAILED"}
  /\ \E rm \in Told(room, "fallback", << <<"template">> >>) : SaveOrAsk("fallback_round", rm, 1)
  /\ UNCHANGED crashes

\* fallback_round: a template tells the round.
FallbackRound ==
  /\ call = None /\ room.status = "RESOLUTION_FAILED"
  /\ \E rm \in Told(room, "fallback", << <<"template">> >>) : SaveOrAsk("fallback_round", rm, 1)
  /\ UNCHANGED crashes

\* finish_game: to the ending, or on.
FinishGame ==
  /\ call = None /\ room.status = "COMPLETION_AVAILABLE"
  /\ \E status \in {"COLLECTING_ACTIONS", "COMPLETED"} :
       SaveOrAsk("finish_game", [room EXCEPT !.status = status], 1)
  /\ UNCHANGED crashes

(***************************************************************************)
(* The model answers                                                       *)
(***************************************************************************)
Asked(tool) == call # None /\ call.tool = tool

\* A narrative: apply_story_result.
Narrated(answer) ==
  /\ Asked(Round) /\ Failure(answer, Round) = None
  /\ \E rm \in Told([call.room EXCEPT !.attempts = call.attempts, !.failure = None],
                    "storyteller", Composed(answer)) :
       SaveOrAsk(call.op, rm, call.attempts)
  /\ UNCHANGED crashes

\* _resolve_story: what may pass is asked for once more.
AskAgain(answer) ==
  /\ Asked(Round) /\ Failure(answer, Round) \in Retryable
  /\ call.attempts < 2
  /\ call' = [call EXCEPT !.attempts = @ + 1]
  /\ UNCHANGED <<room, reply, crashes>>

\* The round has failed, which is saved.
RoundFails(answer) ==
  LET failure == Failure(answer, Round)
  IN /\ Asked(Round) /\ failure # None
     /\ failure \notin Retryable \/ call.attempts = 2
     /\ room' = [call.room EXCEPT !.status = "RESOLUTION_FAILED", !.attempts = call.attempts,
                                  !.failure = failure]
     /\ call' = None
     /\ Reply(call.op, "ok")
     /\ UNCHANGED crashes

\* resolve_ending
EndingTold(answer) ==
  /\ Asked(Ending) /\ Failure(answer, Ending) = None
  /\ room' = [call.room EXCEPT !.entries =
                Append(@, Entry("ending", call.room.round, <<Compacted(answer.narrative, NarrativeLimit)>>))]
  /\ call' = None
  /\ Reply(call.op, "ok")
  /\ UNCHANGED crashes

\* Nobody catches the failure of an ending: the operation fails, and nothing is saved.
EndingFails(answer) ==
  /\ Asked(Ending) /\ Failure(answer, Ending) # None
  /\ call' = None
  /\ Reply(call.op, "failed")
  /\ UNCHANGED <<room, crashes>>

Answered == \E answer \in Answers :
  \/ Narrated(answer) \/ AskAgain(answer) \/ RoundFails(answer)
  \/ EndingTold(answer) \/ EndingFails(answer)

\* The process ends, and with it the call and its copy of the room.
Crash ==
  /\ call # None /\ crashes < MaxCrashes
  /\ call' = None
  /\ crashes' = crashes + 1
  /\ UNCHANGED <<room, reply>>

Next == Play \/ ResolveRound \/ FallbackRound \/ FinishGame \/ Answered \/ Crash

\* A call ends, if only by its timeout (30 s); players act; a host resolves the round and,
\* if that fails time and again, takes the fallback one day.
Fairness == WF_vars(Answered) /\ WF_vars(Play) /\ WF_vars(ResolveRound) /\ SF_vars(FallbackRound)

Spec == Init /\ [][Next]_vars /\ Fairness

(***************************************************************************)
(* Properties                                                              *)
(***************************************************************************)
\* The rounds told, without the ending.
TalesOf(rm) == IF rm.status = "COMPLETED" THEN Front(rm.entries) ELSE rm.entries

\* Every round that is over is told once, in its order, and a game is completed if and
\* only if its ending is told: whichever call fails or is cut off, no round is told
\* without being counted (room_service.py:967-979, 1110-1142, 1188-1200).
StoryMatchesRounds ==
  LET tales == TalesOf(room)
  IN /\ \A i \in DOMAIN tales : tales[i].round = i /\ tales[i].kind # "ending"
     /\ IF room.status = "COMPLETED"
        THEN /\ Len(tales) \in {room.round - 1, room.round}
             /\ room.entries # <<>> /\ Last(room.entries).kind = "ending"
        ELSE Len(tales) = room.round - 1

\* The rooms of the synchronous mode promise what those of the asynchronous one do: each
\* round is told once and in order, by the storyteller, or by the fallback only after the
\* storyteller failed and while it is not being asked again; a call that fails or is cut off
\* while an ending is told leaves the round untold (room_service.py:967-1142).
Resolving == call # None /\ call.op = "resolve_round"

Game == INSTANCE Chronicle WITH
  phase <- IF room.status = "COMPLETED" THEN "ended"
           ELSE IF room.status = "AWAITING_SPARK" \/ Resolving THEN "resolving"
           ELSE IF room.status = "RESOLUTION_FAILED" THEN "failed" ELSE "acting",
  told  <- [i \in DOMAIN TalesOf(room) |-> TalesOf(room)[i].kind]

ToldAsChronicle == Game!Spec

\* Each player reads what came of his action: in every narrative the model was trusted
\* with, there is something of every player of the round, however it was cut and whatever
\* was left out as said already (bedrock_storyteller.py:709-739, 844-866).
EveryPlayerTold ==
  \A i \in DOMAIN room.entries : room.entries[i].kind = "storyteller" =>
    \A p \in ToSet(Expected) : \E line \in ToSet(room.entries[i].lines) : p \in ToSet(line)

\* Whatever the model does, a round before the last one ends: the fallback does not
\* depend on it (room_service.py:1068-1143).
RoundEnds ==
  \A n \in 1..(MaxRounds - 1) :
    room.status \in {"AWAITING_SPARK", "RESOLUTION_FAILED"} /\ room.round = n ~> room.round # n

\* The fallback is a template and works without the model.  So the specification; but the
\* fallback of the last round asks the model for the ending, and fails with it.
FallbackStandsAlone == reply # None => ~(reply.op = "fallback_round" /\ reply.code = "failed")

=============================================================================
