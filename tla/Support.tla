------------------------------- MODULE Support -------------------------------
(***************************************************************************)
(* Problem reports: the draft route of api/support_routes.py, the draft    *)
(* path of SupportAgent and the rows of support_report_drafts.  A player   *)
(* describes a problem; secrets are redacted, the text is read into        *)
(* fields, and the draft is kept under a key of the reporter and the       *)
(* redacted text with its white space evened out.                          *)
(*                                                                         *)
(* A text is a sequence of words and line ends.  "Cookie:" stands for the  *)
(* label whose secret runs to the end of the line, "session=" for those    *)
(* whose secret is one word; category and expected behaviour are read like *)
(* the summary and have constants for defaults: they are left out.  Hashes *)
(* do not collide.  The handler reads its body first and then runs to the  *)
(* end on the event loop: a request is one step.  One without the session  *)
(* of a player or without its CSRF token is turned away before the limiter *)
(* counts it and changes nothing: there is no action for it.               *)
(***************************************************************************)
EXTENDS RateLimiter, Sequences, SequencesExt

CONSTANTS
  Words,   \* bound: the words there are, the line end one of them
  Texts,   \* bound: the descriptions there are
  None

VARIABLES
  reports,   \* support_report_drafts: the draft of each key
  refused,   \* the last request, if its text was refused or in conflict
  answered   \* history: the drafts players were given

supportVars == <<limiterVars, reports, refused, answered>>

LineEnd == "line end"
Field   == {"summary:", "steps:", "actual:"}
Label   == {"Cookie:", "session="}

\* What the step makes of the start, one item of the sequence after the other.
Run(step, start, items) == FoldLeft(LAMBDA state, item : step[state][item], start, items)

(***************************************************************************)
(* Redaction                                                               *)
(***************************************************************************)
\* The word at i of the text is behind the label at j: on the line the value of a cookie
\* begins on, or the first word after another label.
BehindCookie(text, j, i) ==
  /\ j < i /\ text[j] = "Cookie:"
  /\ \A k, l \in (j + 1)..(i - 1) : k < l /\ text[k] # LineEnd => text[l] # LineEnd

BehindWord(text, j, i) ==
  /\ j < i /\ text[j] = "session="
  /\ \A k \in (j + 1)..(i - 1) : text[k] = LineEnd

Behind(text, i) ==
  \E j \in DOMAIN text : BehindCookie(text, j, i) \/ BehindWord(text, j, i)

\* It is behind a label that is not itself part of what stands behind another.
HasLabel(text, i) ==
  \E j \in DOMAIN text :
    /\ BehindCookie(text, j, i) \/ BehindWord(text, j, i)
    /\ ~Behind(text, j)

\* An empty text never gets here (support_schemas.py:9-14, support_agent.py:133-137).  What
\* the texts call a secret has a label; a label inside a cookie's value is none.
TextsAssumption ==
  /\ Field \cup Label \cup {LineEnd, "[REDACTED]", "as described"} \subseteq Words
  /\ \A text \in Texts :
       /\ text \in Seq(Words)
       /\ \E i \in DOMAIN text : text[i] # LineEnd
       /\ \A i \in DOMAIN text : text[i] = "secret" => HasLabel(text, i)

ASSUME TextsAssumption

\* The cookie pattern: after the label, on this line or a later one, what is left of the
\* line becomes one mark.
LineState == [out : Seq(Words), mode : {"copy", "seek", "drop"}]

LineStep[acc \in LineState] ==
  [word \in Words |->
     CASE acc.mode = "copy" ->
            [out |-> Append(acc.out, word), mode |-> IF word = "Cookie:" THEN "seek" ELSE "copy"]
       [] acc.mode = "seek" ->
            IF word = LineEnd THEN [acc EXCEPT !.out = Append(@, word)]
            ELSE [out |-> Append(acc.out, "[REDACTED]"), mode |-> "drop"]
       [] acc.mode = "drop" ->
            IF word = LineEnd THEN [out |-> Append(acc.out, word), mode |-> "copy"] ELSE acc]

RedactLine(text) == Run(LineStep, [out |-> <<>>, mode |-> "copy"], text).out

\* The other patterns: the next word becomes a mark.
WordState == [out : Seq(Words), seek : BOOLEAN]

WordStep[acc \in WordState] ==
  [word \in Words |->
     IF acc.seek
     THEN [out |-> Append(acc.out, IF word = LineEnd THEN word ELSE "[REDACTED]"),
           seek |-> word = LineEnd]
     ELSE [out |-> Append(acc.out, word), seek |-> word = "session="]]

\* Mutant: the secret must be on the line of its label.
RedactWord_SameLine(text) ==
  LET sameLine == [acc \in WordState |->
                     [word \in Words |-> [WordStep[acc][word] EXCEPT !.seek = @ /\ word # LineEnd]]]
  IN Run(sameLine, [out |-> <<>>, seek |-> FALSE], text).out

RedactWord(text) == Run(WordStep, [out |-> <<>>, seek |-> FALSE], text).out

\* _redact_sensitive_data: one pattern after the other.  The code applies it on arrival and
\* again to make the draft; the second time finds nothing.
Redacted(text) == RedactWord(RedactLine(text))

\* _normalize_text
NormalStep[out \in Seq(Words)] ==
  [word \in Words |-> IF word = LineEnd THEN out ELSE Append(out, word)]

Normalized(text) == Run(NormalStep, <<>>, text)

(***************************************************************************)
(* The draft                                                               *)
(***************************************************************************)
\* The last line goes on or another one begins.
SplitStep[lines \in Seq(Seq(Words))] ==
  [word \in Words |->
     IF word = LineEnd THEN Append(lines, <<>>)
     ELSE [lines EXCEPT ![Len(lines)] = Append(@, word)]]

Lines(text) == Run(SplitStep, << <<>> >>, text)

Fields == [summary : Seq(Words), steps : Seq(Seq(Words)), actual : Seq(Words),
           collecting : BOOLEAN]

\* One line of the loop of _parse_report_fields.
ReadLine[fields \in Fields] ==
  [line \in Seq(Words) |->
     IF line = <<>> THEN fields
     ELSE CASE Head(line) = "summary:" ->
                 [fields EXCEPT !.summary = Tail(line), !.collecting = FALSE]
            [] Head(line) = "actual:" ->
                 [fields EXCEPT !.actual = Tail(line), !.collecting = FALSE]
            [] Head(line) = "steps:" ->
                 [fields EXCEPT !.collecting = TRUE,
                                !.steps = IF Tail(line) = <<>> THEN @ ELSE <<Tail(line)>>]
            [] Head(line) \notin Field ->
                 IF fields.collecting THEN [fields EXCEPT !.steps = Append(@, line)] ELSE fields]

ReadFields(text) ==
  Run(ReadLine, [summary |-> <<>>, steps |-> <<>>, actual |-> <<>>, collecting |-> FALSE],
      Lines(text))

\* Mutant: no default for a missing summary.
ReportFields_NoSummary(text) ==
  LET read == ReadFields(text)
  IN [summary |-> read.summary,
      steps   |-> IF read.steps = <<>> THEN << <<"as described">> >> ELSE read.steps,
      actual  |-> IF read.actual = <<>> THEN Normalized(text) ELSE read.actual]

\* _parse_report_fields: what is missing is filled with the whole text, on one line.
ReportFields(text) ==
  LET read == ReadFields(text)
  IN [summary |-> IF read.summary = <<>> THEN Normalized(text) ELSE read.summary,
      steps   |-> IF read.steps = <<>> THEN << <<"as described">> >> ELSE read.steps,
      actual  |-> IF read.actual = <<>> THEN Normalized(text) ELSE read.actual]

\* The texts of a draft.
Parts(draft) == {draft.summary, draft.actual} \cup ToSet(draft.steps)

\* _validate_report: every field says something, and redaction finds no more in it.
Valid(draft) == \A part \in Parts(draft) : part # <<>> /\ Redacted(part) = part

\* Mutant: the key is made of the summary.
Key_OfSummary(reporter, text) == <<reporter, ReportFields(text).summary>>

\* idempotency_key
Key(reporter, text) == <<reporter, Normalized(text)>>

\* _contains_unsafe_instruction, of the text as it came
Unsafe(text) == "ignore the rules" \in ToSet(text)

(***************************************************************************)
(* The route                                                               *)
(***************************************************************************)
SupportInit ==
  /\ LimiterInit
  /\ reports = [key \in {} |-> None]
  /\ refused = None
  /\ answered = {}

TooMany(reporter) ==
  /\ Deny(reporter)
  /\ refused' = None
  /\ UNCHANGED <<reports, answered>>

\* Mutant: a divergent draft replaces the one there is.
Kept_Replaced(reporter, text, draft) ==
  [key \in DOMAIN reports \cup {Key(reporter, text)} |->
     IF key = Key(reporter, text) THEN draft ELSE reports[key]]

\* The rows after the INSERT, which leaves a row of the same key alone.
Kept(reporter, text, draft) ==
  [key \in DOMAIN reports \cup {Key(reporter, text)} |->
     IF key \in DOMAIN reports THEN reports[key] ELSE draft]

\* draft_problem_report takes the text.
Accepts(text) == ~Unsafe(text) /\ Valid(ReportFields(Redacted(text)))

RefuseText(reporter, text) ==
  /\ Admit(reporter)
  /\ ~Accepts(text)
  /\ refused' = [reporter |-> reporter, text |-> text, code |-> "REQUEST_VALIDATION_FAILED"]
  /\ UNCHANGED <<reports, answered>>

\* get_or_save: the row of the key is this draft, or there is a conflict.
Draft(reporter, text) ==
  LET clean == Redacted(text)
      draft == ReportFields(clean)
      rows  == Kept(reporter, clean, draft)
  IN /\ Admit(reporter)
     /\ Accepts(text)
     /\ reports' = rows
     /\ IF rows[Key(reporter, clean)] = draft
        THEN answered' = answered \cup {<<reporter, draft>>} /\ refused' = None
        ELSE /\ refused' = [reporter |-> reporter, text |-> text, code |-> "SUPPORT_REPORT_CONFLICT"]
             /\ UNCHANGED answered

\* The database fails, before the commit or after it.
FailDraft(reporter, text) ==
  LET clean == Redacted(text)
      draft == ReportFields(clean)
  IN /\ Admit(reporter)
     /\ Accepts(text)
     /\ reports' \in {reports, Kept(reporter, clean, draft)}
     /\ refused' = None
     /\ UNCHANGED answered

SupportElapse == LimiterElapse /\ UNCHANGED <<reports, refused, answered>>

SupportNext ==
  \/ SupportElapse
  \/ \E reporter \in Callers :
       \/ TooMany(reporter)
       \/ \E text \in Texts :
            RefuseText(reporter, text) \/ Draft(reporter, text) \/ FailDraft(reporter, text)

SupportSpec == SupportInit /\ [][SupportNext]_supportVars


(***************************************************************************)
(* Properties                                                              *)
(***************************************************************************)
\* What a player was shown as the draft is the draft on record, also after others, a
\* conflict, or a retry of a call whose commit was not reported
\* (postgres_support_report_repository.py:18-73).
AnsweredDraftsKept ==
  \A a \in answered : \E key \in DOMAIN reports : key[1] = a[1] /\ reports[key] = a[2]

\* No secret after its label reaches the table, in whatever field and on whatever line it
\* stands, and every row would pass its validation again (support_agent.py:298-304,
\* 397-401; postgres_support_report_repository.py:110).
NoSecretKept ==
  \A key \in DOMAIN reports :
    /\ Valid(reports[key])
    /\ \A part \in Parts(reports[key]) : "secret" \notin ToSet(part)

\* A player is never turned away without a reason in his text.  It says an unsafe
\* instruction; or it has a cookie on a line before the last one, which redaction finds
\* again on the joined line, taking everything behind it (support_agent.py:344-350, 400);
\* or it has the words of an earlier report on other lines (support_agent.py:214).  Two
\* problems told in other words never collide, and the same text never with itself.
RefusalsExplained ==
  refused # None =>
    \/ /\ refused.code = "REQUEST_VALIDATION_FAILED"
       /\ \/ Unsafe(refused.text)
          \/ \E i, j \in 1..Len(refused.text) :
               i < j /\ refused.text[i] = "Cookie:" /\ refused.text[j] = LineEnd
    \/ /\ refused.code = "SUPPORT_REPORT_CONFLICT"
       /\ \E text \in Texts, key \in DOMAIN reports :
            /\ Normalized(Redacted(text)) = Normalized(Redacted(refused.text))
            /\ Lines(Redacted(text)) # Lines(Redacted(refused.text))
            /\ key[1] = refused.reporter /\ reports[key] = ReportFields(Redacted(text))

=============================================================================
