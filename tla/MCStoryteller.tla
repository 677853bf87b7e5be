---------------------------- MODULE MCStoryteller ----------------------------
EXTENDS Storyteller

CONSTANTS ann, ben, stranger

MCWords == {ann, ben, stranger, "opening", "word", ".", "...", "next scene", "template"}
MCExpected == <<ann, ben>>
MCOpening  == <<"opening">>

Fine == [error |-> None, stop |-> "tool_use", blocks |-> 1, tool |-> Round, shaped |-> TRUE,
         consequences |-> <<>>, narrative |-> <<"word">>]

Of(players) == [i \in DOMAIN players |-> [player |-> players[i], says |-> <<players[i]>>]]

\* The errors of the service, every list of up to three players, narratives that say what
\* is said again elsewhere before or behind the cut, or start over, and one answer for each
\* way not to call the tool.
MCAnswers ==
  LET Good == [Fine EXCEPT !.consequences = Of(<<ben, ann>>)]
  IN {[Fine EXCEPT !.error = error] :
        error \in {"AccessDeniedException", "ValidationException", "GuardrailException",
                   "ThrottlingException", "ReadTimeoutError", "ServiceUnavailableException"}}
     \cup {[Fine EXCEPT !.consequences = Of(players)] :
             players \in UNION {[1..n -> {ann, ben, stranger}] : n \in 0..3}}
     \cup {[Good EXCEPT !.narrative = narrative] :
             narrative \in {<<>>, <<"opening">>, <<"opening", "word">>, <<ben, ".", ann>>,
                            <<"word", "word", ".", ann, "word">>, <<"word", "word", "word", ".", ann>>,
                            <<"word", "word", "word", "word", ".">>}}
     \cup {[Good EXCEPT !.stop = stop] : stop \in {"max_tokens", "guardrail_intervened"}}
     \cup {[Good EXCEPT !.blocks = 2], [Good EXCEPT !.shaped = FALSE], [Good EXCEPT !.tool = Ending],
           [Good EXCEPT !.consequences[1].says = <<>>]}

=============================================================================
