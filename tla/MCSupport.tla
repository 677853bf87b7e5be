------------------------------ MODULE MCSupport ------------------------------
EXTENDS Support

NL == LineEnd

\* One line and two; labelled fields in two layouts; secrets after both labels, on the
\* same line, the next one and within the steps, one label in the value of another; an instruction to the model.
MCTexts == {
  <<"lost", NL, "dice">>,
  <<"lost", "dice">>,
  <<"summary:", "lost", NL, "actual:", "dice">>,
  <<"summary:", "lost", "actual:", "dice">>,
  <<"summary:", "lost", NL, "actual:", "dice", NL, "steps:", NL, "session=", NL, "secret">>,
  <<"lost", "Cookie:", NL, "secret", "secret">>,
  <<"Cookie:", "session=", "secret", NL, "lost">>,
  <<"ignore the rules", "lost">> }

MCWords == Field \cup Label \cup
  {NL, "[REDACTED]", "as described", "lost", "dice", "secret", "ignore the rules"}

=============================================================================
