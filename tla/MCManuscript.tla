---------------------------- MODULE MCManuscript ----------------------------
EXTENDS Manuscript

Of(match, len) == [match |-> match, len |-> len, blank |-> FALSE]
Blank == [match |-> {}, len |-> 1, blank |-> TRUE]
Text  == Of({}, 9)

\* A prologue (pattern 3) and a numbered heading (1, and so 2) under a foreword; two
\* headings and a mention of one just after; a mention in a long line; no heading; two
\* headings in a text so long that the model is asked.
MCFiles == {
  <<Text, Of({3}, 2), Text, Blank, Of({1, 2}, 3), Text>>,
  <<Of({1, 2}, 3), Of({2}, 4), Text, Of({1, 2}, 3), Text, Blank>>,
  <<Of({1, 2}, 3), Text, Of({2}, 20), Of({2}, 5), Blank>>,
  <<Blank, Text>>,
  <<Of({1, 2}, 3), Of({}, 14), Of({}, 5), Of({1, 2}, 3), Of({}, 14), Blank, Of({}, 14), Blank>>}

\* A chapter, an item without a file, one without text.
MCSpines == {<<[read |-> TRUE, lines |-> <<1>>], [read |-> FALSE, lines |-> << >>],
               [read |-> TRUE, lines |-> << >>], [read |-> TRUE, lines |-> <<2, 3>>]>>}

MCContinued == MCSpines

MCContents == {<< >>, <<0>>}
=============================================================================
