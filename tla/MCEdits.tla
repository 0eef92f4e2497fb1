------------------------------ MODULE MCEdits ------------------------------
EXTENDS Chunks

\* Texts of at most two characters are searched for, with every blank around a letter.
MCSearches ==
  BoundedSeq({"a", "quote", "nl"}, 2) \cup {<<"curly">>, <<" ">>, <<"a", " ">>, <<"nl", "a", "nl">>, <<"a", "nl", ".">>}

\* Nothing, the end of a sentence, a blank, a quote and two lines.
MCContents == {<< >>, <<".">>, <<" ">>, <<"curly">>, <<"a", "nl", "quote">>}
=============================================================================
