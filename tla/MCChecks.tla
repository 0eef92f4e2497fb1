------------------------------ MODULE MCChecks ------------------------------
EXTENDS Windows

\* Somebody is there, with and without action; a chapter that tells a promise.
MCBodies ==
  {[people |-> {"ann"}, action |-> FALSE, promised |-> FALSE],
   [people |-> {"ann", "bob"}, action |-> TRUE, promised |-> FALSE],
   [people |-> {"bob"}, action |-> FALSE, promised |-> TRUE]}

\* A paragraph twice, as one line and as part of another.
MCTexts == {<<"a", "", "-", "", "a">>, <<"#", "", "a", "b", "", "b">>}

\* A volume that ends before the last chapter, two volumes one after the other, none.
MCPlans ==
  {[volumes |-> <<[start |-> 1, end |-> 3, promised |-> {2, 3}]>>, beats |-> <<2, 4>>],
   [volumes |-> <<[start |-> 1, end |-> 2, promised |-> {2}],
                  [start |-> 3, end |-> 4, promised |-> {3}]>>, beats |-> <<2, 3>>],
   [volumes |-> << >>, beats |-> << >>]}

\* One of each is planned for the end.
MCTargets == <<2, 4>>
=============================================================================
