----------------------------- MODULE MCPattern -----------------------------
EXTENDS Pattern

\* The third chapter has no text, the others fill a batch each.
MCTokens == <<4, 5, 0>>

\* A blank block, a small one, one above the final budget, and two.
MCBlocks == {<<0>>, <<6>>, <<0, 4, 5>>}
=============================================================================
