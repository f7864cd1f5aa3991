------------------------- MODULE MCReplaceContainer -------------------------
EXTENDS ReplaceContainer, TLC

\* Creations are made from one page, twice if the button is clicked twice; each
\* recreation has a page of its own.
OnePage == [p \in Calls |-> IF p \in Creates THEN "containers.new" ELSE p]
PagesUsed == {OnePage[p] : p \in Calls}
=============================================================================
