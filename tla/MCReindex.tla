----------------------------- MODULE MCReindex -----------------------------
\* Instances of Reindex: the tree's second change names a definition, or both do.
EXTENDS Reindex

SecondGated == {2}
BothGated == {1, 2}
============================================================================
