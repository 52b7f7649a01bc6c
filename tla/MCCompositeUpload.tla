------------------------- MODULE MCCompositeUpload -------------------------
EXTENDS CompositeUpload

CONSTANTS r1, r2

\* Two requests that differ in what they ask for.
Distinct == [r \in Request |-> IF r = r1 THEN "upload" ELSE "other"]

\* A third operation is followed while one of the budget is left.
Bounded == minted < 3 \/ spent < 2

=============================================================================
