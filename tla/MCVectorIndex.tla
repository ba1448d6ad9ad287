---------------------------- MODULE MCVectorIndex ----------------------------
\* Two embedding models: a known one, and one the table of known models does not have,
\* whose vectors are narrower than the default width it is given.
EXTENDS VectorIndex

CONSTANTS known, unknown

MCWidth == [m \in Model |-> 1]
MCTableWidth == [m \in Model |-> IF m = unknown THEN 2 ELSE 1]
=============================================================================
