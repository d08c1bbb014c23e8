---------------------------- MODULE MCIndexDrain ----------------------------
EXTENDS IndexDrain, TLC

CONSTANTS a, b, c

\* a is split in three segments, the others are short.
MCSegments == [id \in Messages |-> IF id = a THEN 3 ELSE 1]
=============================================================================
