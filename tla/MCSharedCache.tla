--------------------------- MODULE MCSharedCache ---------------------------
(* A small instance of SharedCache: three lines compete for one frame.      *)
EXTENDS SharedCache

CONSTANTS a, b, c

\* The frame holds a line that must be written back before it is replaced.
OneModified == [l \in Line |-> IF l = a THEN "modified" ELSE "absent"]

\* Every type misses and, later, hits on b; a is read while it is replaced; the
\* write-back of c takes room from the write-back of a.
Messages == [type : Type, line : {b}]
            \cup {[type |-> "READ", line |-> a], [type |-> "UPDATE", line |-> c]}
=============================================================================
