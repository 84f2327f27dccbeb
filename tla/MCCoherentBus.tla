--------------------------- MODULE MCCoherentBus ---------------------------
(* Small instances of CoherentBus.                                          *)
EXTENDS CoherentBus

CONSTANTS a, b          \* lines

\* A cache with one frame, which holds line l in state s.
Has(l, s) == [x \in Line |-> IF x = l THEN s ELSE "absent"]

\* What earlier requests, taken one at a time, leave behind in two caches: one
\* owner each, a shared line, a line that was taken back, and a modified line
\* that a request for the other one evicts.
TwoCaches ==
    {<<Has(a, "M"), Has(b, "E")>>, <<Has(a, "S"), Has(a, "S")>>,
     <<Has(a, "E"), Has(a, "I")>>, <<Has(b, "M"), Has(a, "S")>>}

Ask(c, type, l) == [cache |-> c, type |-> type, line |-> l]

\* Requests for the line both caches want, and for the one that evicts it.
Contended ==
    {Ask(1, "WRITE", a), Ask(1, "UPDATE", a), Ask(1, "READ", b),
     Ask(2, "READ", a), Ask(2, "WRITE", a), Ask(2, "UPDATE", b)}

\* A line that two caches share and a third one is about to write.
TwoReaders == {<<Has(a, "absent"), Has(a, "S"), Has(a, "S")>>}
OneWriter  == {Ask(1, "WRITE", a)}
=============================================================================
