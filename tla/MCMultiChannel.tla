--------------------------- MODULE MCMultiChannel ---------------------------
(* The deployments of MultiChannel that are checked.                         *)
EXTENDS MultiChannel

Deployment(s, c) == [scheme |-> s, callers |-> c]

\* scheme7, which system.ini.example recommends, with every kind of caller, and
\* scheme8, which it sets, with the callers that do not ask about an address.
SoundDeployments == {Deployment(7, CallerKinds), Deployment(8, {"any", "retry"})}

\* scheme8 with callers that ask about an address, as MARSS does.
AskedByAddress == {Deployment(8, {"address"})}
=============================================================================
