---------------------------- MODULE MCOnboarding ---------------------------
(* One item that cannot be emptied and one that can, two turns at a time,  *)
(* and a session for each of them besides the current one.                 *)
EXTENDS Onboarding

Symmetry == Permutations(Sessions) \cup Permutations(Turns)

\* No step depends on the last answer: states that differ in nothing but answers
\* on which the properties agree count as one.
WhatMatters ==
    <<current, collected, complete, malformed, turn, told, OBTypeOK, ConfigIsOwn>>
=============================================================================
