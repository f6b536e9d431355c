--------------------------- MODULE MCAgentContext ---------------------------
(* AgentContext with two businesses of different owners.                   *)
EXTENDS AgentContext, TLC

CONSTANTS a1, a2, t1, t2, o1, o2

MCAgents == {a1, a2}
MCLocalAgents == {a2}
MCOwnerOf == a1 :> o1 @@ a2 :> o2
MCTurns == {t1, t2}
\* Items are taken one by one, so answers of one item show what becomes of it.
MCAnswers == {{[of |-> a2, keys |-> {o2}]}}
Symmetry == Permutations(Turns)

=============================================================================
