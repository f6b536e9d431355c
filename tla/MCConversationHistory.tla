----------------------- MODULE MCConversationHistory -----------------------
(* ConversationHistory on one or two coroutines and a window of a few      *)
(* messages.                                                               *)
EXTENDS ConversationHistory, TLC

Symmetry == Permutations(Turns)

=============================================================================
