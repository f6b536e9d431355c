-------------------------- MODULE MCCallLifecycle --------------------------
(* CallLifecycle on small sets of calls and session objects.               *)
EXTENDS CallLifecycle, TLC

Symmetry == Permutations(Calls) \cup Permutations(Sessions)

\* Objects nothing refers to are garbage: their fields do not matter.
ReachableState ==
    <<[s \in Sessions |-> IF Free(s) THEN NewSession ELSE session[s]],
      store, record, hook, status, phase, posted, failed>>

=============================================================================
