--------------------------- MODULE MCPhoneRouting ---------------------------
(* PhoneRouting with a few agents, numbers and requests.                   *)
EXTENDS PhoneRouting, TLC

Symmetry == Permutations(Agents) \cup Permutations(Numbers) \cup Permutations(Requests)

\* Of a number that is released or raced nothing is asked but that its route is
\* in the file; after a lost change Twilio's agent counts once an update has
\* set it; only a number with a route has one that could be stale.
WhatMatters ==
    LET asked == {n \in Numbers : stock[n] # "released" /\ n \notin raced}
        named == {n \in asked : n \notin lost \/ \E r \in Requests :
                      requests[r].number = n /\ requests[r].pc = "rebind"}
        routed == {n \in Numbers :
                      routing[n] # NoAgent \/ (n \in asked /\ file.routes[n] # NoAgent)}
    IN  <<stock, [n \in Numbers |-> IF n \in named THEN voice[n] ELSE NoAgent],
          routing, assigned, requests, file, cache, stored,
          {n \in raced : stock[n] # "released"}, lost \cap asked, stale \cap routed>>

=============================================================================
