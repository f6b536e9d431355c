--------------------------- MODULE CircuitBreaker ---------------------------
(***************************************************************************)
(* What BackendClient's breaker promises to the requests that share it,    *)
(* whatever their retries and the clock do: attempts are sent unless the   *)
(* circuit is open; it opens at Threshold failures with no success between *)
(* and is half open some time later; the first attempt sent then closes it *)
(* at once, without waiting for an answer.  BackendCircuit implements this.*)
(***************************************************************************)
EXTENDS Naturals

CONSTANTS
    Ops,       \* operations that may run at the same time
    Threshold  \* failures that open the circuit

VARIABLES
    mode,    \* closed, open, or half open: open, but its time has passed
    streak,  \* failures since the last success or closing
    flight   \* operations with an attempt that is not answered

breaker == <<mode, streak, flight>>

BreakerInit == mode = "closed" /\ streak = 0 /\ flight = {}

\* An attempt is let through.
Let(o) ==
    /\ mode # "open" /\ o \notin flight
    /\ flight' = flight \cup {o}
    /\ mode' = "closed"
    /\ streak' = IF mode = "closed" THEN streak ELSE 0

\* Any success closes the circuit, one sent before it opened too.
Works(o) ==
    /\ o \in flight
    /\ flight' = flight \ {o}
    /\ mode' = "closed" /\ streak' = 0

\* A failure is one more, and opens the circuit, also anew, at the threshold.
Breaks(o) ==
    /\ o \in flight
    /\ flight' = flight \ {o}
    /\ streak' = streak + 1
    /\ mode' = IF streak + 1 >= Threshold THEN "open" ELSE "closed"

Elapse ==
    /\ mode = "open"
    /\ mode' = "half open"
    /\ UNCHANGED <<streak, flight>>

BreakerNext == Elapse \/ \E o \in Ops : Let(o) \/ Works(o) \/ Breaks(o)

BreakerSpec == BreakerInit /\ [][BreakerNext]_breaker

=============================================================================
