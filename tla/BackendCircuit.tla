--------------------------- MODULE BackendCircuit ---------------------------
(***************************************************************************)
(* BackendClient's _get and _post as the coroutines of one client share    *)
(* them: every attempt asks the circuit breaker, sends, and reports what   *)
(* came back to the breaker; tenacity repeats an operation after a         *)
(* timeout, a 429 or a 5xx.  There is no await between _ensure_circuit and *)
(* the send, nor between the answer and the breaker's update, so an        *)
(* attempt is two actions.                                                 *)
(***************************************************************************)
EXTENDS Integers, FiniteSets

CONSTANTS
    Ops,          \* _get and _post operations that may run at the same time
    Threshold,    \* failures that open the circuit (3)
    Cooldown,     \* ticks an opened circuit refuses attempts (30 seconds)
    BackoffSpan,  \* ticks tenacity waits at most before a retry (2 seconds)
    MaxAttempts,  \* stop_after_attempt (3)
    None          \* circuit_open_until of a circuit that was not opened

ASSUME CircuitAssumption ==
    /\ IsFiniteSet(Ops)
    /\ Threshold \in Nat \ {0} /\ MaxAttempts \in Nat \ {0}
    /\ Cooldown \in Nat /\ BackoffSpan \in Nat /\ BackoffSpan < Cooldown
    /\ None \notin Nat

VARIABLES
    failures,  \* failure_count
    open,      \* what is left of circuit_open_until: 0 once it has passed
    op         \* the operations

circuit == <<failures, open>>
vars == <<failures, open, op>>

\* An operation waits for an answer (sending) or for its next attempt (backoff).
Op == [pc : {"idle", "sending", "backoff"}, attempt : 1..MaxAttempts,
       waited : 0..BackoffSpan, result : {"none", "ok", "failed", "refused"}]
NewOp == [pc |-> "idle", attempt |-> 1, waited |-> 0, result |-> "none"]

TypeOK ==
    /\ failures \in Nat
    /\ open \in 0..Cooldown \cup {None}
    /\ op \in [Ops -> Op]

Init ==
    /\ failures = 0
    /\ open = None
    /\ op = [o \in Ops |-> NewOp]

-----------------------------------------------------------------------------
(* The breaker.                                                            *)

Refuses == open \notin {0, None}

\* Mistakes: an operation asks the circuit before its first attempt only; the
\* deadline is compared off by one tick.
EnsureOnce(o) ==
    /\ Refuses => op[o].pc = "backoff"
    /\ IF open = 0 THEN failures' = 0 /\ open' = None ELSE UNCHANGED circuit

EnsureEarly(o) ==
    /\ open \notin 2..Cooldown
    /\ IF open \in {0, 1} THEN failures' = 0 /\ open' = None ELSE UNCHANGED circuit

\* _ensure_circuit lets operation o's attempt through, and closes a circuit
\* whose time has passed.
Ensure(o) ==
    /\ ~Refuses
    /\ IF open = 0 THEN failures' = 0 /\ open' = None ELSE UNCHANGED circuit

\* Mistake: a circuit that is open already keeps its deadline.
RecordFailureOnce ==
    /\ failures' = failures + 1
    /\ open' = IF failures + 1 >= Threshold /\ open = None THEN Cooldown ELSE open

\* _record_failure: also a failure that comes in late counts, and sets the
\* deadline of an open circuit anew.
RecordFailure ==
    /\ failures' = failures + 1
    /\ open' = IF failures + 1 >= Threshold THEN Cooldown ELSE open

\* Mistake: a success forgets the deadline but not the failures.
RecordSuccessUncounted == open' = None /\ UNCHANGED failures

\* _record_success: also a success that comes in late closes the circuit.
RecordSuccess == failures' = 0 /\ open' = None

-----------------------------------------------------------------------------
(* The operations.                                                         *)

Send(o, n) == op' = [op EXCEPT ![o] = [pc |-> "sending", attempt |-> n, waited |-> 0,
                                       result |-> "none"]]

End(o, result) == op' = [op EXCEPT ![o] = [NewOp EXCEPT !.result = result]]

\* The first attempt of an operation.
Begin(o) ==
    /\ op[o].pc = "idle"
    /\ Ensure(o)
    /\ Send(o, 1)

\* The next attempt, when the backoff is over.
Retry(o) ==
    /\ op[o].pc = "backoff"
    /\ Ensure(o)
    /\ Send(o, op[o].attempt + 1)

\* Mistake: the refusal is recorded like a failed request.
RefusedAsFailure(o) ==
    /\ op[o].pc \in {"idle", "backoff"}
    /\ Refuses
    /\ failures' = failures /\ open' = Cooldown
    /\ End(o, "refused")

\* "Backend circuit is open" is no HTTPError: it is not recorded and, at a
\* retry, not retried, so it replaces the error that was.
Refused(o) ==
    /\ op[o].pc \in {"idle", "backoff"}
    /\ Refuses
    /\ End(o, "refused")
    /\ UNCHANGED circuit

\* A 2xx answer.
Succeeds(o) ==
    /\ op[o].pc = "sending"
    /\ RecordSuccess
    /\ End(o, "ok")

\* A connection error or a 4xx other than 429: also an unknown agent or
\* booking (404) counts against the circuit.
FailsForGood(o) ==
    /\ op[o].pc = "sending"
    /\ RecordFailure
    /\ End(o, "failed")

\* A timeout, a 429 or a 5xx: retried, unless this was the last attempt.
Fails(o) ==
    /\ op[o].pc = "sending"
    /\ RecordFailure
    /\ \/ op[o].attempt < MaxAttempts /\ op' = [op EXCEPT ![o] = [@ EXCEPT !.pc = "backoff"]]
       \/ op[o].attempt = MaxAttempts /\ End(o, "failed")

\* Time passes, and no backoff outlasts BackoffSpan.
Tick ==
    /\ \A o \in Ops : op[o].pc = "backoff" => op[o].waited < BackoffSpan
    /\ open' = IF Refuses THEN open - 1 ELSE open
    /\ op' = [o \in Ops |-> IF op[o].pc = "backoff" THEN [op[o] EXCEPT !.waited = @ + 1] ELSE op[o]]
    /\ UNCHANGED failures

Answered(o) == Succeeds(o) \/ FailsForGood(o) \/ Fails(o)
Again(o) == op[o].pc = "backoff" /\ (Retry(o) \/ Refused(o))

Next ==
    \/ \E o \in Ops : Begin(o) \/ Retry(o) \/ Refused(o) \/ Answered(o)
    \/ Tick

Spec == Init /\ [][Next]_vars

\* Requests time out, tenacity's sleeps end, time goes on; nobody has to begin
\* an operation.
Fairness ==
    /\ WF_vars(Tick)
    /\ \A o \in Ops : WF_vars(Answered(o)) /\ WF_vars(Again(o))
FairSpec == Spec /\ Fairness

-----------------------------------------------------------------------------
(* Properties.                                                             *)

\* The two fields of the breaker agree, however many coroutines update them:
\* a deadline is set exactly when the threshold is reached, so a circuit can
\* neither stay open without failures nor fail on without opening.
OpenAtThreshold == open # None <=> failures >= Threshold

\* Opening stops the traffic: only requests already in flight can fail on top
\* of the threshold, no retry of theirs gets out.
LateFailuresBounded == failures <= Threshold - 1 + Cardinality(Ops)

\* The probe that closes a circuit whose time has passed is a new operation's:
\* an operation in its backoff never finds the deadline behind it, so a
\* failing operation does not close the circuit it helped to open.
NoRetryProbes == \A o \in Ops : op[o].pc = "backoff" => open # 0

\* With nothing in flight an open circuit is left to time alone: nobody sends,
\* and it neither closes nor opens anew before its deadline.
QuietCircuitHolds ==
    [][Refuses /\ (\A o \in Ops : op[o].pc # "sending")
         => /\ \A o \in Ops : op'[o].pc # "sending"
            /\ open' \in {open, open - 1}]_vars

Sending == {o \in Ops : op[o].pc = "sending"}

\* The two fields, of which none says "half open", make a circuit breaker of all
\* operations at once, whatever order their answers, retries and refusals have.
Breaker == INSTANCE CircuitBreaker WITH
    mode <- IF open = None THEN "closed" ELSE IF open = 0 THEN "half open" ELSE "open",
    streak <- failures, flight <- Sending
ImplementsBreaker == Breaker!BreakerSpec

\* However failures keep coming in and whatever callers try, an open circuit
\* lets attempts through again in the end.
CircuitRecovers == open # None ~> open \in {0, None}

-----------------------------------------------------------------------------
(* The inductive invariant behind the safety properties.                   *)

\* What may still fail counts as if it had.
FlightInv == failures >= Threshold =>
    failures + Cardinality(Sending) <= Threshold - 1 + Cardinality(Ops)

\* A backoff is shorter than what is left of a deadline set meanwhile.
BackoffInv == \A o \in Ops :
    op[o].pc = "backoff" /\ open # None => open >= Cooldown - op[o].waited

IInv == TypeOK /\ OpenAtThreshold /\ FlightInv /\ BackoffInv

=============================================================================
