------------------------ MODULE BackendCircuitProofs ------------------------
(***************************************************************************)
(* Proofs about BackendCircuit, for any finite set of operations and any   *)
(* threshold, cooldown and number of attempts, as long as a backoff is     *)
(* shorter than the cooldown.                                              *)
(***************************************************************************)
EXTENDS BackendCircuit, FiniteSetTheorems, TLAPS

\* The updates of an operation stay in its type, and say where it is then.
LEMMA OpUpdates ==
    /\ NewOp \in Op /\ NewOp.pc = "idle"
    /\ \A r \in {"ok", "failed", "refused"} :
         [NewOp EXCEPT !.result = r] \in Op /\ [NewOp EXCEPT !.result = r].pc = "idle"
    /\ \A n \in 1..MaxAttempts :
         [pc |-> "sending", attempt |-> n, waited |-> 0, result |-> "none"] \in Op
    /\ \A x \in Op :
         /\ [x EXCEPT !.pc = "backoff"] \in Op
         /\ [x EXCEPT !.pc = "backoff"].pc = "backoff"
  BY CircuitAssumption DEF Op, NewOp

\* The attempt counter of an operation in its backoff is below the limit.
Counted == \A o \in Ops : op[o].pc = "backoff" => op[o].attempt < MaxAttempts

Inv == IInv /\ Counted

LEMMA InvInit == Init => Inv
  <1> SUFFICES ASSUME Init PROVE Inv
    OBVIOUS
  <1>1. TypeOK
    BY OpUpdates DEF Init, TypeOK
  <1>2. OpenAtThreshold /\ FlightInv /\ BackoffInv /\ Counted
    BY CircuitAssumption, OpUpdates
    DEF Init, OpenAtThreshold, FlightInv, BackoffInv, Counted, Sending
  <1>3. QED
    BY <1>1, <1>2 DEF Inv, IInv

\* How many operations are sending, after one of them got its answer.
LEMMA SendingShrinks ==
    ASSUME NEW o \in Ops, op[o].pc = "sending", Sending' = Sending \ {o}
    PROVE  /\ Cardinality(Sending) \in Nat /\ Cardinality(Ops) \in Nat
           /\ Cardinality(Sending') = Cardinality(Sending) - 1
           /\ Cardinality(Sending) <= Cardinality(Ops)
  <1>1. IsFiniteSet(Ops) /\ Sending \subseteq Ops /\ o \in Sending
    BY CircuitAssumption DEF Sending
  <1>2. QED
    BY <1>1, FS_Subset, FS_RemoveElement, FS_CardinalityType

\* A recorded failure keeps the breaker's invariant: the operation that failed
\* is no longer in flight.
LEMMA FailureKeeps ==
    ASSUME Inv, NEW o \in Ops, op[o].pc = "sending", RecordFailure, Sending' = Sending \ {o}
    PROVE  OpenAtThreshold' /\ FlightInv'
  <1>1. failures \in Nat /\ open \in 0..Cooldown \cup {None} /\ OpenAtThreshold /\ FlightInv
    BY DEF Inv, IInv, TypeOK
  <1>2. OpenAtThreshold'
    BY <1>1, CircuitAssumption DEF RecordFailure, OpenAtThreshold
  <1>3. FlightInv'
    <2>1. failures' = failures + 1
      BY DEF RecordFailure
    <2>2. CASE failures >= Threshold
      BY <1>1, <2>1, <2>2, SendingShrinks, CircuitAssumption DEF FlightInv
    <2>3. CASE failures < Threshold
      <3>1. failures + 1 >= Threshold => failures + 1 = Threshold
        BY <1>1, <2>3, CircuitAssumption
      <3>2. Threshold + (Cardinality(Sending) - 1) <= Threshold - 1 + Cardinality(Ops)
        BY SendingShrinks, CircuitAssumption
      <3>3. QED
        BY <2>1, <3>1, <3>2, SendingShrinks DEF FlightInv
    <2>4. QED
      BY <1>1, <2>2, <2>3, CircuitAssumption
  <1>4. QED
    BY <1>2, <1>3

LEMMA InvStep == Inv /\ [Next]_vars => Inv'
  <1> SUFFICES ASSUME Inv, [Next]_vars PROVE Inv'
    OBVIOUS
  <1>a. /\ failures \in Nat /\ open \in 0..Cooldown \cup {None} /\ op \in [Ops -> Op]
        /\ OpenAtThreshold /\ FlightInv /\ BackoffInv /\ Counted
    BY DEF Inv, IInv, TypeOK
  \* A step that starts an attempt.
  <1>1. ASSUME NEW o \in Ops, Begin(o) \/ Retry(o) PROVE Inv'
    <2>1. /\ op' = [op EXCEPT ![o] = op'[o]] /\ op'[o] \in Op /\ op'[o].pc = "sending"
      <3>1. CASE Begin(o)
        BY <3>1, <1>a, OpUpdates, CircuitAssumption DEF Begin, Send
      <3>2. CASE Retry(o)
        <4>1. op[o] \in Op /\ op[o].attempt < MaxAttempts
          BY <3>2, <1>a DEF Retry, Counted
        <4>2. op[o].attempt + 1 \in 1..MaxAttempts
          BY <4>1, CircuitAssumption DEF Op
        <4>3. QED
          BY <3>2, <4>2, <1>a, OpUpdates DEF Retry, Send
      <3>3. QED
        BY <1>1, <3>1, <3>2
    <2>2. /\ failures' \in Nat /\ open' = None /\ failures' < Threshold
      BY <1>1, <1>a, CircuitAssumption DEF Begin, Retry, Ensure, Refuses, circuit, OpenAtThreshold
    <2>3. TypeOK' /\ OpenAtThreshold' /\ FlightInv' /\ BackoffInv' /\ Counted'
      BY <2>1, <2>2, <1>a, CircuitAssumption
      DEF TypeOK, OpenAtThreshold, FlightInv, BackoffInv, Counted
    <2>4. QED
      BY <2>3 DEF Inv, IInv
  <1>2. ASSUME NEW o \in Ops, Refused(o) PROVE Inv'
    <2>1. /\ op' = [op EXCEPT ![o] = op'[o]] /\ op'[o] \in Op /\ op'[o].pc = "idle"
          /\ failures' = failures /\ open' = open
      BY <1>2, <1>a, OpUpdates DEF Refused, End, circuit
    <2>2. Sending' = Sending
      BY <1>2, <2>1, <1>a DEF Sending, Refused
    <2>3. TypeOK' /\ OpenAtThreshold' /\ FlightInv' /\ BackoffInv' /\ Counted'
      BY <2>1, <2>2, <1>a DEF TypeOK, OpenAtThreshold, FlightInv, BackoffInv, Counted
    <2>4. QED
      BY <2>3 DEF Inv, IInv
  <1>3. ASSUME NEW o \in Ops, Succeeds(o) PROVE Inv'
    <2>1. /\ op' = [op EXCEPT ![o] = op'[o]] /\ op'[o] \in Op /\ op'[o].pc = "idle"
          /\ failures' = 0 /\ open' = None
      BY <1>3, <1>a, OpUpdates DEF Succeeds, End, RecordSuccess
    <2>2. TypeOK' /\ OpenAtThreshold' /\ FlightInv' /\ BackoffInv' /\ Counted'
      BY <2>1, <1>a, CircuitAssumption
      DEF TypeOK, OpenAtThreshold, FlightInv, BackoffInv, Counted
    <2>3. QED
      BY <2>2 DEF Inv, IInv
  \* A step that ends an attempt with a failure.
  <1>4. ASSUME NEW o \in Ops, FailsForGood(o) \/ Fails(o) PROVE Inv'
    <2>1. /\ op' = [op EXCEPT ![o] = op'[o]] /\ op'[o] \in Op /\ op'[o].pc \in {"idle", "backoff"}
          /\ op'[o].pc = "backoff" => op'[o].attempt < MaxAttempts
          /\ RecordFailure /\ op[o].pc = "sending"
      <3>1. CASE op' = [op EXCEPT ![o] = [NewOp EXCEPT !.result = "failed"]]
        BY <3>1, <1>4, <1>a, OpUpdates DEF FailsForGood, Fails
      <3>2. CASE op[o].attempt < MaxAttempts /\ op' = [op EXCEPT ![o] = [@ EXCEPT !.pc = "backoff"]]
        <4>1. op'[o] = [op[o] EXCEPT !.pc = "backoff"] /\ op[o] \in Op
          BY <3>2, <1>a
        <4>2. op'[o].attempt = op[o].attempt /\ op'[o].pc = "backoff" /\ op'[o] \in Op
          BY <4>1 DEF Op
        <4>3. QED
          BY <3>2, <4>1, <4>2, <1>4, <1>a DEF FailsForGood, Fails
      <3>3. QED
        BY <1>4, <3>1, <3>2 DEF FailsForGood, Fails, End
    <2>2. Sending' = Sending \ {o}
      BY <2>1, <1>a DEF Sending
    <2>3. OpenAtThreshold' /\ FlightInv'
      BY <2>1, <2>2, FailureKeeps
    <2>4. failures' \in Nat /\ open' \in {None, Cooldown} \cup 0..Cooldown /\
          (open' # None => open' = Cooldown)
      BY <2>1, <1>a, CircuitAssumption DEF RecordFailure, OpenAtThreshold
    <2>5. TypeOK' /\ Counted'
      BY <2>1, <2>4, <1>a, CircuitAssumption DEF TypeOK, Counted
    <2>6. BackoffInv'
      <3>1. \A p \in Ops : op'[p].waited \in Nat
        BY <2>5, CircuitAssumption DEF TypeOK, Op
      <3>2. QED
        BY <2>4, <3>1, CircuitAssumption DEF BackoffInv
    <2>7. QED
      BY <2>3, <2>5, <2>6 DEF Inv, IInv
  <1>5. CASE Tick
    <2>1. /\ failures' = failures
          /\ open' \in 0..Cooldown \cup {None}
          /\ open' = None <=> open = None
          /\ open # None => open' >= open - 1
      BY <1>5, <1>a, CircuitAssumption DEF Tick, Refuses
    <2>2. ASSUME NEW o \in Ops
          PROVE  /\ op'[o] \in Op /\ op'[o].pc = op[o].pc /\ op'[o].attempt = op[o].attempt
                 /\ op[o].pc = "backoff" => op'[o].waited = op[o].waited + 1
      <3>1. CASE op[o].pc = "backoff"
        <4>1. op[o] \in Op /\ op[o].waited < BackoffSpan
          BY <1>5, <3>1, <1>a DEF Tick
        <4>2. op'[o] = [op[o] EXCEPT !.waited = @ + 1]
          BY <1>5, <3>1 DEF Tick
        <4>3. QED
          BY <4>1, <4>2, CircuitAssumption DEF Op
      <3>2. CASE op[o].pc # "backoff"
        BY <1>5, <3>2, <1>a DEF Tick
      <3>3. QED
        BY <3>1, <3>2
    <2>3. op' \in [Ops -> Op]
      BY <1>5, <2>2 DEF Tick
    <2>4. Sending' = Sending
      BY <2>2 DEF Sending
    <2>5. TypeOK' /\ OpenAtThreshold' /\ FlightInv' /\ Counted'
      BY <2>1, <2>2, <2>3, <2>4, <1>a DEF TypeOK, OpenAtThreshold, FlightInv, Counted
    <2>6. BackoffInv'
      <3>1. \A p \in Ops : op[p].waited \in Nat
        BY <1>a, CircuitAssumption DEF Op
      <3>2. QED
        BY <2>1, <2>2, <3>1, <1>a, CircuitAssumption DEF BackoffInv
    <2>7. QED
      BY <2>5, <2>6 DEF Inv, IInv
  <1>6. CASE UNCHANGED vars
    BY <1>6 DEF vars, Inv, IInv, TypeOK, OpenAtThreshold, FlightInv, BackoffInv, Counted, Sending
  <1>7. QED
    BY <1>1, <1>2, <1>3, <1>4, <1>5, <1>6 DEF Next, Answered

THEOREM Invariance == Spec => []Inv
  BY InvInit, InvStep, PTL DEF Spec

-----------------------------------------------------------------------------
(* The safety properties.                                                  *)

\* Type correctness: the breaker's two fields and every operation.
THEOREM CircuitTypes == Spec => []TypeOK
  BY Invariance, PTL DEF Inv, IInv

\* A deadline is set exactly when the threshold is reached.
THEOREM CircuitOpensAtThreshold == Spec => []OpenAtThreshold
  BY Invariance, PTL DEF Inv, IInv

\* No more failures than the threshold and the requests in flight.
THEOREM FailuresAreBounded == Spec => []LateFailuresBounded
  <1>1. ASSUME Inv PROVE LateFailuresBounded
    <2>1. Cardinality(Ops) \in Nat /\ Cardinality(Sending) \in Nat
      <3>1. IsFiniteSet(Sending)
        BY CircuitAssumption, FS_Subset DEF Sending
      <3>2. QED
        BY <3>1, CircuitAssumption, FS_CardinalityType
    <2>2. QED
      BY <1>1, <2>1, CircuitAssumption DEF Inv, IInv, TypeOK, FlightInv, LateFailuresBounded
  <1>2. QED
    BY <1>1, Invariance, PTL

\* A retry never closes a circuit whose time has passed.
THEOREM RetriesNeverProbe == Spec => []NoRetryProbes
  <1>1. ASSUME Inv, NEW o \in Ops, op[o].pc = "backoff" PROVE open # 0
    <2>1. op[o].waited \in 0..BackoffSpan /\ open \in 0..Cooldown \cup {None}
      BY <1>1 DEF Inv, IInv, TypeOK, Op
    <2>2. open # None => open >= Cooldown - op[o].waited
      BY <1>1 DEF Inv, IInv, BackoffInv
    <2>3. QED
      BY <2>1, <2>2, CircuitAssumption
  <1>2. Inv => NoRetryProbes
    BY <1>1 DEF NoRetryProbes
  <1>3. QED
    BY <1>2, Invariance, PTL

\* An open circuit with nothing in flight waits for its deadline.
THEOREM QuietCircuitsHold == Spec => QuietCircuitHolds
  <1> DEFINE Holds == Refuses /\ (\A o \in Ops : op[o].pc # "sending")
                        => /\ \A o \in Ops : op'[o].pc # "sending"
                           /\ open' \in {open, open - 1}
  <1>1. ASSUME Inv, [Next]_vars PROVE Holds
    <2> SUFFICES ASSUME Refuses, \A o \in Ops : op[o].pc # "sending"
                 PROVE  /\ \A o \in Ops : op'[o].pc # "sending"
                        /\ open' \in {open, open - 1}
      OBVIOUS
    <2>1. op \in [Ops -> Op]
      BY <1>1 DEF Inv, IInv, TypeOK
    <2>2. ASSUME NEW o \in Ops, Refused(o)
          PROVE  (\A p \in Ops : op'[p].pc # "sending") /\ open' = open
      BY <2>1, <2>2, OpUpdates DEF Refused, End, circuit
    <2>3. CASE Tick
      BY <2>1, <2>3 DEF Tick, Op
    <2>4. ASSUME NEW o \in Ops PROVE ~Begin(o) /\ ~Retry(o) /\ ~Answered(o)
      BY <2>4 DEF Begin, Retry, Ensure, Answered, Succeeds, FailsForGood, Fails
    <2>5. CASE UNCHANGED vars
      BY <2>5 DEF vars
    <2>6. QED
      BY <1>1, <2>2, <2>3, <2>4, <2>5 DEF Next
  <1>2. QED
    BY <1>1, Invariance, PTL DEF Spec, QuietCircuitHolds

-----------------------------------------------------------------------------
(* The refinement: each step is one of CircuitBreaker, or a stutter.       *)

\* CircuitBreaker's mode, of the deadline alone.
Mode == IF open = None THEN "closed" ELSE IF open = 0 THEN "half open" ELSE "open"

LEMMA BreakerStarts == Init => Breaker!BreakerInit
  BY CircuitAssumption DEF Init, Breaker!BreakerInit, Sending, NewOp

\* Nobody's attempt begins or ends, and the breaker is left alone.
LEMMA BreakerStutters ==
    ASSUME UNCHANGED circuit, Sending' = Sending PROVE UNCHANGED Breaker!breaker
  BY DEF circuit, Breaker!breaker

\* _ensure_circuit and a send.
LEMMA BreakerLets ==
    ASSUME Inv, NEW o \in Ops, op[o].pc # "sending", Ensure(o), Sending' = Sending \cup {o}
    PROVE  Breaker!Let(o)
  <1>1. Mode # "open" /\ Mode' = "closed" /\ failures' = IF Mode = "closed" THEN failures ELSE 0
    BY CircuitAssumption DEF Ensure, Refuses, circuit, Mode
  <1>2. o \notin Sending
    BY DEF Sending
  <1>3. QED
    BY <1>1, <1>2 DEF Breaker!Let, Mode

\* An answer, and its _record_success or _record_failure: the deadline that a late
\* failure leaves alone is that of a circuit below the threshold, which has none.
LEMMA BreakerAnswered ==
    ASSUME Inv, NEW o \in Ops, op[o].pc = "sending", Sending' = Sending \ {o},
           RecordSuccess \/ RecordFailure
    PROVE  Breaker!Works(o) \/ Breaker!Breaks(o)
  <1>1. o \in Sending
    BY DEF Sending
  <1>2. CASE RecordSuccess
    BY <1>1, <1>2 DEF RecordSuccess, Breaker!Works
  <1>3. CASE RecordFailure
    <2>1. failures \in Nat /\ (open # None <=> failures >= Threshold)
      BY DEF Inv, IInv, TypeOK, OpenAtThreshold
    <2>2. Cooldown # 0 /\ Cooldown # None
      BY CircuitAssumption
    <2>3. failures' = failures + 1 /\ Mode' = IF failures + 1 >= Threshold THEN "open" ELSE "closed"
      <3>1. CASE failures + 1 >= Threshold
        <4>1. open' = Cooldown
          BY <1>3, <3>1 DEF RecordFailure
        <4>2. QED
          BY <1>3, <2>2, <3>1, <4>1 DEF RecordFailure, Mode
      <3>2. CASE ~(failures + 1 >= Threshold)
        <4>1. open' = None
          BY <1>3, <2>1, <3>2, CircuitAssumption DEF RecordFailure
        <4>2. QED
          BY <1>3, <3>2, <4>1 DEF RecordFailure, Mode
      <3>3. QED
        BY <3>1, <3>2
    <2>4. QED
      BY <1>1, <2>3 DEF Breaker!Breaks, Mode
  <1>4. QED
    BY <1>2, <1>3

LEMMA BreakerStep == Inv /\ [Next]_vars => [Breaker!BreakerNext]_(Breaker!breaker)
  <1> SUFFICES ASSUME Inv, [Next]_vars PROVE [Breaker!BreakerNext]_(Breaker!breaker)
    OBVIOUS
  <1>a. op \in [Ops -> Op] /\ open \in 0..Cooldown \cup {None}
    BY DEF Inv, IInv, TypeOK
  <1>1. ASSUME NEW o \in Ops, Begin(o) \/ Retry(o) PROVE Breaker!BreakerNext
    <2>1. op[o].pc # "sending" /\ Ensure(o)
      BY <1>1 DEF Begin, Retry
    <2>2. op'[o].pc = "sending" /\ \A p \in Ops \ {o} : op'[p] = op[p]
      BY <1>1, <1>a DEF Begin, Retry, Send
    <2>3. Sending' = Sending \cup {o}
      BY <2>2 DEF Sending
    <2>4. QED
      BY <2>1, <2>3, BreakerLets DEF Breaker!BreakerNext
  <1>2. ASSUME NEW o \in Ops, Refused(o) PROVE UNCHANGED Breaker!breaker
    <2>1. op[o].pc # "sending" /\ op'[o].pc # "sending" /\ \A p \in Ops \ {o} : op'[p] = op[p]
      BY <1>2, <1>a, OpUpdates DEF Refused, End
    <2>2. Sending' = Sending
      BY <2>1 DEF Sending
    <2>3. QED
      BY <1>2, <2>2, BreakerStutters DEF Refused
  <1>3. ASSUME NEW o \in Ops, Answered(o) PROVE Breaker!BreakerNext
    <2>1. op[o].pc = "sending" /\ (RecordSuccess \/ RecordFailure)
      BY <1>3 DEF Answered, Succeeds, FailsForGood, Fails
    <2>2. op'[o].pc # "sending" /\ \A p \in Ops \ {o} : op'[p] = op[p]
      <3>1. op[o] \in Op
        BY <1>a
      <3>2. CASE op' = [op EXCEPT ![o] = [@ EXCEPT !.pc = "backoff"]]
        BY <3>1, <3>2, <1>a, OpUpdates
      <3>3. CASE \E r \in {"ok", "failed", "refused"} : op' = [op EXCEPT ![o] = [NewOp EXCEPT !.result = r]]
        BY <3>3, <1>a, OpUpdates
      <3>4. QED
        BY <1>3, <3>2, <3>3 DEF Answered, Succeeds, FailsForGood, Fails, End
    <2>3. Sending' = Sending \ {o}
      BY <2>2 DEF Sending
    <2>4. QED
      BY <2>1, <2>3, BreakerAnswered DEF Breaker!BreakerNext
  <1>4. ASSUME Tick PROVE Breaker!BreakerNext \/ UNCHANGED Breaker!breaker
    <2>1. \A o \in Ops : op'[o].pc = op[o].pc
      BY <1>4, <1>a DEF Tick, Op
    <2>2. Sending' = Sending /\ failures' = failures
      BY <1>4, <2>1 DEF Sending, Tick
    <2>3. CASE open = 1
      <3>1. Mode = "open" /\ Mode' = "half open"
        BY <1>4, <2>3, CircuitAssumption DEF Tick, Refuses, Mode
      <3>2. QED
        BY <2>2, <3>1 DEF Breaker!BreakerNext, Breaker!Elapse, Mode
    <2>4. CASE open # 1
      <3>1. Mode' = Mode
        <4>1. CASE Refuses
          <5>1. open \in Nat /\ open # 0 /\ open' = open - 1
            BY <1>4, <1>a, <4>1 DEF Tick, Refuses
          <5>2. open' \in Nat /\ open' # 0
            BY <2>4, <5>1
          <5>3. open' # None /\ open # None
            BY <5>1, <5>2, CircuitAssumption
          <5>4. QED
            BY <5>1, <5>2, <5>3 DEF Mode
        <4>2. CASE ~Refuses
          BY <1>4, <4>2 DEF Tick, Mode
        <4>3. QED
          BY <4>1, <4>2
      <3>2. QED
        BY <2>2, <3>1 DEF Breaker!breaker, Mode
    <2>5. QED
      BY <2>3, <2>4
  <1>5. CASE UNCHANGED vars
    <2>1. Sending' = Sending /\ UNCHANGED circuit
      BY <1>5 DEF vars, circuit, Sending
    <2>2. QED
      BY <2>1, BreakerStutters
  <1>6. QED
    BY <1>1, <1>2, <1>3, <1>4, <1>5 DEF Next

\* The client's operations with their retries, and the two fields that any of them
\* updates when its answer comes, are one circuit breaker.
THEOREM BreakerImplemented == Spec => ImplementsBreaker
  BY BreakerStarts, BreakerStep, Invariance, PTL DEF Spec, ImplementsBreaker, Breaker!BreakerSpec

=============================================================================
