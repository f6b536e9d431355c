------------------------- MODULE BookingDeskProofs -------------------------
(***************************************************************************)
(* Proofs about BookingDesk, for any calls, services, references, short-id *)
(* lengths, numbers of tools and of attempts.                              *)
(***************************************************************************)
EXTENDS BookingDesk, TLAPS

\* What holds of one call's turn, order and facts between any two steps.
TurnInv(t) ==
    /\ t.copies <= t.attempts + 1
    /\ t.pc = "booking" => t.copies <= t.attempts

FactsInv(t, f) ==
    /\ f.completed => f.interaction \in {"booking", "tracking"}
    /\ t.action = "transfer" /\ t.number => f.transferred

\* The order holds the last answer `a'; before there is one it is no more than a request.
AnswerInv(o, f, a) ==
    \/ a.ref # NoRef /\ a.status # "none" /\ o.ref = a.ref /\ o.status = a.status
    \/ a = NoAnswer /\ o.ref = NoRef /\ o.status \in {"none", "pending"}
       /\ ~f.completed /\ f.lastRef = NoRef

Good(t, o, f, a) ==
    /\ t \in Turn /\ o \in Order /\ f \in Facts /\ a \in Answers
    /\ TurnInv(t) /\ FactsInv(t, f) /\ AnswerInv(o, f, a)

\* No booking of the fallback is newer than the clock.
StoresInv ==
    /\ platform \subseteq PlatformRefs
    /\ local \subseteq Seconds
    /\ short \in [0..(Wrap - 1) -> Seconds \cup {NoRef}]
    /\ clock \in Seconds
    /\ \A n \in local : n <= clock
    /\ ShortIdFindsNewest

CallsInv ==
    /\ turn \in [Calls -> Turn] /\ order \in [Calls -> Order] /\ facts \in [Calls -> Facts]
    /\ told \in [Calls -> Answers]
    /\ \A c \in Calls : Good(turn[c], order[c], facts[c], told[c])

Inv == CallsInv /\ StoresInv

-----------------------------------------------------------------------------
(* The updates the actions make.                                           *)

LEMMA NewTurnGood ==
    ASSUME NEW pc \in {"idle", "model", "tools"}
    PROVE  NewTurn(pc) \in Turn /\ TurnInv(NewTurn(pc)) /\ NewTurn(pc).action = "speak"
  BY NumbersAssumption, CatalogAssumption DEF NewTurn, Turn, TurnInv

LEMMA EntryGood ==
    ASSUME NEW type \in {"booking", "tracking"}, NEW ref \in Refs \cup {Empty}, NEW st \in Status
    PROVE  /\ Entry(type, ref, st) \in Order /\ Entry(type, ref, st).ref = ref
           /\ Entry(type, ref, st).status = st
  BY DEF Entry, Order

\* A tool call that leaves the turn's booking alone.
LEMMA CalledGood ==
    ASSUME NEW c \in Calls, turn[c] \in Turn, turn[c].calls < MaxTools, TurnInv(turn[c]),
           turn[c].pc = "tools"
    PROVE  /\ Called(c) \in Turn /\ TurnInv(Called(c))
           /\ Called(c).action = turn[c].action /\ Called(c).number = turn[c].number
           /\ Called(c).calls \in 0..MaxTools
           /\ Called(c).pc = "tools"
           /\ Called(c).copies = turn[c].copies /\ Called(c).attempts = turn[c].attempts
  BY NumbersAssumption DEF Called, Turn, TurnInv

LEMMA TurnUpdates ==
    ASSUME NEW t \in Turn, TurnInv(t)
    PROVE  /\ t.pc = "tools" => \A pc \in {"reply", "tracking"} :
                LET u == [t EXCEPT !.pc = pc]
                IN u \in Turn /\ TurnInv(u) /\ u.action = t.action /\ u.number = t.number
           /\ t.pc = "tracking" =>
                LET u == [t EXCEPT !.pc = "tools"]
                IN u \in Turn /\ TurnInv(u) /\ u.action = t.action /\ u.number = t.number
           /\ LET u == [t EXCEPT !.action = "hangup"]
              IN u \in Turn /\ TurnInv(u) /\ u.action = "hangup"
           /\ LET u == [t EXCEPT !.pc = "reply", !.action = "speak"]
              IN u \in Turn /\ TurnInv(u) /\ u.action = "speak"
  <1>1. t.pc = "tools" => \A pc \in {"reply", "tracking"} :
            LET u == [t EXCEPT !.pc = pc]
            IN u \in Turn /\ TurnInv(u) /\ u.action = t.action /\ u.number = t.number
    BY NumbersAssumption DEF Turn, TurnInv
  <1>2. LET u == [t EXCEPT !.pc = "tools"]
        IN u \in Turn /\ TurnInv(u) /\ u.action = t.action /\ u.number = t.number
    BY NumbersAssumption DEF Turn, TurnInv
  <1>3. LET u == [t EXCEPT !.action = "hangup"]
        IN u \in Turn /\ TurnInv(u) /\ u.action = "hangup"
    BY NumbersAssumption DEF Turn, TurnInv
  <1>4. LET u == [t EXCEPT !.pc = "reply", !.action = "speak"]
        IN u \in Turn /\ TurnInv(u) /\ u.action = "speak"
    BY NumbersAssumption DEF Turn, TurnInv
  <1>5. QED
    BY <1>1, <1>2, <1>3, <1>4

LEMMA SubmitUpdate ==
    ASSUME NEW t \in Turn, NEW s \in Services
    PROVE  LET u == [t EXCEPT !.pc = "booking", !.service = s, !.attempts = 0, !.copies = 0]
           IN u \in Turn /\ TurnInv(u) /\ u.action = t.action /\ u.number = t.number
  <1> DEFINE u == [t EXCEPT !.pc = "booking", !.service = s, !.attempts = 0, !.copies = 0]
  <1>1. 0 \in 0..MaxAttempts
    BY NumbersAssumption
  <1>2. u \in Turn
    BY <1>1, Zenon DEF Turn
  <1>3. u.copies = 0 /\ u.attempts = 0
    BY DEF Turn
  <1>4. u.action = t.action /\ u.number = t.number
    BY DEF Turn
  <1>5. TurnInv(u)
    BY <1>3 DEF TurnInv
  <1>6. QED
    BY <1>2, <1>4, <1>5

LEMMA TransferUpdate ==
    ASSUME NEW t \in Turn, TurnInv(t), NEW n \in BOOLEAN
    PROVE  LET u == [t EXCEPT !.action = "transfer", !.number = n]
           IN u \in Turn /\ TurnInv(u) /\ u.action = "transfer" /\ u.number = n
  <1> DEFINE u == [t EXCEPT !.action = "transfer", !.number = n]
  <1>1. u \in Turn
    BY NumbersAssumption DEF Turn
  <1>2. TurnInv(u) /\ u.action = "transfer" /\ u.number = n
    BY DEF Turn, TurnInv
  <1>3. QED
    BY <1>1, <1>2

LEMMA PostUpdate ==
    ASSUME NEW t \in Turn, TurnInv(t), t.pc = "booking", t.attempts < MaxAttempts,
           NEW b \in BOOLEAN
    PROVE  LET u == [t EXCEPT !.attempts = @ + 1, !.copies = IF b THEN @ + 1 ELSE @]
           IN u \in Turn /\ TurnInv(u) /\ u.action = t.action /\ u.number = t.number
  <1> DEFINE u == [t EXCEPT !.attempts = @ + 1, !.copies = IF b THEN @ + 1 ELSE @]
  <1>1. /\ t.attempts \in 0..MaxAttempts /\ t.copies \in Nat
        /\ t.copies <= t.attempts
    BY DEF Turn, TurnInv
  <1>2. t.attempts + 1 \in 0..MaxAttempts /\ (IF b THEN t.copies + 1 ELSE t.copies) \in Nat
    BY <1>1, NumbersAssumption
  <1>3. u \in Turn
    BY <1>2 DEF Turn
  <1>4. u.attempts = t.attempts + 1 /\ u.copies <= t.copies + 1
    BY <1>1 DEF Turn
  <1>5. TurnInv(u)
    BY <1>1, <1>2, <1>3, <1>4 DEF Turn, TurnInv
  <1>6. QED
    BY <1>3, <1>5 DEF Turn

LEMMA BookingUpdates ==
    ASSUME NEW t \in Turn, TurnInv(t), t.pc = "booking"
    PROVE  /\ LET u == [t EXCEPT !.pc = "tools", !.copies = @ + 1]
              IN u \in Turn /\ TurnInv(u) /\ u.action = t.action /\ u.number = t.number
           /\ LET u == [t EXCEPT !.pc = "tools"]
              IN u \in Turn /\ TurnInv(u) /\ u.action = t.action /\ u.number = t.number
  <1>1. t.copies \in Nat /\ t.copies + 1 \in Nat /\ t.copies + 1 <= t.attempts + 1
    BY DEF Turn, TurnInv
  <1>2. LET u == [t EXCEPT !.pc = "tools", !.copies = @ + 1]
        IN u \in Turn /\ TurnInv(u) /\ u.action = t.action /\ u.number = t.number
    <2> DEFINE u == [t EXCEPT !.pc = "tools", !.copies = @ + 1]
    <2>1. u \in Turn
      BY <1>1, Zenon DEF Turn
    <2>2. /\ u.pc = "tools" /\ u.copies = t.copies + 1 /\ u.attempts = t.attempts
          /\ u.action = t.action /\ u.number = t.number
      BY DEF Turn
    <2>3. TurnInv(u)
      BY <1>1, <2>2 DEF TurnInv
    <2>4. QED
      BY <2>1, <2>2, <2>3
  <1>3. LET u == [t EXCEPT !.pc = "tools"]
        IN u \in Turn /\ TurnInv(u) /\ u.action = t.action /\ u.number = t.number
    BY DEF Turn, TurnInv
  <1>4. QED
    BY <1>2, <1>3

LEMMA FactsUpdates ==
    ASSUME NEW f \in Facts
    PROVE  /\ \A i \in Kind : LET g == [f EXCEPT !.intent = i]
                IN g \in Facts /\ g.completed = f.completed /\ g.interaction = f.interaction
                   /\ g.lastRef = f.lastRef /\ g.transferred = f.transferred
           /\ \A x \in {"booking", "tracking"} : LET g == [f EXCEPT !.interaction = x]
                IN g \in Facts /\ g.completed = f.completed /\ g.interaction = x
                   /\ g.lastRef = f.lastRef /\ g.transferred = f.transferred
           /\ LET g == [f EXCEPT !.interaction = IF @ = "none" THEN "query" ELSE @]
              IN g \in Facts /\ g.completed = f.completed /\ g.lastRef = f.lastRef
                 /\ (f.interaction # "none" => g.interaction = f.interaction)
           /\ LET g == [f EXCEPT !.transferred = TRUE,
                                 !.interaction = IF @ = "none" THEN "transfer" ELSE @]
              IN g \in Facts /\ g.completed = f.completed /\ g.lastRef = f.lastRef /\ g.transferred
                 /\ (f.interaction # "none" => g.interaction = f.interaction)
  BY DEF Facts, Kind

-----------------------------------------------------------------------------
(* The inductive invariant.                                                *)

\* One call's good step keeps every call good.
LEMMA CallKeeps ==
    ASSUME CallsInv, NEW c \in Calls, NEW t, NEW o, NEW f, NEW a, Good(t, o, f, a),
           turn' = [turn EXCEPT ![c] = t],
           (order' = [order EXCEPT ![c] = o]) \/ (order' = order /\ o = order[c]),
           (facts' = [facts EXCEPT ![c] = f]) \/ (facts' = facts /\ f = facts[c]),
           (told' = [told EXCEPT ![c] = a]) \/ (told' = told /\ a = told[c])
    PROVE  CallsInv'
  <1>1. /\ turn' \in [Calls -> Turn] /\ order' \in [Calls -> Order] /\ facts' \in [Calls -> Facts]
        /\ told' \in [Calls -> Answers]
    BY DEF CallsInv, Good
  <1>2. turn'[c] = t /\ order'[c] = o /\ facts'[c] = f /\ told'[c] = a
    BY DEF CallsInv
  <1>3. \A d \in Calls : d # c => /\ turn'[d] = turn[d] /\ order'[d] = order[d]
                                  /\ facts'[d] = facts[d] /\ told'[d] = told[d]
    BY DEF CallsInv
  <1>4. ASSUME NEW d \in Calls
        PROVE  Good(turn'[d], order'[d], facts'[d], told'[d])
    <2>1. CASE d = c
      BY <1>2, <2>1
    <2>2. CASE d # c
      BY <1>3, <2>2 DEF CallsInv
    <2>3. QED
      BY <2>1, <2>2
  <1>5. QED
    BY <1>1, <1>4 DEF CallsInv

LEMMA CallGood ==
    ASSUME CallsInv, NEW c \in Calls
    PROVE  /\ turn[c] \in Turn /\ order[c] \in Order /\ facts[c] \in Facts /\ told[c] \in Answers
           /\ TurnInv(turn[c]) /\ FactsInv(turn[c], facts[c]) /\ AnswerInv(order[c], facts[c], told[c])
  BY DEF CallsInv, Good

LEMMA RequestedGood ==
    ASSUME NEW c \in Calls, order[c] \in Order
    PROVE  /\ Requested(c) \in Order /\ Requested(c).ref = order[c].ref
           /\ order[c].status # "none" => Requested(c).status = order[c].status
           /\ order[c].status = "none" => Requested(c).status = "pending"
  BY DEF Requested, Entry, Order, Status

LEMMA InvInit == Init => Inv
  <1> SUFFICES ASSUME Init PROVE Inv
    OBVIOUS
  <1> DEFINE f0 == [interaction |-> "none", intent |-> "none", lastRef |-> NoRef,
                    completed |-> FALSE, transferred |-> FALSE]
  <1>1. NewTurn("idle") \in Turn /\ TurnInv(NewTurn("idle")) /\ NewTurn("idle").action = "speak"
    BY NewTurnGood
  <1>2. Entry("none", NoRef, "none") \in Order
    BY DEF Entry, Order, Status
  <1>3. f0 \in Facts /\ FactsInv(NewTurn("idle"), f0)
    BY <1>1 DEF Facts, FactsInv
  <1>a. NoAnswer \in Answers /\ AnswerInv(Entry("none", NoRef, "none"), f0, NoAnswer)
    BY DEF NoAnswer, Answers, Status, AnswerInv, Entry
  <1>b. Good(NewTurn("idle"), Entry("none", NoRef, "none"), f0, NoAnswer)
    BY <1>1, <1>2, <1>3, <1>a DEF Good
  <1>4. CallsInv
    BY <1>1, <1>2, <1>3, <1>a, <1>b DEF Init, CallsInv
  <1>5. StoresInv
    BY NumbersAssumption DEF Init, StoresInv, ShortIdFindsNewest, Seconds
  <1>6. QED
    BY <1>4, <1>5 DEF Inv

\* The turn's own steps and the tools that store nothing.
LEMMA TurnKeeps ==
    ASSUME CallsInv, NEW c \in Calls,
           \/ \E i \in Kind \cup {"none"}, d \in BOOLEAN : Say(c, i, d)
           \/ Answer(c) \/ ModelFails(c) \/ UseTools(c) \/ ToolsDone(c) \/ Replied(c)
           \/ IdleTool(c) \/ EndCall(c) \/ \E n \in BOOLEAN : Transfer(c, n)
    PROVE  CallsInv'
  <1>a. /\ turn[c] \in Turn /\ order[c] \in Order /\ facts[c] \in Facts
        /\ TurnInv(turn[c]) /\ FactsInv(turn[c], facts[c])
        /\ told[c] \in Answers /\ AnswerInv(order[c], facts[c], told[c])
    BY CallGood
  <1>1. ASSUME NEW i \in Kind \cup {"none"}, NEW d \in BOOLEAN, Say(c, i, d) PROVE CallsInv'
    <2> DEFINE o == IF d /\ order[c].type = "none" THEN [order[c] EXCEPT !.type = "booking"]
                    ELSE order[c]
               f == [facts[c] EXCEPT !.intent = IF i = "none" THEN @ ELSE i]
    <2>1. o \in Order /\ o.ref = order[c].ref /\ o.status = order[c].status
      BY <1>a DEF Order
    <2>2. /\ f \in Facts /\ f.completed = facts[c].completed
          /\ f.interaction = facts[c].interaction /\ f.lastRef = facts[c].lastRef
      BY <1>a DEF Facts, Kind
    <2>3. Good(NewTurn("model"), o, f, told[c])
      BY <1>a, <2>1, <2>2, NewTurnGood DEF Good, FactsInv, AnswerInv
    <2>4. turn' = [turn EXCEPT ![c] = NewTurn("model")]
      BY <1>1 DEF Say, Put
    <2>5. /\ order' = [order EXCEPT ![c] = o] /\ facts' = [facts EXCEPT ![c] = f]
          /\ told' = told
      BY <1>1 DEF Say, Write, Learn
    <2>6. QED
      BY <2>3, <2>4, <2>5, CallKeeps
  <1>2. CASE Answer(c)
    <2> DEFINE f == [facts[c] EXCEPT !.interaction = IF @ = "none" THEN "query" ELSE @]
    <2>1. /\ f \in Facts /\ f.completed = facts[c].completed /\ f.lastRef = facts[c].lastRef
          /\ facts[c].interaction # "none" => f.interaction = facts[c].interaction
      BY <1>a, FactsUpdates
    <2>2. Good(NewTurn("idle"), order[c], f, told[c])
      BY <1>a, <2>1, NewTurnGood DEF Good, FactsInv, AnswerInv
    <2>3. /\ turn' = [turn EXCEPT ![c] = NewTurn("idle")] /\ order' = order
          /\ facts' = [facts EXCEPT ![c] = f] /\ told' = told
      BY <1>2 DEF Answer, Put, Learn
    <2>4. QED
      BY <2>2, <2>3, CallKeeps
  <1>3. ASSUME NEW pc \in {"idle", "tools"}, Put(c, NewTurn(pc)), UNCHANGED <<order, facts, told>>
        PROVE  CallsInv'
    <2>1. Good(NewTurn(pc), order[c], facts[c], told[c])
      BY <1>a, NewTurnGood DEF Good, FactsInv, AnswerInv
    <2>2. QED
      BY <1>3, <2>1, CallKeeps DEF Put
  <1>4. CASE ModelFails(c) \/ UseTools(c) \/ Replied(c)
    BY <1>3, <1>4 DEF ModelFails, UseTools, Replied
  <1>5. CASE ToolsDone(c)
    <2> DEFINE t == [turn[c] EXCEPT !.pc = "reply"]
    <2>1. t \in Turn /\ TurnInv(t) /\ t.action = turn[c].action /\ t.number = turn[c].number
      BY <1>a, <1>5, TurnUpdates DEF ToolsDone
    <2>2. Good(t, order[c], facts[c], told[c])
      BY <1>a, <2>1 DEF Good, FactsInv, AnswerInv
    <2>3. turn' = [turn EXCEPT ![c] = t] /\ order' = order /\ facts' = facts /\ told' = told
      BY <1>5 DEF ToolsDone, Put
    <2>4. QED
      BY <2>2, <2>3, CallKeeps
  <1>6. CASE IdleTool(c)
    <2>1. Good(Called(c), order[c], facts[c], told[c])
      BY <1>a, <1>6, CalledGood DEF IdleTool, Calling, Good, FactsInv, AnswerInv
    <2>2. QED
      BY <1>6, <2>1, CallKeeps DEF IdleTool, Put
  <1>7. CASE EndCall(c)
    <2> DEFINE t == [Called(c) EXCEPT !.action = "hangup"]
    <2>1. t \in Turn /\ TurnInv(t) /\ t.action = "hangup"
      BY <1>a, <1>7, CalledGood, TurnUpdates DEF EndCall, Calling
    <2>2. Good(t, order[c], facts[c], told[c])
      BY <1>a, <2>1 DEF Good, FactsInv, AnswerInv
    <2>3. turn' = [turn EXCEPT ![c] = t] /\ order' = order /\ facts' = facts /\ told' = told
      BY <1>7 DEF EndCall, Put
    <2>4. QED
      BY <2>2, <2>3, CallKeeps
  <1>8. ASSUME NEW n \in BOOLEAN, Transfer(c, n) PROVE CallsInv'
    <2> DEFINE t == [Called(c) EXCEPT !.action = "transfer", !.number = n]
               g == [facts[c] EXCEPT !.transferred = TRUE,
                                     !.interaction = IF @ = "none" THEN "transfer" ELSE @]
               f == IF n THEN g ELSE facts[c]
    <2>1. t \in Turn /\ TurnInv(t) /\ t.action = "transfer" /\ t.number = n
      <3>1. Called(c) \in Turn /\ TurnInv(Called(c))
        BY <1>a, <1>8, CalledGood DEF Transfer, Calling
      <3>2. QED
        BY <3>1, TransferUpdate
    <2>2. /\ g \in Facts /\ g.completed = facts[c].completed /\ g.lastRef = facts[c].lastRef
          /\ g.transferred /\ (facts[c].interaction # "none" => g.interaction = facts[c].interaction)
      BY <1>a, FactsUpdates
    <2>3. CASE n
      <3>1. Good(t, order[c], g, told[c])
        BY <1>a, <2>1, <2>2 DEF Good, FactsInv, AnswerInv
      <3>2. turn' = [turn EXCEPT ![c] = t] /\ order' = order /\ facts' = [facts EXCEPT ![c] = g]
            /\ told' = told
        BY <1>8, <2>3 DEF Transfer, Put, Learn
      <3>3. QED
        BY <3>1, <3>2, CallKeeps
    <2>4. CASE ~n
      <3>1. Good(t, order[c], facts[c], told[c])
        BY <1>a, <2>1, <2>4 DEF Good, FactsInv, AnswerInv
      <3>2. /\ turn' = [turn EXCEPT ![c] = t] /\ order' = order
            /\ facts' = [facts EXCEPT ![c] = facts[c]] /\ told' = told
        BY <1>8, <2>4 DEF Transfer, Put, Learn
      <3>3. QED
        BY <3>1, <3>2, CallKeeps
    <2>5. QED
      BY <2>3, <2>4
  <1>9. QED
    BY <1>1, <1>2, <1>4, <1>5, <1>6, <1>7, <1>8

\* What a submit writes before it has an answer is good with any good turn
\* that keeps the call's action.
LEMMA RequestKeeps ==
    ASSUME CallsInv, NEW c \in Calls, NEW t \in Turn, TurnInv(t),
           t.action = "speak" \/ (t.action = turn[c].action /\ t.number = turn[c].number),
           Put(c, t), Write(c, Requested(c)),
           Learn(c, [facts[c] EXCEPT !.interaction = "booking"])
    PROVE  CallsInv'
  <1> DEFINE f == [facts[c] EXCEPT !.interaction = "booking"]
  <1>a. /\ turn[c] \in Turn /\ order[c] \in Order /\ facts[c] \in Facts
        /\ TurnInv(turn[c]) /\ FactsInv(turn[c], facts[c])
        /\ told[c] \in Answers /\ AnswerInv(order[c], facts[c], told[c])
    BY CallGood
  <1>1. /\ f \in Facts /\ f.completed = facts[c].completed /\ f.interaction = "booking"
        /\ f.lastRef = facts[c].lastRef /\ f.transferred = facts[c].transferred
    BY <1>a, FactsUpdates
  <1>2. /\ Requested(c) \in Order /\ Requested(c).ref = order[c].ref
        /\ order[c].status # "none" => Requested(c).status = order[c].status
        /\ order[c].status = "none" => Requested(c).status = "pending"
    BY <1>a, RequestedGood
  <1>b. AnswerInv(Requested(c), f, told[c])
    BY <1>a, <1>1, <1>2 DEF AnswerInv
  <1>3. Good(t, Requested(c), f, told[c])
    BY <1>a, <1>1, <1>2 DEF Good, FactsInv, AnswerInv
  <1>4. /\ turn' = [turn EXCEPT ![c] = t] /\ order' = [order EXCEPT ![c] = Requested(c)]
        /\ facts' = [facts EXCEPT ![c] = f] /\ told' = told
    BY DEF Put, Write, Learn
  <1>5. QED
    BY <1>3, <1>4, CallKeeps

\* An answered booking is good whatever its reference: the order holds it too.
LEMMA RememberKeeps ==
    ASSUME CallsInv, NEW c \in Calls, NEW t \in Turn, TurnInv(t),
           t.action = turn[c].action, t.number = turn[c].number,
           NEW ref \in Refs \cup {Empty}, NEW st \in Status \ {"none"},
           Put(c, t), Remember(c, ref, st)
    PROVE  CallsInv'
  <1> DEFINE l == IF ref = Empty THEN NoRef ELSE ref
             f == [facts[c] EXCEPT !.interaction = "booking", !.completed = TRUE, !.lastRef = l]
             o == Entry("booking", ref, st)
             a == [ref |-> ref, status |-> st]
  <1>a. /\ facts[c] \in Facts /\ FactsInv(turn[c], facts[c])
    BY CallGood
  <1>b. l \in Refs \cup {NoRef}
    OBVIOUS
  <1>1. f \in Facts /\ f.interaction = "booking" /\ f.transferred = facts[c].transferred
    BY <1>a, <1>b DEF Facts, Kind
  <1>2. o \in Order /\ o.ref = ref /\ o.status = st
    BY EntryGood
  <1>3. a \in Answers /\ a.ref # NoRef /\ a.ref = ref /\ a.status = st
    BY RefsAssumption DEF Answers
  <1>4. FactsInv(t, f) /\ AnswerInv(o, f, a)
    BY <1>a, <1>1, <1>2, <1>3 DEF FactsInv, AnswerInv
  <1>5. Good(t, o, f, a)
    BY <1>1, <1>2, <1>3, <1>4 DEF Good
  <1>6. /\ turn' = [turn EXCEPT ![c] = t] /\ order' = [order EXCEPT ![c] = o]
        /\ facts' = [facts EXCEPT ![c] = f] /\ told' = [told EXCEPT ![c] = a]
    BY DEF Put, Remember, Record, Learn
  <1>7. QED
    BY <1>5, <1>6, CallKeeps

LEMMA TrackedKeeps ==
    ASSUME CallsInv, NEW c \in Calls, NEW ref \in Refs \cup {Empty},
           NEW st \in Status \ {"none"}, Tracked(c, ref, st)
    PROVE  CallsInv'
  <1> DEFINE t == [turn[c] EXCEPT !.pc = "tools"]
             f == [facts[c] EXCEPT !.interaction = "tracking"]
             o == Entry("tracking", ref, st)
             a == [ref |-> ref, status |-> st]
  <1>a. /\ turn[c] \in Turn /\ facts[c] \in Facts
        /\ TurnInv(turn[c]) /\ FactsInv(turn[c], facts[c])
    BY CallGood
  <1>1. t \in Turn /\ TurnInv(t) /\ t.action = turn[c].action /\ t.number = turn[c].number
    BY <1>a, TurnUpdates DEF Tracked
  <1>2. /\ f \in Facts /\ f.completed = facts[c].completed /\ f.interaction = "tracking"
        /\ f.lastRef = facts[c].lastRef /\ f.transferred = facts[c].transferred
    BY <1>a, FactsUpdates
  <1>3. o \in Order /\ o.ref = ref /\ o.status = st
    BY EntryGood
  <1>4. a \in Answers /\ a.ref # NoRef /\ a.ref = ref /\ a.status = st
    BY RefsAssumption DEF Answers
  <1>5. FactsInv(t, f) /\ AnswerInv(o, f, a)
    BY <1>a, <1>1, <1>2, <1>3, <1>4 DEF FactsInv, AnswerInv
  <1>6. Good(t, o, f, a)
    BY <1>1, <1>2, <1>3, <1>4, <1>5 DEF Good
  <1>7. /\ turn' = [turn EXCEPT ![c] = t] /\ order' = [order EXCEPT ![c] = o]
        /\ facts' = [facts EXCEPT ![c] = f] /\ told' = [told EXCEPT ![c] = a]
    BY DEF Tracked, Put, Record, Learn
  <1>8. QED
    BY <1>6, <1>7, CallKeeps

\* A step that changes only the turn, and not what the caller is told.
LEMMA OnlyTurnKeeps ==
    ASSUME CallsInv, NEW c \in Calls, NEW t \in Turn, TurnInv(t),
           t.action = "speak" \/ (t.action = turn[c].action /\ t.number = turn[c].number),
           Put(c, t), UNCHANGED <<order, facts, told>>
    PROVE  CallsInv'
  <1>1. /\ order[c] \in Order /\ facts[c] \in Facts /\ FactsInv(turn[c], facts[c])
        /\ told[c] \in Answers /\ AnswerInv(order[c], facts[c], told[c])
    BY CallGood
  <1>2. Good(t, order[c], facts[c], told[c])
    BY <1>1 DEF Good, FactsInv, AnswerInv
  <1>3. QED
    BY <1>2, CallKeeps DEF Put

\* The steps of a submit and of a tracking, as far as calls go.
LEMMA ToolKeeps ==
    ASSUME CallsInv, StoresInv, NEW c \in Calls,
           \/ OutOfCoverage(c) \/ TrackRaises(c) \/ SubmitRaises(c)
           \/ \E s \in Services : Submit(c, s)
           \/ \E executed \in BOOLEAN : PostFails(c, executed)
           \/ \E r \in PlatformRefs, ref \in PlatformRefs \cup {Empty}, st \in Remote :
                 Booked(c, r, ref, st)
           \/ BookedOddly(c) \/ BookLocal(c) \/ BookUnsupported(c) \/ Track(c)
           \/ TrackRemote(c) \/ TrackFull(c) \/ TrackShort(c) \/ TrackDigits(c) \/ TrackNothing(c)
    PROVE  CallsInv'
  <1>a. turn[c] \in Turn /\ TurnInv(turn[c])
    BY CallGood
  <1>b. ASSUME Calling(c)
        PROVE  /\ Called(c) \in Turn /\ TurnInv(Called(c)) /\ Called(c).pc = "tools"
               /\ Called(c).action = turn[c].action /\ Called(c).number = turn[c].number
    BY <1>a, <1>b, CalledGood DEF Calling
  <1>c. clock \in Refs /\ platform \subseteq Refs /\ local \subseteq Refs
    BY DEF StoresInv, Refs
  <1>1. CASE OutOfCoverage(c)
    BY <1>1, <1>b, RequestKeeps DEF OutOfCoverage
  <1>2. CASE TrackRaises(c) \/ SubmitRaises(c)
    <2> DEFINE t == [Called(c) EXCEPT !.pc = "reply", !.action = "speak"]
    <2>1. t \in Turn /\ TurnInv(t) /\ t.action = "speak"
      BY <1>2, <1>b, TurnUpdates DEF TrackRaises, SubmitRaises
    <2>2. Put(c, t)
      BY <1>2 DEF TrackRaises, SubmitRaises
    <2>3. CASE TrackRaises(c)
      BY <2>1, <2>2, <2>3, OnlyTurnKeeps DEF TrackRaises
    <2>4. CASE SubmitRaises(c)
      BY <2>1, <2>2, <2>4, RequestKeeps DEF SubmitRaises
    <2>5. QED
      BY <1>2, <2>3, <2>4
  <1>3. ASSUME NEW s \in Services, Submit(c, s) PROVE CallsInv'
    <2> DEFINE t == [Called(c) EXCEPT !.pc = "booking", !.service = s, !.attempts = 0, !.copies = 0]
    <2>1. /\ t \in Turn /\ TurnInv(t)
          /\ t.action = Called(c).action /\ t.number = Called(c).number
      BY <1>3, <1>b, SubmitUpdate DEF Submit
    <2>2. Put(c, t)
      BY <1>3 DEF Submit
    <2>3. t.action = turn[c].action /\ t.number = turn[c].number
      BY <1>3, <1>b, <2>1 DEF Submit
    <2>4. QED
      BY <1>3, <2>1, <2>2, <2>3, RequestKeeps DEF Submit
  <1>4. ASSUME NEW executed \in BOOLEAN, PostFails(c, executed) PROVE CallsInv'
    <2> DEFINE t == [turn[c] EXCEPT !.attempts = @ + 1, !.copies = IF executed THEN @ + 1 ELSE @]
    <2>1. t \in Turn /\ TurnInv(t) /\ t.action = turn[c].action /\ t.number = turn[c].number
      BY <1>4, <1>a, PostUpdate DEF PostFails, Booking
    <2>2. Put(c, t)
      BY <1>4 DEF PostFails
    <2>3. QED
      BY <1>4, <2>1, <2>2, OnlyTurnKeeps DEF PostFails
  <1>5. ASSUME Booking(c)
        PROVE  LET t == [turn[c] EXCEPT !.pc = "tools", !.copies = @ + 1]
               IN t \in Turn /\ TurnInv(t) /\ t.action = turn[c].action /\ t.number = turn[c].number
    BY <1>5, <1>a, BookingUpdates DEF Booking
  <1>6. ASSUME NEW r \in PlatformRefs, NEW ref \in PlatformRefs \cup {Empty}, NEW st \in Remote,
               Booked(c, r, ref, st)
        PROVE  CallsInv'
    <2>1. ref \in Refs \cup {Empty} /\ st \in Status \ {"none"}
      BY DEF Refs, Remote
    <2>2. QED
      BY <1>5, <1>6, <2>1, RememberKeeps DEF Booked
  <1>7. CASE BookedOddly(c)
    BY <1>5, <1>7, OnlyTurnKeeps DEF BookedOddly
  <1>8. CASE BookLocal(c)
    BY <1>5, <1>8, <1>c, RememberKeeps DEF BookLocal, Status
  <1>9. CASE BookUnsupported(c)
    <2> DEFINE t == [turn[c] EXCEPT !.pc = "tools"]
    <2>1. t \in Turn /\ TurnInv(t) /\ t.action = turn[c].action /\ t.number = turn[c].number
      BY <1>9, <1>a, BookingUpdates DEF BookUnsupported, Booking
    <2>2. Put(c, t) /\ Remember(c, clock, "unsupported")
      BY <1>9 DEF BookUnsupported
    <2>3. QED
      BY <2>1, <2>2, <1>c, RememberKeeps DEF Status
  <1>10. CASE Track(c)
    <2> DEFINE t == [Called(c) EXCEPT !.pc = "tracking"]
    <2>1. /\ t \in Turn /\ TurnInv(t)
          /\ t.action = Called(c).action /\ t.number = Called(c).number
      BY <1>10, <1>b, TurnUpdates DEF Track
    <2>2. Put(c, t)
      BY <1>10 DEF Track
    <2>3. t.action = turn[c].action /\ t.number = turn[c].number
      BY <1>10, <1>b, <2>1 DEF Track
    <2>4. QED
      BY <1>10, <2>1, <2>2, <2>3, OnlyTurnKeeps DEF Track
  <1>11. CASE TrackRemote(c)
    <2>1. OtherId \in Refs /\ \A st \in Remote : st \in Status \ {"none"}
      BY DEF Refs, Remote
    <2>2. QED
      BY <1>11, <1>c, <2>1, TrackedKeeps DEF TrackRemote
  <1>12. CASE TrackFull(c) \/ TrackDigits(c)
    BY <1>12, <1>c, TrackedKeeps DEF TrackFull, TrackDigits, Status
  <1>13. CASE TrackShort(c)
    <2>1. PICK k \in DOMAIN short : short[k] # NoRef /\ Tracked(c, short[k], "confirmed")
      BY <1>13 DEF TrackShort
    <2>2. short[k] \in Refs
      BY <2>1 DEF StoresInv, Refs
    <2>3. QED
      BY <2>1, <2>2, TrackedKeeps DEF Status
  <1>14. CASE TrackNothing(c)
    BY <1>14, TrackedKeeps DEF TrackNothing, Status
  <1>15. QED
    BY <1>1, <1>2, <1>3, <1>4, <1>6, <1>7, <1>8, <1>9, <1>10, <1>11, <1>12, <1>13, <1>14

\* A booking at the present second gets its short id, and no older booking's
\* short id is left without one.
LEMMA BookLocalStores ==
    ASSUME StoresInv, local' = local \cup {clock}, short' = [short EXCEPT ![clock % Wrap] = clock],
           UNCHANGED <<platform, clock>>
    PROVE  StoresInv'
  <1>1. /\ clock \in Nat /\ Seconds \subseteq Nat /\ clock % Wrap \in 0..(Wrap - 1)
        /\ short \in [0..(Wrap - 1) -> Seconds \cup {NoRef}]
    BY NumbersAssumption DEF StoresInv, Seconds
  <1>2. short' \in [0..(Wrap - 1) -> Seconds \cup {NoRef}] /\ local' \subseteq Seconds
    BY <1>1 DEF StoresInv
  <1>3. \A n \in local' : n <= clock'
    BY <1>1 DEF StoresInv
  <1>4. ASSUME NEW n \in local' PROVE short'[n % Wrap] \in local' /\ short'[n % Wrap] >= n
    <2>1. n \in Nat /\ n % Wrap \in 0..(Wrap - 1) /\ n <= clock
      BY <1>1, <1>2, <1>3, NumbersAssumption
    <2>2. CASE n % Wrap = clock % Wrap
      <3>1. short'[n % Wrap] = clock
        BY <1>1, <2>2
      <3>2. QED
        BY <1>1, <2>1, <3>1
    <2>3. CASE n % Wrap # clock % Wrap
      <3>1. n \in local
        BY <2>3
      <3>2. short'[n % Wrap] = short[n % Wrap]
        BY <1>1, <2>1, <2>3
      <3>3. QED
        BY <3>1, <3>2 DEF StoresInv, ShortIdFindsNewest
    <2>4. QED
      BY <2>2, <2>3
  <1>5. ShortIdFindsNewest'
    BY <1>4 DEF ShortIdFindsNewest
  <1>6. QED
    BY <1>2, <1>3, <1>5 DEF StoresInv

LEMMA TickStores == ASSUME StoresInv, Tick PROVE StoresInv'
  <1>1. clock \in Nat /\ clock' = clock + 1 /\ clock' \in Seconds
    BY NumbersAssumption DEF StoresInv, Seconds, Tick
  <1>2. \A n \in local : n \in Nat /\ n <= clock
    BY DEF StoresInv, Seconds
  <1>3. \A n \in local' : n <= clock'
    BY <1>1, <1>2 DEF Tick
  <1>4. ShortIdFindsNewest'
    BY DEF StoresInv, ShortIdFindsNewest, Tick
  <1>5. QED
    BY <1>1, <1>3, <1>4 DEF StoresInv, Tick

\* Only a submit's answers and time change the stores.
LEMMA StoresKeep ==
    ASSUME StoresInv, NEW c \in Calls,
           TurnStep(c) \/ \E i \in Kind \cup {"none"}, d \in BOOLEAN : Say(c, i, d)
    PROVE  StoresInv'
  <1>1. CASE UNCHANGED stores
    BY <1>1 DEF stores, StoresInv, ShortIdFindsNewest
  <1>2. CASE platform' \subseteq PlatformRefs /\ UNCHANGED <<local, short, clock>>
    BY <1>2 DEF StoresInv, ShortIdFindsNewest
  <1>3. CASE BookLocal(c)
    BY <1>3, BookLocalStores DEF BookLocal
  <1>4. CASE \/ \E executed \in BOOLEAN : PostFails(c, executed)
             \/ \E r \in PlatformRefs, ref \in PlatformRefs \cup {Empty}, st \in Remote :
                   Booked(c, r, ref, st)
             \/ BookedOddly(c)
    <2>1. platform \subseteq PlatformRefs
      BY DEF StoresInv
    <2>2. platform' \subseteq PlatformRefs /\ UNCHANGED <<local, short, clock>>
      BY <1>4, <2>1 DEF PostFails, Booked, BookedOddly
    <2>3. QED
      BY <1>2, <2>2
  <1>5. CASE \/ \E i \in Kind \cup {"none"}, d \in BOOLEAN : Say(c, i, d)
             \/ Answer(c) \/ ModelFails(c) \/ UseTools(c) \/ ToolsDone(c) \/ Replied(c)
             \/ IdleTool(c) \/ EndCall(c) \/ \E n \in BOOLEAN : Transfer(c, n)
    <2>1. UNCHANGED stores
      BY <1>5 DEF Say, Answer, ModelFails, UseTools, ToolsDone, Replied, IdleTool, EndCall, Transfer
    <2>2. QED
      BY <1>1, <2>1
  <1>6. CASE \/ OutOfCoverage(c) \/ TrackRaises(c) \/ SubmitRaises(c)
             \/ \E s \in Services : Submit(c, s)
             \/ BookUnsupported(c) \/ Track(c)
    <2>1. UNCHANGED stores
      BY <1>6 DEF OutOfCoverage, TrackRaises, SubmitRaises, Submit, BookUnsupported, Track
    <2>2. QED
      BY <1>1, <2>1
  <1>7. CASE TrackRemote(c) \/ TrackFull(c) \/ TrackShort(c) \/ TrackDigits(c) \/ TrackNothing(c)
    <2>1. UNCHANGED stores
      BY <1>7 DEF TrackRemote, TrackFull, TrackShort, TrackDigits, TrackNothing, Tracked
    <2>2. QED
      BY <1>1, <2>1
  <1>8. QED
    BY <1>3, <1>4, <1>5, <1>6, <1>7 DEF TurnStep

LEMMA InvStep == Inv /\ [Next]_vars => Inv'
  <1> SUFFICES ASSUME Inv, [Next]_vars PROVE Inv'
    OBVIOUS
  <1>a. CallsInv /\ StoresInv
    BY DEF Inv
  <1>1. ASSUME NEW c \in Calls,
               TurnStep(c) \/ \E i \in Kind \cup {"none"}, d \in BOOLEAN : Say(c, i, d)
        PROVE  Inv'
    <2>1. CallsInv'
      BY <1>a, <1>1, TurnKeeps, ToolKeeps DEF TurnStep
    <2>2. StoresInv'
      BY <1>a, <1>1, StoresKeep
    <2>3. QED
      BY <2>1, <2>2 DEF Inv
  <1>2. CASE Tick
    <2>1. CallsInv'
      BY <1>a, <1>2 DEF Tick, CallsInv
    <2>2. QED
      BY <1>a, <1>2, <2>1, TickStores DEF Inv
  <1>3. CASE UNCHANGED vars
    <2>1. CallsInv' /\ StoresInv'
      BY <1>a, <1>3 DEF vars, CallsInv, StoresInv, ShortIdFindsNewest
    <2>2. QED
      BY <2>1 DEF Inv
  <1>4. QED
    BY <1>1, <1>2, <1>3 DEF Next

-----------------------------------------------------------------------------
(* The theorems.                                                           *)

\* The invariant holds in every state: what is written about a call's turn,
\* order and facts, and about the fallback's indexes, is kept by every step.
THEOREM DeskInvariant == Spec => []Inv
  BY InvInit, InvStep, PTL DEF Spec

\* Every variable keeps its type.
THEOREM DeskTypes == Spec => []TypeOK
  <1>1. Inv => TypeOK
    BY DEF Inv, CallsInv, StoresInv, TypeOK
  <1>2. QED
    BY <1>1, DeskInvariant, PTL

\* One submit_booking stores at most one booking per attempt and one more.
THEOREM CopiesAreBounded == Spec => []CopiesBounded
  <1>1. Inv => CopiesBounded
    <2> SUFFICES ASSUME Inv, NEW c \in Calls PROVE turn[c].copies <= MaxAttempts + 1
      BY DEF CopiesBounded
    <2>1. turn[c] \in Turn /\ TurnInv(turn[c])
      BY CallGood DEF Inv
    <2>2. QED
      BY <2>1, NumbersAssumption DEF Turn, TurnInv
  <1>2. QED
    BY <1>1, DeskInvariant, PTL

\* A short id given out always leads to a booking, the newest of that id.
THEOREM ShortIdsFindNewest == Spec => []ShortIdFindsNewest
  <1>1. Inv => ShortIdFindsNewest
    BY DEF Inv, StoresInv
  <1>2. QED
    BY <1>1, DeskInvariant, PTL

\* A call with a booking is reported as a booking or a tracking, and so disposed.
THEOREM BookingsAreReported == Spec => []BookingIsReported
  <1>1. Inv => BookingIsReported
    <2> SUFFICES ASSUME Inv, NEW c \in Calls, NEW heard \in Heard, facts[c].completed,
                        NEW hasShort \in ShortId(c)
                 PROVE  /\ InteractionType(c, heard) \in {"booking", "tracking"}
                        /\ FinalDisposition(c, heard, hasShort) \in {"booking_confirmed", "booking_request",
                              "booking_tracking", "transferred_to_human"}
      BY DEF BookingIsReported
    <2>1. facts[c].interaction \in {"booking", "tracking"}
      BY CallGood DEF Inv, FactsInv
    <2>2. Explicit(c) = facts[c].interaction /\ Explicit(c) \in Kind
      BY <2>1 DEF Explicit, Kind
    <2>3. InteractionType(c, heard) = Explicit(c)
      BY <2>2 DEF InteractionType
    <2>4. InteractionType(c, heard) \in {"booking", "tracking"}
      BY <2>1, <2>2, <2>3
    <2>5. QED
      BY <2>4 DEF FinalDisposition
  <1>2. QED
    BY <1>1, DeskInvariant, PTL

\* The report names the booking or tracking answered last with its own status,
\* and without any such answer it confirms nothing.
THEOREM LastAnswersAreReported == Spec => []LastAnswerReported
  <1>1. Inv => LastAnswerReported
    <2> SUFFICES ASSUME Inv, NEW c \in Calls
                 PROVE  IF told[c] # NoAnswer
                        THEN ReportRef(c) = told[c].ref /\ order[c].status = told[c].status
                        ELSE \A heard \in Heard, hasShort \in ShortId(c) :
                                 BookingStatus(c, heard, hasShort) # "confirmed"
      BY DEF LastAnswerReported
    <2>1. AnswerInv(order[c], facts[c], told[c])
      BY CallGood DEF Inv
    <2>2. CASE told[c] # NoAnswer
      <3>1. order[c].ref # NoRef /\ order[c].ref = told[c].ref /\ order[c].status = told[c].status
        BY <2>1, <2>2 DEF AnswerInv
      <3>2. ReportRef(c) = order[c].ref
        BY <3>1 DEF ReportRef
      <3>3. QED
        BY <2>2, <3>1, <3>2
    <2>3. CASE told[c] = NoAnswer
      <3>1. /\ order[c].ref = NoRef /\ order[c].status \in {"none", "pending"}
            /\ ~facts[c].completed /\ facts[c].lastRef = NoRef
        BY <2>1, <2>3 DEF AnswerInv, NoAnswer
      <3>2. ASSUME NEW heard \in Heard, NEW hasShort \in ShortId(c)
            PROVE  BookingStatus(c, heard, hasShort) # "confirmed"
        <4>1. ~hasShort /\ ReportRef(c) \notin Refs
          BY <3>1, RefsAssumption DEF ShortId, ReportRef
        <4>2. QED
          BY <3>1, <4>1 DEF BookingStatus
      <3>3. QED
        BY <2>3, <3>2
    <2>4. QED
      BY <2>2, <2>3
  <1>2. QED
    BY <1>1, DeskInvariant, PTL

\* A Dial goes out only for a session marked as transferred.
THEOREM DialsAreMarked == Spec => []DialIsMarked
  <1>1. Inv => DialIsMarked
    <2> SUFFICES ASSUME Inv, NEW c \in Calls, Twiml(c) = "dial" PROVE facts[c].transferred
      BY DEF DialIsMarked
    <2>1. turn[c].action = "transfer" /\ turn[c].number
      BY DEF Twiml
    <2>2. FactsInv(turn[c], facts[c])
      BY CallGood DEF Inv
    <2>3. QED
      BY <2>1, <2>2 DEF FactsInv
  <1>2. QED
    BY <1>1, DeskInvariant, PTL

=============================================================================
