----------------------- MODULE CallLifecycleProofs -----------------------
(***************************************************************************)
(* Proofs about CallLifecycle, for any set of calls and session objects    *)
(* and any TTL no shorter than a request: type correctness, the inductive  *)
(* invariant, the safety properties it implies, and that CallLog is        *)
(* implemented.                                                            *)
(***************************************************************************)
EXTENDS CallLifecycle, FiniteSetTheorems, TLAPS

-----------------------------------------------------------------------------
(* Types.                                                                  *)

\* The records the handlers start from, and the reports they build.
LEMMA RecordTypes ==
    /\ \A pc \in {"idle", "fetch", "refresh", "voice"}, speech \in BOOLEAN,
         s \in Sessions \cup {NoSession} : Request(pc, speech, s) \in Hook
    /\ NoHook \in Hook
    /\ NoStatus \in Status
    /\ NewSession \in Session
  BY TTLAssumption, MaxTurnsAssumption
  DEF Request, NoHook, Hook, Reply, Report, NoReport, NoStatus, Status, NewSession, Session

\* The updates the handlers make to the state of a webhook stay in its type.
LEMMA HookUpdates ==
    ASSUME NEW h \in Hook
    PROVE  /\ \A pc \in {"greet", "voice", "llm"} : [h EXCEPT !.pc = pc] \in Hook
           /\ \A s \in Sessions : [h EXCEPT !.pc = "refresh", !.sess = s] \in Hook
           /\ \A pc \in {"voice", "fetch"} : [h EXCEPT !.pc = pc, !.again = TRUE] \in Hook
           /\ \A reply \in Reply : [h EXCEPT !.pc = "reply", !.reply = reply] \in Hook
           /\ [h EXCEPT !.pc = "voice", !.sess = NoSession] \in Hook
           /\ \A r \in Report : [h EXCEPT !.pc = "push", !.report = r] \in Hook
  BY DEF Hook

LEMMA SessionUpdates ==
    ASSUME NEW x \in Session
    PROVE  /\ [x EXCEPT !.age = 0] \in Session
           /\ \A t \in BOOLEAN : [x EXCEPT !.transferred = @ \/ t] \in Session
           /\ x.turns < MaxTurns => [x EXCEPT !.turns = @ + 1] \in Session
  BY TTLAssumption, MaxTurnsAssumption DEF Session

LEMMA ReportType ==
    ASSUME TypeOK, NEW s \in Sessions
    PROVE  /\ ReportOf(s) \in Report
           /\ \A r \in Record : [r EXCEPT !.ended = TRUE, !.turns = session[s].turns,
                                          !.transferred = session[s].transferred] \in Record
  BY DEF TypeOK, Session, Report, ReportOf, Record

LEMMA TypeStep == TypeOK /\ [Next]_vars => TypeOK'
  <1> SUFFICES ASSUME TypeOK, [Next]_vars PROVE TypeOK'
    OBVIOUS
  <1>a. ASSUME NEW c \in Calls PROVE hook[c] \in Hook /\ store[c] \in Sessions \cup {NoSession}
    BY <1>a DEF TypeOK
  <1>b. ASSUME NEW s \in Sessions PROVE session[s] \in Session
    BY <1>b DEF TypeOK
  <1>1. ASSUME NEW c \in Calls, NEW speech \in BOOLEAN, IncomingNew(c, speech) PROVE TypeOK'
    BY <1>1, RecordTypes DEF TypeOK, IncomingNew, Ask, Drop, Phase
  <1>2. ASSUME NEW c \in Calls, IncomingSilent(c) PROVE TypeOK'
    BY <1>2, <1>a, <1>b, RecordTypes, SessionUpdates DEF TypeOK, IncomingSilent, Ask, Live, Touch, Phase
  <1>3. ASSUME NEW c \in Calls, IncomingSpeech(c) PROVE TypeOK'
    <2>1. hook' \in [Calls -> Hook] /\ phase' \in [Calls -> Phase]
      BY <1>3, <1>a, RecordTypes DEF TypeOK, IncomingSpeech, Ask, Live, Phase
    <2>2. session' \in [Sessions -> Session] /\ store' \in [Calls -> Sessions \cup {NoSession}]
      BY <1>3, <1>a, <1>b, SessionUpdates DEF TypeOK, IncomingSpeech, Live, Prune, Touch
    <2>3. QED
      BY <1>3, <2>1, <2>2 DEF TypeOK, IncomingSpeech
  <1>4. ASSUME NEW c \in Calls, NEW s \in Sessions, StartSession(c, s) PROVE TypeOK'
    BY <1>4, <1>a, RecordTypes, HookUpdates DEF TypeOK, StartSession, Build, Wait, Record
  <1>5. ASSUME NEW c \in Calls, GreetSilent(c) PROVE TypeOK'
    <2>1. hook' \in [Calls -> Hook]
      BY <1>5, <1>a, HookUpdates DEF TypeOK, GreetSilent, Wait
    <2>2. CASE Live(c) /\ Touch(store[c]) /\ UNCHANGED store
      <3>1. session' \in [Sessions -> Session]
        BY <2>2, <1>a, <1>b, SessionUpdates DEF TypeOK, Live, Touch
      <3>2. QED
        BY <1>5, <2>1, <2>2, <3>1 DEF TypeOK, GreetSilent
    <2>3. CASE ~Live(c) /\ Drop(c) /\ UNCHANGED session
      BY <1>5, <2>1, <2>3 DEF TypeOK, GreetSilent, Drop
    <2>4. QED
      BY <1>5, <2>2, <2>3 DEF GreetSilent, Get
  <1>6. ASSUME NEW c \in Calls, GreetSpeech(c) PROVE TypeOK'
    BY <1>6, <1>a, <1>b, HookUpdates, SessionUpdates DEF TypeOK, GreetSpeech, Live, Prune, Touch
  <1>7. ASSUME NEW c \in Calls, GreetGone(c) PROVE TypeOK'
    BY <1>7, <1>a, HookUpdates DEF TypeOK, GreetGone, Drop
  <1>8. ASSUME NEW c \in Calls, UserTurn(c) PROVE TypeOK'
    BY <1>8, <1>a, <1>b, HookUpdates, SessionUpdates DEF TypeOK, UserTurn, Wait
  <1>9. ASSUME NEW c \in Calls, NEW reply \in Reply, NEW x \in BOOLEAN, ModelTurn(c, reply, x)
        PROVE TypeOK'
    BY <1>9, <1>a, <1>b, HookUpdates, SessionUpdates DEF TypeOK, ModelTurn
  <1>10. ASSUME NEW c \in Calls, SaveTurn(c) PROVE TypeOK'
    <2>1. hook[c].sess \in Sessions \cup {NoSession}
      BY <1>a DEF Hook
    <2>2. hook' \in [Calls -> Hook] /\ store' \in [Calls -> Sessions \cup {NoSession}]
      BY <1>10, <2>1, <1>a, HookUpdates DEF TypeOK, SaveTurn
    <2>3. session' \in [Sessions -> Session]
      <3>1. CASE hook[c].sess \in Sessions
        BY <1>10, <3>1, <1>b, SessionUpdates DEF TypeOK, SaveTurn, Touch
      <3>2. CASE hook[c].sess \notin Sessions
        BY <1>10, <3>2 DEF TypeOK, SaveTurn, Touch
      <3>3. QED
        BY <3>1, <3>2
    <2>4. QED
      BY <1>10, <2>2, <2>3 DEF TypeOK, SaveTurn
  <1>11. ASSUME NEW c \in Calls, Speak(c) PROVE TypeOK'
    BY <1>11, RecordTypes DEF TypeOK, Speak, Respond, Phase, Hook, Reply
  <1>12. ASSUME NEW c \in Calls, HangupEnds(c) PROVE TypeOK'
    BY <1>12, <1>a, <1>b, HookUpdates, SessionUpdates, ReportType
    DEF TypeOK, HangupEnds, CloseRecord, Live, Touch
  <1>13. ASSUME NEW c \in Calls, HangupNothing(c) PROVE TypeOK'
    BY <1>13, RecordTypes DEF TypeOK, HangupNothing, NothingToClose, Drop, Respond, Phase
  <1>14. ASSUME NEW c \in Calls, NEW ok \in BOOLEAN, HangupPushed(c, ok) PROVE TypeOK'
    BY <1>14, RecordTypes DEF TypeOK, HangupPushed, Delivered, Drop, Respond, Phase, Hook
  <1>15. ASSUME NEW c \in Calls, StatusEnds(c) PROVE TypeOK'
    BY <1>15, <1>a, <1>b, SessionUpdates, ReportType
    DEF TypeOK, StatusEnds, CloseRecord, Live, Touch, Status, Phase
  <1>16. ASSUME NEW c \in Calls, StatusNothing(c) PROVE TypeOK'
    BY <1>16 DEF TypeOK, StatusNothing, NothingToClose, Drop, Phase
  <1>17. ASSUME NEW c \in Calls, NEW ok \in BOOLEAN, StatusPushed(c, ok) PROVE TypeOK'
    BY <1>17, RecordTypes DEF TypeOK, StatusPushed, Delivered, Drop, Status
  <1>18. ASSUME NEW c \in Calls, CallEnds(c) \/ StatusLost(c) PROVE TypeOK'
    BY <1>18 DEF TypeOK, CallEnds, StatusLost, Phase
  <1>19. CASE Tick
    <2>1. ASSUME NEW s \in Sessions
          PROVE [session[s] EXCEPT !.age = IF @ > TTL THEN @ ELSE @ + 1] \in Session
      BY <2>1, <1>b, TTLAssumption DEF Session
    <2>2. ASSUME NEW c \in Calls, hook[c].pc # "idle"
          PROVE [hook[c] EXCEPT !.elapsed = @ + 1] \in Hook
      BY <1>19, <2>2, <1>a, TTLAssumption DEF Tick, Hook
    <2>3. QED
      BY <1>19, <1>a, <2>1, <2>2 DEF TypeOK, Tick
  <1>20. ASSUME NEW c \in Calls, ReportAsked(c) PROVE TypeOK'
    <2>1. CASE Live(c) /\ Touch(store[c]) /\ UNCHANGED store
      <3>1. session' \in [Sessions -> Session]
        BY <2>1, <1>a, <1>b, SessionUpdates DEF TypeOK, Live, Touch
      <3>2. QED
        BY <1>20, <2>1, <3>1 DEF TypeOK, ReportAsked
    <2>2. CASE ~Live(c) /\ Drop(c) /\ UNCHANGED session
      BY <1>20, <2>2 DEF TypeOK, ReportAsked, Drop
    <2>3. QED
      BY <1>20, <2>1, <2>2 DEF ReportAsked, Get
  <1>21. CASE UNCHANGED vars
    BY <1>21 DEF TypeOK, vars
  <1>22. QED
    BY <1>1, <1>2, <1>3, <1>4, <1>5, <1>6, <1>7, <1>8, <1>9, <1>10, <1>11, <1>12, <1>13,
       <1>14, <1>15, <1>16, <1>17, <1>18, <1>19, <1>20, <1>21
    DEF Next, HookStep, Caller, StatusStep, Callback

-----------------------------------------------------------------------------
(* The inductive invariant.                                                *)

LEMMA InvInit == Init => IInv
  <1> SUFFICES ASSUME Init PROVE IInv
    OBVIOUS
  <1>1. TypeOK
    BY RecordTypes, MaxTurnsAssumption DEF Init, TypeOK, NoRecord, Record, Phase
  <1>2. DisjointInv
    BY DEF Init, DisjointInv, Held, NoHook, Request
  <1>3. ASSUME NEW c \in Calls PROVE CallInv(c)
    BY DEF Init, CallInv, ProtocolInv, SessionInv, KeptInv, AgainInv, ContentsInv, Contents,
           NoReport, NoHook, Request, NoStatus, NoRecord, Answering, InTurn
  <1>4. QED
    BY <1>1, <1>2, <1>3 DEF IInv

\* What a handler's session age says: it is not expired.
LEMMA HeldIsLive ==
    ASSUME IInv, NEW c \in Calls, hook[c].pc \in Answering, store[c] # NoSession
    PROVE  Live(c)
  <1>1. hook[c].elapsed <= RequestSpan /\ hook[c].elapsed \in Nat /\ session[store[c]].age \in Nat
    BY TTLAssumption DEF IInv, TypeOK, Hook, Session
  <1>2. session[store[c]].age <= hook[c].elapsed
    BY DEF IInv, CallInv, KeptInv
  <1>3. QED
    BY <1>1, <1>2, TTLAssumption DEF Live, Expired

\* A step of another call leaves this call's invariant alone, also when it
\* prunes this call's expired session.
LEMMA Frame ==
    ASSUME IInv, NEW c \in Calls,
           hook'[c] = hook[c], status'[c] = status[c], phase'[c] = phase[c], record'[c] = record[c],
           store'[c] = store[c] \/ (store'[c] = NoSession /\ ~Live(c)),
           \A s \in Held(c) : session'[s] = session[s]
    PROVE  CallInv(c)'
  <1>1. CallInv(c) /\ hook[c] \in Hook /\ store[c] \in Sessions \cup {NoSession}
    BY DEF IInv, TypeOK
  <1>2. CASE store'[c] = store[c]
    <2>1. /\ store[c] # NoSession => session'[store[c]] = session[store[c]]
          /\ hook[c].sess # NoSession => session'[hook[c].sess] = session[hook[c].sess]
      BY DEF Held
    <2>2. hook[c].pc \in InTurn => hook[c].sess # NoSession
      BY <1>1, SessionsAssumption DEF CallInv, SessionInv
    <2>3. QED
      BY <1>1, <1>2, <2>1, <2>2
      DEF CallInv, ProtocolInv, SessionInv, KeptInv, Sheltered, AgainInv, ContentsInv, Contents,
          ReportOf, Extends
  <1>3. CASE store'[c] = NoSession /\ ~Live(c)
    <2>1. hook[c].sess # NoSession => session'[hook[c].sess] = session[hook[c].sess]
      BY DEF Held
    <2>2. hook[c].pc \in InTurn => hook[c].sess # NoSession
      BY <1>1, SessionsAssumption DEF CallInv, SessionInv
    <2>3. hook[c].pc \in Answering => store[c] = NoSession
      BY <1>3, HeldIsLive
    <2>4. QED
      BY <1>1, <1>3, <2>1, <2>2, <2>3
      DEF CallInv, ProtocolInv, SessionInv, KeptInv, Sheltered, AgainInv, ContentsInv, Contents,
          ReportOf, Extends
  <1>4. QED
    BY <1>2, <1>3

\* Calls that hold no new session still share none.
LEMMA DisjointShrinks ==
    ASSUME DisjointInv, \A c \in Calls : Held(c)' \subseteq Held(c)
    PROVE  DisjointInv'
  BY DEF DisjointInv

\* A step of call c, which changes only c's own entries and the sessions c
\* holds, and may prune, leaves every other call's invariant alone.
LEMMA OthersFramed ==
    ASSUME IInv, NEW c \in Calls, NEW x \in Calls, x # c,
           hook'[x] = hook[x], status'[x] = status[x], phase'[x] = phase[x], record'[x] = record[x],
           store'[x] = store[x] \/ (store'[x] = NoSession /\ ~Live(x)),
           \A s \in Sessions \ Held(c) : session'[s] = session[s]
    PROVE  CallInv(x)'
  <1>a. Held(x) \cap Held(c) = {}
    BY DEF IInv, DisjointInv
  <1>b. Held(x) \subseteq Sessions
    BY DEF IInv, TypeOK, Held, Hook
  <1>1. \A s \in Held(x) : s \in Sessions \ Held(c)
    BY <1>a, <1>b
  <1>2. QED
    BY <1>1, Frame

Rest == DisjointInv /\ \A c \in Calls : CallInv(c)

LEMMA InvStep == IInv /\ [Next]_vars => IInv'
  <1> SUFFICES ASSUME IInv, [Next]_vars PROVE Rest'
    BY TypeStep DEF IInv, Rest
  <1>a. TypeOK /\ DisjointInv /\ \A c \in Calls : CallInv(c)
    BY DEF IInv
  <1>1. ASSUME NEW c \in Calls, NEW speech \in BOOLEAN, IncomingNew(c, speech) PROVE Rest'
    <2>1. ASSUME NEW y \in Calls, y # c PROVE CallInv(y)'
      <3>1. /\ hook'[y] = hook[y] /\ status'[y] = status[y]
            /\ phase'[y] = phase[y] /\ record'[y] = record[y]
            /\ store'[y] = store[y] \/ (store'[y] = NoSession /\ ~Live(y))
        BY <1>1, <2>1, <1>a DEF TypeOK, IncomingNew, Ask, Drop
      <3>2. \A z \in Sessions \ Held(c) : session'[z] = session[z]
        BY <1>1, <1>a DEF TypeOK, Held, IncomingNew, Ask, Drop
      <3>3. QED
        BY <2>1, <3>1, <3>2, OthersFramed
    <2>2. CallInv(c)'
      BY <1>1, <1>a DEF TypeOK, Hook, Session, Status, Record, IncomingNew, Ask, Drop, Request, 
          CallInv, ProtocolInv, SessionInv, KeptInv, Sheltered, AgainInv, ContentsInv, Contents, Answering, InTurn
    <2>3. DisjointInv'
      BY <1>1, <1>a, DisjointShrinks DEF TypeOK, Hook, Held, IncomingNew, Ask, Drop, NoHook, Request
    <2>4. QED
      BY <2>1, <2>2, <2>3 DEF Rest
  <1>2. ASSUME NEW c \in Calls, IncomingSilent(c) PROVE Rest'
    <2>1. ASSUME NEW y \in Calls, y # c PROVE CallInv(y)'
      <3>1. /\ hook'[y] = hook[y] /\ status'[y] = status[y]
            /\ phase'[y] = phase[y] /\ record'[y] = record[y]
            /\ store'[y] = store[y] \/ (store'[y] = NoSession /\ ~Live(y))
        BY <1>2, <2>1, <1>a DEF TypeOK, IncomingSilent, Ask, Touch, Live
      <3>2. \A z \in Sessions \ Held(c) : session'[z] = session[z]
        BY <1>2, <1>a DEF TypeOK, Held, IncomingSilent, Ask, Touch, Live
      <3>3. QED
        BY <2>1, <3>1, <3>2, OthersFramed
    <2>2. CallInv(c)'
      BY <1>2, <1>a DEF TypeOK, Hook, Session, Status, Record, IncomingSilent, Ask, Touch, Live, Request, ReportOf, Extends, 
          CallInv, ProtocolInv, SessionInv, KeptInv, Sheltered, AgainInv, ContentsInv, Contents, Answering, InTurn
    <2>3. DisjointInv'
      BY <1>2, <1>a, DisjointShrinks DEF TypeOK, Hook, Held, IncomingSilent, Ask, Touch, Live, NoHook, Request
    <2>4. QED
      BY <2>1, <2>2, <2>3 DEF Rest
  <1>3. ASSUME NEW c \in Calls, IncomingSpeech(c) PROVE Rest'
    <2>1. ASSUME NEW y \in Calls, y # c PROVE CallInv(y)'
      <3>1. /\ hook'[y] = hook[y] /\ status'[y] = status[y]
            /\ phase'[y] = phase[y] /\ record'[y] = record[y]
            /\ store'[y] = store[y] \/ (store'[y] = NoSession /\ ~Live(y))
        BY <1>3, <2>1, <1>a DEF TypeOK, IncomingSpeech, Ask, Touch, Prune, Live
      <3>2. \A z \in Sessions \ Held(c) : session'[z] = session[z]
        BY <1>3, <1>a DEF TypeOK, Held, IncomingSpeech, Ask, Touch, Prune, Live
      <3>3. QED
        BY <2>1, <3>1, <3>2, OthersFramed
    <2>2. CallInv(c)'
      <3>1. /\ hook'[c] = Request("refresh", TRUE, store[c])
            /\ store'[c] = store[c] /\ session'[store[c]] = [session[store[c]] EXCEPT !.age = 0]
            /\ phase'[c] = "asking" /\ status'[c] = status[c] /\ record'[c] = record[c]
        BY <1>3, <1>a DEF TypeOK, IncomingSpeech, Ask, Touch, Prune, Live
      <3>2. /\ CallInv(c) /\ hook[c].pc = "idle" /\ phase[c] \in {"listening", "idle"}
            /\ store[c] \in Sessions /\ session[store[c]] \in Session
        BY <1>3, <1>a DEF TypeOK, IncomingSpeech, Ask, Live
      <3>3. QED
        BY <3>1, <3>2, SessionsAssumption, TTLAssumption
        DEF Session, Request, ReportOf, Extends, CallInv, ProtocolInv, SessionInv, KeptInv, Sheltered, AgainInv,
                ContentsInv, Contents, Answering, InTurn
    <2>3. DisjointInv'
      BY <1>3, <1>a, DisjointShrinks DEF TypeOK, Hook, Held, IncomingSpeech, Ask, Touch, Prune, Live, NoHook, Request
    <2>4. QED
      BY <2>1, <2>2, <2>3 DEF Rest
  <1>4. ASSUME NEW c \in Calls, NEW s \in Sessions, StartSession(c, s) PROVE Rest'
    <2>a. \A y \in Calls : s \notin Held(y)
      BY <1>4 DEF StartSession, Build, Free, Held
    <2>1. ASSUME NEW y \in Calls, y # c PROVE CallInv(y)'
      <3>1. /\ hook'[y] = hook[y] /\ status'[y] = status[y]
            /\ phase'[y] = phase[y] /\ record'[y] = record[y]
            /\ store'[y] = store[y]
        BY <1>4, <2>1, <1>a DEF TypeOK, StartSession, Build, Wait
      <3>2. \A z \in Held(y) : session'[z] = session[z]
        BY <1>4, <2>a, <1>a DEF TypeOK, StartSession, Build
      <3>3. QED
        BY <2>1, <3>1, <3>2, Frame
    <2>2. CallInv(c)'
      <3>1. /\ hook'[c] = [hook[c] EXCEPT !.pc = "greet"]
            /\ record'[c] = [record[c] EXCEPT !.started = TRUE]
            /\ store'[c] = s /\ session'[s] = NewSession
            /\ phase'[c] = phase[c] /\ status'[c] = status[c]
        BY <1>4, <1>a DEF TypeOK, StartSession, Build, Wait
      <3>2. CallInv(c) /\ hook[c] \in Hook /\ hook[c].pc = "fetch" /\ record[c] \in Record
        BY <1>4, <1>a DEF TypeOK, StartSession, Build
      <3>3. QED
        BY <3>1, <3>2, SessionsAssumption, TTLAssumption
        DEF Hook, Record, NewSession, NoReport, ReportOf, Extends, CallInv, ProtocolInv, SessionInv, KeptInv, Sheltered, AgainInv,
                ContentsInv, Contents, Answering, InTurn
    <2>3. DisjointInv'
      <3>1. Held(c)' = {s}
        BY <1>4, <1>a, SessionsAssumption
        DEF TypeOK, Hook, Held, StartSession, Build, Wait, CallInv, SessionInv, InTurn
      <3>2. ASSUME NEW y \in Calls, y # c PROVE Held(y)' = Held(y)
        BY <1>4, <3>2, <1>a DEF TypeOK, Held, StartSession, Build, Wait
      <3>3. QED
        BY <2>a, <3>1, <3>2, <1>a DEF DisjointInv
    <2>4. QED
      BY <2>1, <2>2, <2>3 DEF Rest
  <1>5. ASSUME NEW c \in Calls, GreetSilent(c) PROVE Rest'
    <2>1. ASSUME NEW y \in Calls, y # c PROVE CallInv(y)'
      <3>1. /\ hook'[y] = hook[y] /\ status'[y] = status[y]
            /\ phase'[y] = phase[y] /\ record'[y] = record[y]
            /\ store'[y] = store[y] \/ (store'[y] = NoSession /\ ~Live(y))
        BY <1>5, <2>1, <1>a DEF TypeOK, GreetSilent, Get, Touch, Drop, Wait, Live
      <3>2. \A z \in Sessions \ Held(c) : session'[z] = session[z]
        BY <1>5, <1>a DEF TypeOK, Held, GreetSilent, Get, Touch, Drop, Wait, Live
      <3>3. QED
        BY <2>1, <3>1, <3>2, OthersFramed
    <2>2. CallInv(c)'
      <3>1. /\ hook'[c] = [hook[c] EXCEPT !.pc = "voice"]
            /\ phase'[c] = phase[c] /\ status'[c] = status[c] /\ record'[c] = record[c]
        BY <1>5, <1>a DEF TypeOK, GreetSilent, Wait
      <3>2. /\ CallInv(c) /\ hook[c] \in Hook /\ hook[c].pc = "greet"
            /\ store[c] # NoSession => store[c] \in Sessions /\ session[store[c]] \in Session
        BY <1>5, <1>a DEF TypeOK, GreetSilent
      <3>3. CASE store[c] # NoSession
        <4>1. store'[c] = store[c] /\ session'[store[c]] = [session[store[c]] EXCEPT !.age = 0]
          BY <1>5, <3>2, <3>3, <1>a, HeldIsLive DEF TypeOK, GreetSilent, Get, Touch, Answering
        <4>2. QED
          BY <3>1, <3>2, <3>3, <4>1, TTLAssumption DEF Hook, Session, ReportOf, Extends, CallInv, ProtocolInv, SessionInv, KeptInv, Sheltered, AgainInv,
                ContentsInv, Contents, Answering, InTurn
      <3>4. CASE store[c] = NoSession
        <4>1. store'[c] = NoSession
          BY <1>5, <3>4, <1>a DEF TypeOK, GreetSilent, Get, Drop
        <4>2. QED
          BY <3>1, <3>2, <3>4, <4>1 DEF Hook, ReportOf, Extends, CallInv, ProtocolInv, SessionInv, KeptInv, Sheltered, AgainInv,
                ContentsInv, Contents, Answering, InTurn
      <3>5. QED
        BY <3>3, <3>4
    <2>3. DisjointInv'
      BY <1>5, <1>a, DisjointShrinks DEF TypeOK, Hook, Held, GreetSilent, Get, Touch, Drop, Wait, Live
    <2>4. QED
      BY <2>1, <2>2, <2>3 DEF Rest
  <1>6. ASSUME NEW c \in Calls, GreetSpeech(c) PROVE Rest'
    <2>1. ASSUME NEW y \in Calls, y # c PROVE CallInv(y)'
      <3>1. /\ hook'[y] = hook[y] /\ status'[y] = status[y]
            /\ phase'[y] = phase[y] /\ record'[y] = record[y]
            /\ store'[y] = store[y] \/ (store'[y] = NoSession /\ ~Live(y))
        BY <1>6, <2>1, <1>a DEF TypeOK, GreetSpeech, Touch, Prune, Live
      <3>2. \A z \in Sessions \ Held(c) : session'[z] = session[z]
        BY <1>6, <1>a DEF TypeOK, Held, GreetSpeech, Touch, Prune, Live
      <3>3. QED
        BY <2>1, <3>1, <3>2, OthersFramed
    <2>2. CallInv(c)'
      BY <1>6, <1>a DEF TypeOK, Hook, Session, Status, Record, GreetSpeech, Touch, Prune, Live, ReportOf, Extends, 
          CallInv, ProtocolInv, SessionInv, KeptInv, Sheltered, AgainInv, ContentsInv, Contents, Answering, InTurn
    <2>3. DisjointInv'
      BY <1>6, <1>a, DisjointShrinks DEF TypeOK, Hook, Held, GreetSpeech, Touch, Prune, Live
    <2>4. QED
      BY <2>1, <2>2, <2>3 DEF Rest
  <1>7. ASSUME NEW c \in Calls, GreetGone(c) PROVE Rest'
    <2>1. ASSUME NEW y \in Calls, y # c PROVE CallInv(y)'
      <3>1. /\ hook'[y] = hook[y] /\ status'[y] = status[y]
            /\ phase'[y] = phase[y] /\ record'[y] = record[y]
            /\ store'[y] = store[y] \/ (store'[y] = NoSession /\ ~Live(y))
        BY <1>7, <2>1, <1>a DEF TypeOK, GreetGone, Drop
      <3>2. \A z \in Sessions \ Held(c) : session'[z] = session[z]
        BY <1>7, <1>a DEF TypeOK, Held, GreetGone, Drop
      <3>3. QED
        BY <2>1, <3>1, <3>2, OthersFramed
    <2>2. CallInv(c)'
      <3>1. store[c] = NoSession
        BY <1>7, HeldIsLive DEF GreetGone, Answering
      <3>2. /\ hook'[c] = [hook[c] EXCEPT !.pc = IF hook[c].again THEN "voice" ELSE "fetch",
                                          !.again = TRUE]
            /\ store'[c] = NoSession /\ phase'[c] = phase[c]
            /\ status'[c] = status[c] /\ record'[c] = record[c]
        BY <1>7, <1>a DEF TypeOK, GreetGone, Drop
      <3>3. CallInv(c) /\ hook[c] \in Hook /\ hook[c].pc = "greet" /\ status[c] \in Status
        BY <1>7, <1>a DEF TypeOK, GreetGone
      <3>4. QED
        BY <3>1, <3>2, <3>3 DEF Hook, Status, CallInv, ProtocolInv, SessionInv, KeptInv, Sheltered, AgainInv,
                ContentsInv, Contents, Answering, InTurn
    <2>3. DisjointInv'
      BY <1>7, <1>a, DisjointShrinks DEF TypeOK, Hook, Held, GreetGone, Drop
    <2>4. QED
      BY <2>1, <2>2, <2>3 DEF Rest
  <1>8. ASSUME NEW c \in Calls, UserTurn(c) PROVE Rest'
    <2>1. ASSUME NEW y \in Calls, y # c PROVE CallInv(y)'
      <3>1. /\ hook'[y] = hook[y] /\ status'[y] = status[y]
            /\ phase'[y] = phase[y] /\ record'[y] = record[y]
            /\ store'[y] = store[y] \/ (store'[y] = NoSession /\ ~Live(y))
        BY <1>8, <2>1, <1>a DEF TypeOK, UserTurn, Wait
      <3>2. \A z \in Sessions \ Held(c) : session'[z] = session[z]
        <4>1. hook[c].sess \in Held(c)
          BY <1>8, <1>a, SessionsAssumption DEF UserTurn, CallInv, SessionInv, InTurn, Held
        <4>2. QED
          BY <1>8, <4>1, <1>a DEF TypeOK, UserTurn, Wait
      <3>3. QED
        BY <2>1, <3>1, <3>2, OthersFramed
    <2>2. CallInv(c)'
      BY <1>8, <1>a DEF TypeOK, Hook, Session, Status, Record, UserTurn, Wait, ReportOf, Extends, 
          CallInv, ProtocolInv, SessionInv, KeptInv, Sheltered, AgainInv, ContentsInv, Contents, Answering, InTurn
    <2>3. DisjointInv'
      BY <1>8, <1>a, DisjointShrinks DEF TypeOK, Hook, Held, UserTurn, Wait
    <2>4. QED
      BY <2>1, <2>2, <2>3 DEF Rest
  <1>9. ASSUME NEW c \in Calls, NEW reply \in Reply, NEW x \in BOOLEAN, ModelTurn(c, reply, x) PROVE Rest'
    <2>1. ASSUME NEW y \in Calls, y # c PROVE CallInv(y)'
      <3>1. /\ hook'[y] = hook[y] /\ status'[y] = status[y]
            /\ phase'[y] = phase[y] /\ record'[y] = record[y]
            /\ store'[y] = store[y] \/ (store'[y] = NoSession /\ ~Live(y))
        BY <1>9, <2>1, <1>a DEF TypeOK, ModelTurn
      <3>2. \A z \in Sessions \ Held(c) : session'[z] = session[z]
        <4>1. hook[c].sess \in Held(c)
          BY <1>9, <1>a, SessionsAssumption DEF ModelTurn, CallInv, SessionInv, InTurn, Held
        <4>2. QED
          BY <1>9, <4>1, <1>a DEF TypeOK, ModelTurn
      <3>3. QED
        BY <2>1, <3>1, <3>2, OthersFramed
    <2>2. CallInv(c)'
      BY <1>9, <1>a DEF TypeOK, Hook, Session, Status, Record, ModelTurn, ReportOf, Extends, 
          CallInv, ProtocolInv, SessionInv, KeptInv, Sheltered, AgainInv, ContentsInv, Contents, Answering, InTurn
    <2>3. DisjointInv'
      BY <1>9, <1>a, DisjointShrinks DEF TypeOK, Hook, Held, ModelTurn
    <2>4. QED
      BY <2>1, <2>2, <2>3 DEF Rest
  <1>10. ASSUME NEW c \in Calls, SaveTurn(c) PROVE Rest'
    <2>1. ASSUME NEW y \in Calls, y # c PROVE CallInv(y)'
      <3>1. /\ hook'[y] = hook[y] /\ status'[y] = status[y]
            /\ phase'[y] = phase[y] /\ record'[y] = record[y]
            /\ store'[y] = store[y] \/ (store'[y] = NoSession /\ ~Live(y))
        BY <1>10, <2>1, <1>a DEF TypeOK, SaveTurn, Touch
      <3>2. \A z \in Sessions \ Held(c) : session'[z] = session[z]
        <4>1. hook[c].sess \in Held(c)
          BY <1>10, <1>a, SessionsAssumption DEF SaveTurn, CallInv, SessionInv, InTurn, Held
        <4>2. QED
          BY <1>10, <4>1, <1>a DEF TypeOK, SaveTurn, Touch
      <3>3. QED
        BY <2>1, <3>1, <3>2, OthersFramed
    <2>2. CallInv(c)'
      BY <1>10, <1>a DEF TypeOK, Hook, Session, Status, Record, SaveTurn, Touch, ReportOf, Extends, 
          CallInv, ProtocolInv, SessionInv, KeptInv, Sheltered, AgainInv, ContentsInv, Contents, Answering, InTurn
    <2>3. DisjointInv'
      BY <1>10, <1>a, DisjointShrinks DEF TypeOK, Hook, Held, SaveTurn, Touch
    <2>4. QED
      BY <2>1, <2>2, <2>3 DEF Rest
  <1>11. ASSUME NEW c \in Calls, Speak(c) PROVE Rest'
    <2>1. ASSUME NEW y \in Calls, y # c PROVE CallInv(y)'
      <3>1. /\ hook'[y] = hook[y] /\ status'[y] = status[y]
            /\ phase'[y] = phase[y] /\ record'[y] = record[y]
            /\ store'[y] = store[y] \/ (store'[y] = NoSession /\ ~Live(y))
        BY <1>11, <2>1, <1>a DEF TypeOK, Speak, Respond
      <3>2. \A z \in Sessions \ Held(c) : session'[z] = session[z]
        BY <1>11, <1>a DEF TypeOK, Held, Speak, Respond
      <3>3. QED
        BY <2>1, <3>1, <3>2, OthersFramed
    <2>2. CallInv(c)'
      BY <1>11, <1>a DEF TypeOK, Hook, Session, Status, Record, Speak, Respond, NoHook, Request, Extends, 
          CallInv, ProtocolInv, SessionInv, KeptInv, Sheltered, AgainInv, ContentsInv, Contents, Answering, InTurn
    <2>3. DisjointInv'
      BY <1>11, <1>a, DisjointShrinks DEF TypeOK, Hook, Held, Speak, Respond, NoHook, Request
    <2>4. QED
      BY <2>1, <2>2, <2>3 DEF Rest
  <1>12. ASSUME NEW c \in Calls, HangupEnds(c) PROVE Rest'
    <2>1. ASSUME NEW y \in Calls, y # c PROVE CallInv(y)'
      <3>1. /\ hook'[y] = hook[y] /\ status'[y] = status[y]
            /\ phase'[y] = phase[y] /\ record'[y] = record[y]
            /\ store'[y] = store[y] \/ (store'[y] = NoSession /\ ~Live(y))
        BY <1>12, <2>1, <1>a DEF TypeOK, HangupEnds, CloseRecord, Touch, Live
      <3>2. \A z \in Sessions \ Held(c) : session'[z] = session[z]
        BY <1>12, <1>a DEF TypeOK, Held, HangupEnds, CloseRecord, Touch, Live
      <3>3. QED
        BY <2>1, <3>1, <3>2, OthersFramed
    <2>2. CallInv(c)'
      <3>1. /\ hook'[c] = [hook[c] EXCEPT !.pc = "push", !.report = ReportOf(store[c])]
            /\ record'[c] = [record[c] EXCEPT !.ended = TRUE, !.turns = session[store[c]].turns,
                                            !.transferred = session[store[c]].transferred]
            /\ store'[c] = store[c] /\ session'[store[c]] = [session[store[c]] EXCEPT !.age = 0]
            /\ phase'[c] = phase[c] /\ status'[c] = status[c]
        BY <1>12, <1>a DEF TypeOK, HangupEnds, CloseRecord, Touch, Live
      <3>2. /\ CallInv(c) /\ hook[c] \in Hook /\ hook[c].pc = "voice" /\ record[c] \in Record
            /\ store[c] \in Sessions /\ session[store[c]] \in Session
            /\ record[c].started /\ phase[c] \in Phase
        BY <1>12, <1>a DEF TypeOK, HangupEnds, CloseRecord, Live
      <3>3. QED
        BY <3>1, <3>2, SessionsAssumption DEF Hook, Record, Session, Phase, Extends, CallInv, ProtocolInv, SessionInv, KeptInv, Sheltered, AgainInv,
                ContentsInv, Contents, Answering, InTurn
    <2>3. DisjointInv'
      BY <1>12, <1>a, DisjointShrinks DEF TypeOK, Hook, Held, HangupEnds, CloseRecord, Touch, Live
    <2>4. QED
      BY <2>1, <2>2, <2>3 DEF Rest
  <1>13. ASSUME NEW c \in Calls, HangupNothing(c) PROVE Rest'
    <2>1. ASSUME NEW y \in Calls, y # c PROVE CallInv(y)'
      <3>1. /\ hook'[y] = hook[y] /\ status'[y] = status[y]
            /\ phase'[y] = phase[y] /\ record'[y] = record[y]
            /\ store'[y] = store[y] \/ (store'[y] = NoSession /\ ~Live(y))
        BY <1>13, <2>1, <1>a DEF TypeOK, HangupNothing, NothingToClose, Drop, Respond
      <3>2. \A z \in Sessions \ Held(c) : session'[z] = session[z]
        BY <1>13, <1>a DEF TypeOK, Held, HangupNothing, NothingToClose, Drop, Respond
      <3>3. QED
        BY <2>1, <3>1, <3>2, OthersFramed
    <2>2. CallInv(c)'
      BY <1>13, <1>a DEF TypeOK, Hook, Session, Status, Record, HangupNothing, NothingToClose, Drop, Respond, NoHook, Request, 
          CallInv, ProtocolInv, SessionInv, KeptInv, Sheltered, AgainInv, ContentsInv, Contents, Answering, InTurn
    <2>3. DisjointInv'
      BY <1>13, <1>a, DisjointShrinks DEF TypeOK, Hook, Held, HangupNothing, NothingToClose, Drop, Respond, NoHook, Request
    <2>4. QED
      BY <2>1, <2>2, <2>3 DEF Rest
  <1>14. ASSUME NEW c \in Calls, NEW ok \in BOOLEAN, HangupPushed(c, ok) PROVE Rest'
    <2>1. ASSUME NEW y \in Calls, y # c PROVE CallInv(y)'
      <3>1. /\ hook'[y] = hook[y] /\ status'[y] = status[y]
            /\ phase'[y] = phase[y] /\ record'[y] = record[y]
            /\ store'[y] = store[y] \/ (store'[y] = NoSession /\ ~Live(y))
        BY <1>14, <2>1, <1>a DEF TypeOK, HangupPushed, Delivered, Drop, Respond
      <3>2. \A z \in Sessions \ Held(c) : session'[z] = session[z]
        BY <1>14, <1>a DEF TypeOK, Held, HangupPushed, Delivered, Drop, Respond
      <3>3. QED
        BY <2>1, <3>1, <3>2, OthersFramed
    <2>2. CallInv(c)'
      BY <1>14, <1>a DEF TypeOK, Hook, Session, Status, Record, HangupPushed, Delivered, Drop, Respond, NoHook, Request, 
          CallInv, ProtocolInv, SessionInv, KeptInv, Sheltered, AgainInv, ContentsInv, Contents, Answering, InTurn
    <2>3. DisjointInv'
      BY <1>14, <1>a, DisjointShrinks DEF TypeOK, Hook, Held, HangupPushed, Delivered, Drop, Respond, NoHook, Request
    <2>4. QED
      BY <2>1, <2>2, <2>3 DEF Rest
  <1>15. ASSUME NEW c \in Calls, StatusEnds(c) PROVE Rest'
    <2>1. ASSUME NEW y \in Calls, y # c PROVE CallInv(y)'
      <3>1. /\ hook'[y] = hook[y] /\ status'[y] = status[y]
            /\ phase'[y] = phase[y] /\ record'[y] = record[y]
            /\ store'[y] = store[y] \/ (store'[y] = NoSession /\ ~Live(y))
        BY <1>15, <2>1, <1>a DEF TypeOK, StatusEnds, CloseRecord, Touch, Live
      <3>2. \A z \in Sessions \ Held(c) : session'[z] = session[z]
        BY <1>15, <1>a DEF TypeOK, Held, StatusEnds, CloseRecord, Touch, Live
      <3>3. QED
        BY <2>1, <3>1, <3>2, OthersFramed
    <2>2. CallInv(c)'
      BY <1>15, <1>a DEF TypeOK, Hook, Session, Status, Record, StatusEnds, CloseRecord, Touch, Live, ReportOf, Extends, 
          CallInv, ProtocolInv, SessionInv, KeptInv, Sheltered, AgainInv, ContentsInv, Contents, Answering, InTurn
    <2>3. DisjointInv'
      BY <1>15, <1>a, DisjointShrinks DEF TypeOK, Hook, Held, StatusEnds, CloseRecord, Touch, Live
    <2>4. QED
      BY <2>1, <2>2, <2>3 DEF Rest
  <1>16. ASSUME NEW c \in Calls, StatusNothing(c) PROVE Rest'
    <2>1. ASSUME NEW y \in Calls, y # c PROVE CallInv(y)'
      <3>1. /\ hook'[y] = hook[y] /\ status'[y] = status[y]
            /\ phase'[y] = phase[y] /\ record'[y] = record[y]
            /\ store'[y] = store[y] \/ (store'[y] = NoSession /\ ~Live(y))
        BY <1>16, <2>1, <1>a DEF TypeOK, StatusNothing, NothingToClose, Drop
      <3>2. \A z \in Sessions \ Held(c) : session'[z] = session[z]
        BY <1>16, <1>a DEF TypeOK, Held, StatusNothing, NothingToClose, Drop
      <3>3. QED
        BY <2>1, <3>1, <3>2, OthersFramed
    <2>2. CallInv(c)'
      BY <1>16, <1>a DEF TypeOK, Hook, Session, Status, Record, StatusNothing, NothingToClose, Drop, Extends, 
          CallInv, ProtocolInv, SessionInv, KeptInv, Sheltered, AgainInv, ContentsInv, Contents, Answering, InTurn
    <2>3. DisjointInv'
      BY <1>16, <1>a, DisjointShrinks DEF TypeOK, Hook, Held, StatusNothing, NothingToClose, Drop
    <2>4. QED
      BY <2>1, <2>2, <2>3 DEF Rest
  <1>17. ASSUME NEW c \in Calls, NEW ok \in BOOLEAN, StatusPushed(c, ok) PROVE Rest'
    <2>1. ASSUME NEW y \in Calls, y # c PROVE CallInv(y)'
      <3>1. /\ hook'[y] = hook[y] /\ status'[y] = status[y]
            /\ phase'[y] = phase[y] /\ record'[y] = record[y]
            /\ store'[y] = store[y] \/ (store'[y] = NoSession /\ ~Live(y))
        BY <1>17, <2>1, <1>a DEF TypeOK, StatusPushed, Delivered, Drop
      <3>2. \A z \in Sessions \ Held(c) : session'[z] = session[z]
        BY <1>17, <1>a DEF TypeOK, Held, StatusPushed, Delivered, Drop
      <3>3. QED
        BY <2>1, <3>1, <3>2, OthersFramed
    <2>2. CallInv(c)'
      BY <1>17, <1>a DEF TypeOK, Hook, Session, Status, Record, StatusPushed, Delivered, Drop, NoStatus, Extends, 
          CallInv, ProtocolInv, SessionInv, KeptInv, Sheltered, AgainInv, ContentsInv, Contents, Answering, InTurn
    <2>3. DisjointInv'
      BY <1>17, <1>a, DisjointShrinks DEF TypeOK, Hook, Held, StatusPushed, Delivered, Drop
    <2>4. QED
      BY <2>1, <2>2, <2>3 DEF Rest
  <1>18. ASSUME NEW c \in Calls, CallEnds(c) PROVE Rest'
    <2>1. ASSUME NEW y \in Calls, y # c PROVE CallInv(y)'
      <3>1. /\ hook'[y] = hook[y] /\ status'[y] = status[y]
            /\ phase'[y] = phase[y] /\ record'[y] = record[y]
            /\ store'[y] = store[y] \/ (store'[y] = NoSession /\ ~Live(y))
        BY <1>18, <2>1, <1>a DEF TypeOK, CallEnds
      <3>2. \A z \in Sessions \ Held(c) : session'[z] = session[z]
        BY <1>18, <1>a DEF TypeOK, Held, CallEnds
      <3>3. QED
        BY <2>1, <3>1, <3>2, OthersFramed
    <2>2. CallInv(c)'
      BY <1>18, <1>a DEF TypeOK, Hook, Session, Status, Record, CallEnds, ReportOf, Extends, 
          CallInv, ProtocolInv, SessionInv, KeptInv, Sheltered, AgainInv, ContentsInv, Contents, Answering, InTurn
    <2>3. DisjointInv'
      BY <1>18, <1>a, DisjointShrinks DEF TypeOK, Hook, Held, CallEnds
    <2>4. QED
      BY <2>1, <2>2, <2>3 DEF Rest
  <1>19. ASSUME NEW c \in Calls, StatusLost(c) PROVE Rest'
    <2>1. ASSUME NEW y \in Calls, y # c PROVE CallInv(y)'
      <3>1. /\ hook'[y] = hook[y] /\ status'[y] = status[y]
            /\ phase'[y] = phase[y] /\ record'[y] = record[y]
            /\ store'[y] = store[y] \/ (store'[y] = NoSession /\ ~Live(y))
        BY <1>19, <2>1, <1>a DEF TypeOK, StatusLost
      <3>2. \A z \in Sessions \ Held(c) : session'[z] = session[z]
        BY <1>19, <1>a DEF TypeOK, Held, StatusLost
      <3>3. QED
        BY <2>1, <3>1, <3>2, OthersFramed
    <2>2. CallInv(c)'
      BY <1>19, <1>a DEF TypeOK, Hook, Session, Status, Record, StatusLost, ReportOf, Extends, 
          CallInv, ProtocolInv, SessionInv, KeptInv, Sheltered, AgainInv, ContentsInv, Contents, Answering, InTurn
    <2>3. DisjointInv'
      BY <1>19, <1>a, DisjointShrinks DEF TypeOK, Hook, Held, StatusLost
    <2>4. QED
      BY <2>1, <2>2, <2>3 DEF Rest
  <1>20. CASE Tick
    <2>1. ASSUME NEW y \in Calls PROVE CallInv(y)'
      BY <1>20, <2>1, <1>a, TTLAssumption
      DEF Tick, TypeOK, Hook, Session, ReportOf, Extends, CallInv, ProtocolInv, SessionInv,
          KeptInv, Sheltered, AgainInv, ContentsInv, Contents, Answering, InTurn
    <2>2. DisjointInv'
      BY <1>20, <1>a, DisjointShrinks DEF Tick, TypeOK, Held, Hook
    <2>3. QED
      BY <2>1, <2>2 DEF Rest
  <1>21. ASSUME NEW c \in Calls, ReportAsked(c) PROVE Rest'
    <2>a. UNCHANGED <<hook, status, phase, record>>
      BY <1>21 DEF ReportAsked
    <2>1. ASSUME NEW y \in Calls, y # c PROVE CallInv(y)'
      <3>1. store'[y] = store[y]
        BY <1>21, <2>1, <1>a DEF TypeOK, ReportAsked, Get, Drop
      <3>2. \A z \in Sessions \ Held(c) : session'[z] = session[z]
        BY <1>21, <1>a DEF TypeOK, Held, ReportAsked, Get, Touch, Live
      <3>3. QED
        BY <2>a, <2>1, <3>1, <3>2, OthersFramed
    <2>2. CASE Live(c) /\ Touch(store[c]) /\ UNCHANGED store
      <3>1. /\ CallInv(c) /\ hook[c] \in Hook /\ store[c] # NoSession
            /\ store[c] \in Sessions /\ session[store[c]] \in Session
        BY <2>2, <1>a DEF TypeOK, Live
      <3>2. session'[store[c]] = [session[store[c]] EXCEPT !.age = 0]
        BY <2>2, <3>1, <1>a DEF TypeOK, Touch
      <3>3. hook[c].pc \in InTurn => store[c] = hook[c].sess
        BY <3>1 DEF CallInv, SessionInv
      <3>4. CallInv(c)'
        BY <2>a, <2>2, <3>1, <3>2, <3>3, TTLAssumption
        DEF Hook, Session, ReportOf, Extends, CallInv, ProtocolInv, SessionInv, KeptInv, Sheltered,
            AgainInv, ContentsInv, Contents, Answering, InTurn
      <3>5. DisjointInv'
        BY <2>a, <2>2, <1>a, DisjointShrinks DEF Held
      <3>6. QED
        BY <2>1, <3>4, <3>5 DEF Rest
    <2>3. CASE ~Live(c) /\ Drop(c) /\ UNCHANGED session
      <3>1. store'[c] = NoSession /\ \A d \in Calls : store'[d] \in {store[d], NoSession}
        BY <2>3, <1>a DEF TypeOK, Drop
      <3>2. CallInv(c)'
        BY <2>a, <2>3, <3>1, Frame
      <3>3. DisjointInv'
        BY <2>a, <3>1, <1>a, DisjointShrinks DEF Held
      <3>4. QED
        BY <2>1, <3>2, <3>3 DEF Rest
    <2>4. QED
      BY <1>21, <2>2, <2>3 DEF ReportAsked, Get
  <1>22. CASE UNCHANGED vars
    <2>1. ASSUME NEW y \in Calls PROVE CallInv(y)'
      BY <1>22, <2>1, Frame DEF vars
    <2>2. DisjointInv'
      BY <1>22, <1>a DEF vars, DisjointInv, Held
    <2>3. QED
      BY <2>1, <2>2 DEF Rest
  <1>23. QED
    BY <1>1, <1>2, <1>3, <1>4, <1>5, <1>6, <1>7, <1>8, <1>9, <1>10, <1>11, <1>12, <1>13, <1>14, <1>15, <1>16, <1>17, <1>18, <1>19, <1>20, <1>21, <1>22
    DEF Next, HookStep, Caller, StatusStep, Callback

\* Every reachable state satisfies the types and the inductive invariant.
THEOREM TypeCorrect == Spec => []TypeOK
  <1>1. Init => TypeOK
    BY InvInit DEF IInv
  <1>2. QED
    BY <1>1, TypeStep, PTL DEF Spec

THEOREM InductiveInvariant == Spec => []IInv
  BY InvInit, InvStep, PTL DEF Spec

-----------------------------------------------------------------------------
(* The safety properties.                                                  *)

\* end_call finds a record for every session: no report is lost for want of one.
THEOREM SessionsAreRecorded == Spec => []RecordedSession
  <1>1. IInv => RecordedSession
    BY DEF IInv, CallInv, SessionInv, RecordedSession
  <1>2. QED
    BY <1>1, InductiveInvariant, PTL

\* A turn answered to a caller on the line keeps its session to the end.
THEOREM TurnsKeepTheirSession == Spec => []TurnKeepsSession
  <1>1. ASSUME IInv, NEW c \in Calls, phase[c] = "asking", hook[c].pc \in Answering
        PROVE  Live(c) /\ (hook[c].pc \in InTurn => store[c] = hook[c].sess)
    <2>1. Sheltered(c)
      BY <1>1 DEF Sheltered
    <2>2. store[c] # NoSession /\ (hook[c].pc \in InTurn => store[c] = hook[c].sess)
      BY <1>1, <2>1 DEF IInv, CallInv, KeptInv
    <2>3. QED
      BY <1>1, <2>2, HeldIsLive
  <1>2. InTurn \subseteq Answering
    BY DEF InTurn, Answering
  <1>3. IInv => TurnKeepsSession
    BY <1>1, <1>2 DEF TurnKeepsSession
  <1>4. QED
    BY <1>3, InductiveInvariant, PTL

\* process_user_input never fails for want of a session.
THEOREM SessionCreationNeverFails == Spec => []SessionCreationSucceeds
  <1>1. ASSUME IInv, NEW c \in Calls, hook[c].pc = "greet", hook[c].again PROVE Live(c)
    <2>1. hook[c].pc \in Answering /\ Sheltered(c)
      BY <1>1 DEF Answering, Sheltered
    <2>2. store[c] # NoSession
      BY <1>1, <2>1 DEF IInv, CallInv, KeptInv
    <2>3. QED
      BY <1>1, <2>1, <2>2, HeldIsLive
  <1>2. IInv => SessionCreationSucceeds
    BY <1>1 DEF SessionCreationSucceeds
  <1>3. QED
    BY <1>2, InductiveInvariant, PTL

\* No step of any handler puts another session in the place of a stored one.
THEOREM SessionsAreNotReplaced == Spec => NoSessionReplaced
  <1> DEFINE Kept == \A c \in Calls : store[c] # NoSession => store'[c] \in {store[c], NoSession}
  <1>1. ASSUME IInv, [Next]_vars PROVE Kept
    <2>1. \A c \in Calls : /\ store \in [Calls -> Sessions \cup {NoSession}]
                           /\ hook[c].pc = "fetch" => store[c] = NoSession
                           /\ hook[c].pc \in InTurn => store[c] \in {NoSession, hook[c].sess}
      BY <1>1 DEF IInv, TypeOK, CallInv, SessionInv
    <2>2. ASSUME NEW c \in Calls, NEW s \in Sessions, StartSession(c, s) PROVE Kept
      BY <2>1, <2>2 DEF StartSession, Build
    <2>3. ASSUME NEW c \in Calls, SaveTurn(c) PROVE Kept
      BY <2>1, <2>3 DEF SaveTurn, InTurn
    <2>4. ASSUME NEW c \in Calls, store' = store \/ Drop(c) \/ Prune PROVE Kept
      BY <2>1, <2>4 DEF Drop, Prune
    <2>5. QED
      BY <1>1, <2>2, <2>3, <2>4
      DEF Next, HookStep, Caller, StatusStep, Callback, vars, IncomingNew, IncomingSilent,
          IncomingSpeech, GreetSilent, Get, GreetSpeech, GreetGone, UserTurn, ModelTurn, Speak,
          HangupEnds, HangupNothing, HangupPushed, StatusEnds, StatusNothing, StatusPushed,
          CloseRecord, NothingToClose, Delivered, CallEnds, StatusLost, ReportAsked, Tick
  <1>2. QED
    BY <1>1, InductiveInvariant, PTL DEF Spec, NoSessionReplaced

-----------------------------------------------------------------------------
(* The refinement of CallLog.                                              *)

\* A step that touches neither records nor reports is a stutter of the log.
LEMMA LogStutters ==
    ASSUME record' = record, posted' = posted, failed' = failed,
           \A c \in Calls : Pending(c)' = Pending(c)
    PROVE  UNCHANGED Log!logVars
  BY DEF Log!logVars

\* A closing of c's record, reported by the handler that closed it.
LEMMA LogCloses ==
    ASSUME IInv, NEW c \in Calls, CloseRecord(c), UNCHANGED <<posted, failed>>,
           Pending(c)' = Pending(c) \cup {ReportOf(store[c])},
           \A x \in Calls \ {c} : Pending(x)' = Pending(x)
    PROVE  Log!Close(c, ReportOf(store[c])) /\ ReportOf(store[c]) \in Log!Report
  <1>1. /\ record \in [Calls -> Record] /\ store[c] \in Sessions
        /\ session[store[c]] \in Session
        /\ Extends(store[c], record[c])
    BY DEF IInv, TypeOK, CloseRecord, Live, CallInv, ContentsInv
  <1>2. record' = [record EXCEPT ![c] = [@ EXCEPT !.ended = TRUE,
                         !.turns = session[store[c]].turns,
                         !.transferred = session[store[c]].transferred]]
    BY DEF CloseRecord
  <1>3. [x \in Calls |-> Pending(x)]'
          = [[x \in Calls |-> Pending(x)] EXCEPT ![c] = @ \cup {ReportOf(store[c])}]
    OBVIOUS
  <1>4. record[c].started
    BY DEF CloseRecord
  <1>5. QED
    BY <1>1, <1>2, <1>3, <1>4 DEF Log!Close, ReportOf, Extends, Log!Report, Session, Record


\* The end of a push by either handler, whose report r was pending.
LEMMA LogSettles ==
    ASSUME NEW c \in Calls, NEW r, NEW ok \in BOOLEAN, TypeOK, Delivered(c, r, ok), record' = record,
           r \in Pending(c), Pending(c)' \in {Pending(c), Pending(c) \ {r}},
           \A x \in Calls \ {c} : Pending(x)' = Pending(x)
    PROVE  Log!Settle(c, r)
  <1>1. [x \in Calls |-> Pending(x)]'
          = [[x \in Calls |-> Pending(x)] EXCEPT ![c] = Pending(c)']
    OBVIOUS
  <1>2. \/ posted' = [posted EXCEPT ![c] = @ \cup {r}] /\ failed' = failed
        \/ failed' = [failed EXCEPT ![c] = @ \cup {r}] /\ posted' = posted
    BY DEF Delivered, TypeOK
  <1>3. \E rest \in {Pending(c), Pending(c) \ {r}} :
           [x \in Calls |-> Pending(x)]' = [[x \in Calls |-> Pending(x)] EXCEPT ![c] = rest]
    BY <1>1
  <1>4. QED
    BY <1>2, <1>3 DEF Log!Settle

\* Steps that leave the push states alone change no pending report.
LEMMA PendingFramed ==
    ASSUME NEW x \in Calls, status'[x] = status[x],
           hook'[x] = hook[x] \/ (hook[x].pc # "push" /\ hook'[x].pc # "push")
    PROVE  Pending(x)' = Pending(x)
  BY DEF Pending

\* Where an update of a webhook's state leaves its handler.
LEMMA UpdatedPc ==
    ASSUME NEW h \in Hook
    PROVE  /\ \A pc : [h EXCEPT !.pc = pc].pc = pc
           /\ \A pc, s : [h EXCEPT !.pc = pc, !.sess = s].pc = pc
           /\ \A pc : [h EXCEPT !.pc = pc, !.again = TRUE].pc = pc
           /\ \A pc, r : [h EXCEPT !.pc = pc, !.reply = r].pc = pc
  BY DEF Hook

LEMMA LogStep == IInv /\ [Next]_vars => [Log!LogNext]_(Log!logVars)
  <1> SUFFICES ASSUME IInv, [Next]_vars PROVE Log!LogNext \/ UNCHANGED Log!logVars
    OBVIOUS
  <1>a. TypeOK /\ \A c \in Calls : CallInv(c)
    BY DEF IInv
  <1>1. ASSUME NEW c \in Calls, NEW s \in Sessions, StartSession(c, s)
        PROVE  Log!LogNext \/ UNCHANGED Log!logVars
    <2>1. \A x \in Calls : Pending(x)' = Pending(x)
      BY <1>1, <1>a, PendingFramed DEF TypeOK, Hook, StartSession, Build, Wait
    <2>2. CASE record[c].started
      <3>1. record' = record
        BY <1>1, <1>a, <2>2 DEF TypeOK, Record, StartSession
      <3>2. QED
        BY <1>1, <2>1, <3>1, LogStutters DEF StartSession, Build
    <2>3. CASE ~record[c].started
      <3>1. Log!Open(c)
        BY <1>1, <2>1, <2>3 DEF Log!Open, StartSession, Build
      <3>2. QED
        BY <3>1 DEF Log!LogNext
    <2>4. QED
      BY <2>2, <2>3
  <1>2. ASSUME NEW c \in Calls, HangupEnds(c) PROVE Log!LogNext
    <2>1. /\ hook[c].pc = "voice" /\ hook'[c].pc = "push" /\ hook'[c].report = ReportOf(store[c])
          /\ status' = status /\ CloseRecord(c) /\ UNCHANGED <<posted, failed>>
      BY <1>2, <1>a DEF TypeOK, Hook, HangupEnds
    <2>2. \A x \in Calls \ {c} : Pending(x)' = Pending(x)
      BY <1>2, <1>a, <2>1, PendingFramed DEF TypeOK, HangupEnds
    <2>3. Pending(c)' = Pending(c) \cup {ReportOf(store[c])}
      BY <2>1 DEF Pending
    <2>4. QED
      BY <2>1, <2>2, <2>3, LogCloses DEF Log!LogNext
  <1>3. ASSUME NEW c \in Calls, StatusEnds(c) PROVE Log!LogNext
    <2>1. /\ status[c].pc # "push"
          /\ status'[c] = [pc |-> "push", report |-> ReportOf(store[c])]
          /\ hook' = hook /\ CloseRecord(c) /\ UNCHANGED <<posted, failed>>
      BY <1>3, <1>a DEF TypeOK, StatusEnds, CallInv, ProtocolInv
    <2>2. \A x \in Calls \ {c} : Pending(x)' = Pending(x)
      BY <1>3, <1>a, PendingFramed DEF TypeOK, StatusEnds
    <2>3. Pending(c)' = Pending(c) \cup {ReportOf(store[c])}
      BY <2>1 DEF Pending
    <2>4. QED
      BY <2>1, <2>2, <2>3, LogCloses DEF Log!LogNext
  <1>4. ASSUME NEW c \in Calls, NEW ok \in BOOLEAN, HangupPushed(c, ok) PROVE Log!LogNext
    <2>1. /\ hook[c].pc = "push" /\ hook'[c].pc = "idle" /\ status' = status
          /\ Delivered(c, hook[c].report, ok) /\ record' = record
      BY <1>4, <1>a DEF TypeOK, HangupPushed, Respond, NoHook, Request
    <2>2. \A x \in Calls \ {c} : Pending(x)' = Pending(x)
      BY <1>4, <1>a, PendingFramed DEF TypeOK, HangupPushed, Respond
    <2>3. /\ hook[c].report \in Pending(c)
          /\ Pending(c)' \in {Pending(c), Pending(c) \ {hook[c].report}}
      BY <2>1 DEF Pending
    <2>4. Log!Settle(c, hook[c].report)
      BY <2>1, <2>2, <2>3, <1>a, LogSettles
    <2>5. QED
      BY <2>3, <2>4 DEF Log!LogNext
  <1>5. ASSUME NEW c \in Calls, NEW ok \in BOOLEAN, StatusPushed(c, ok) PROVE Log!LogNext
    <2>1. /\ status[c].pc = "push" /\ status'[c].pc = "idle" /\ hook' = hook
          /\ Delivered(c, status[c].report, ok) /\ record' = record
      BY <1>5, <1>a DEF TypeOK, StatusPushed, NoStatus
    <2>2. \A x \in Calls \ {c} : Pending(x)' = Pending(x)
      BY <1>5, <1>a, PendingFramed DEF TypeOK, StatusPushed
    <2>3. /\ status[c].report \in Pending(c)
          /\ Pending(c)' \in {Pending(c), Pending(c) \ {status[c].report}}
      BY <2>1 DEF Pending
    <2>4. Log!Settle(c, status[c].report)
      BY <2>1, <2>2, <2>3, <1>a, LogSettles
    <2>5. QED
      BY <2>3, <2>4 DEF Log!LogNext
  <1>6. ASSUME record' = record, posted' = posted, failed' = failed, status' = status \/
                  (\A x \in Calls : status'[x] = status[x]),
               NEW c \in Calls, \A x \in Calls \ {c} : hook'[x] = hook[x],
               hook'[c] = hook[c] \/ (hook[c].pc # "push" /\ hook'[c].pc # "push")
        PROVE  UNCHANGED Log!logVars
    BY <1>6, PendingFramed, LogStutters
  <1>7. ASSUME NEW c \in Calls, NEW speech \in BOOLEAN, NEW reply \in Reply, NEW x \in BOOLEAN,
               \/ IncomingNew(c, speech) \/ IncomingSilent(c) \/ IncomingSpeech(c)
               \/ GreetSilent(c) \/ GreetSpeech(c) \/ GreetGone(c) \/ UserTurn(c)
               \/ ModelTurn(c, reply, x) \/ SaveTurn(c)
               \/ Speak(c) \/ HangupNothing(c) \/ StatusNothing(c) \/ CallEnds(c) \/ StatusLost(c)
               \/ ReportAsked(c)
        PROVE  UNCHANGED Log!logVars
    <2>1. /\ record' = record /\ posted' = posted /\ failed' = failed /\ status' = status
          /\ \A y \in Calls \ {c} : hook'[y] = hook[y]
      BY <1>7, <1>a DEF TypeOK, IncomingNew, IncomingSilent, IncomingSpeech, Ask, GreetSilent,
         GreetSpeech, GreetGone, UserTurn, ModelTurn, SaveTurn, Wait, Speak, HangupNothing,
         NothingToClose, Respond, StatusNothing, CallEnds, StatusLost, ReportAsked
    <2>2. hook'[c] = hook[c] \/ (hook[c].pc # "push" /\ hook'[c].pc # "push")
      <3>1. CASE IncomingNew(c, speech) \/ IncomingSilent(c) \/ IncomingSpeech(c)
        BY <3>1, <1>a DEF TypeOK, IncomingNew, IncomingSilent, IncomingSpeech, Ask, Request
      <3>2. CASE Speak(c) \/ HangupNothing(c)
        BY <3>2, <1>a DEF TypeOK, Speak, HangupNothing, Respond, NoHook, Request
      <3>3. CASE StatusNothing(c) \/ CallEnds(c) \/ StatusLost(c) \/ ReportAsked(c)
        BY <3>3 DEF StatusNothing, CallEnds, StatusLost, ReportAsked
      <3>4. CASE GreetSilent(c) \/ GreetSpeech(c) \/ GreetGone(c)
        <4>1. GreetSilent(c) => hook[c].pc = "greet" /\ hook'[c].pc = "voice"
          BY <1>a, UpdatedPc DEF TypeOK, GreetSilent, Wait
        <4>2. GreetSpeech(c) => hook[c].pc = "greet" /\ hook'[c].pc = "refresh"
          BY <1>a, UpdatedPc DEF TypeOK, GreetSpeech
        <4>3. GreetGone(c) => hook[c].pc = "greet" /\ hook'[c].pc \in {"voice", "fetch"}
          BY <1>a, UpdatedPc DEF TypeOK, GreetGone
        <4>4. QED
          BY <3>4, <4>1, <4>2, <4>3
      <3>5. CASE UserTurn(c) \/ ModelTurn(c, reply, x) \/ SaveTurn(c)
        <4>1. UserTurn(c) => hook[c].pc = "refresh" /\ hook'[c].pc = "llm"
          BY <1>a, UpdatedPc DEF TypeOK, UserTurn, Wait
        <4>2. ModelTurn(c, reply, x) => hook[c].pc = "llm" /\ hook'[c].pc = "reply"
          BY <1>a, UpdatedPc DEF TypeOK, ModelTurn
        <4>3. SaveTurn(c) => hook[c].pc = "reply" /\ hook'[c].pc = "voice"
          BY <1>a, UpdatedPc DEF TypeOK, SaveTurn
        <4>4. QED
          BY <3>5, <4>1, <4>2, <4>3
      <3>6. QED
        BY <1>7, <3>1, <3>2, <3>3, <3>4, <3>5
    <2>3. QED
      BY <2>1, <2>2, <1>6
  <1>8. CASE Tick
    <2>1. \A x \in Calls : hook'[x].pc = hook[x].pc /\ hook'[x].report = hook[x].report
      BY <1>8, <1>a DEF TypeOK, Hook, Tick
    <2>2. \A x \in Calls : Pending(x)' = Pending(x)
      BY <1>8, <2>1 DEF Tick, Pending
    <2>3. QED
      BY <1>8, <2>2, LogStutters DEF Tick
  <1>9. CASE UNCHANGED vars
    <2>1. \A x \in Calls : Pending(x)' = Pending(x)
      BY <1>9 DEF vars, Pending
    <2>2. QED
      BY <1>9, <2>1, LogStutters DEF vars
  <1>10. QED
    BY <1>1, <1>2, <1>3, <1>4, <1>5, <1>7, <1>8, <1>9
    DEF Next, HookStep, Caller, StatusStep, Callback, Reply

\* CallLifecycle implements CallLog: whatever the handlers interleave, records
\* are opened once, closings only add, and every closing hands over its report.
THEOREM LogImplemented == Spec => ImplementsLog
  <1>1. Init => Log!LogInit
    BY DEF Init, Log!LogInit, NoRecord, Pending, NoHook, Request, NoStatus
  <1>2. QED
    BY <1>1, LogStep, InductiveInvariant, PTL DEF Spec, ImplementsLog, Log!LogSpec

-----------------------------------------------------------------------------
(* What every implementation of CallLog keeps.                             *)

LEMMA LogStarts == Log!LogInit => Log!LogInv
  <1> SUFFICES ASSUME Log!LogInit PROVE Log!LogInv
    OBVIOUS
  <1>1. Log!LogTypeOK
    BY MaxTurnsAssumption DEF Log!LogInit, Log!LogTypeOK
  <1>2. ASSUME NEW c \in Calls
        PROVE  /\ Log!Sent(c) = {} /\ ~record[c].ended
               /\ Log!Contents(c) = [turns |-> 0, transferred |-> FALSE]
    <2>1. Pending(c) = [x \in Calls |-> Pending(x)][c]
      OBVIOUS
    <2>2. Pending(c) = {} /\ posted[c] = {} /\ failed[c] = {}
      BY <2>1 DEF Log!LogInit
    <2>3. QED
      BY <2>2 DEF Log!LogInit, Log!Sent, Log!Contents
  <1>3. QED
    BY <1>1, <1>2 DEF Log!LogInv, Log!ReportsAgree, Log!LastWordSent

\* A step that leaves what was sent and what the records say keeps the invariant.
LEMMA LogFramed ==
    ASSUME Log!LogInv, Log!LogTypeOK',
           \A c \in Calls : /\ Log!Sent(c)' = Log!Sent(c)
                            /\ Log!Contents(c)' = Log!Contents(c)
                            /\ record'[c].ended = record[c].ended
    PROVE  Log!LogInv'
  BY DEF Log!LogInv, Log!ReportsAgree, Log!LastWordSent, Log!AddsTo

LEMMA LogClosingKeeps ==
    ASSUME Log!LogInv, NEW c \in Calls, NEW r \in Log!Report, Log!Close(c, r)
    PROVE  Log!LogInv'
  <1> DEFINE P == [x \in Calls |-> Pending(x)]
  <1>a. /\ record \in [Calls -> [started : BOOLEAN, ended : BOOLEAN,
                                 turns : 0..MaxTurns, transferred : BOOLEAN]]
        /\ P \in [Calls -> SUBSET Log!Report]
        /\ posted \in [Calls -> SUBSET Log!Report]
        /\ failed \in [Calls -> SUBSET Log!Report]
        /\ Log!ReportsAgree /\ Log!LastWordSent
    BY DEF Log!LogInv, Log!LogTypeOK
  <1>b. /\ r.turns \in 0..MaxTurns /\ r.transferred \in BOOLEAN
        /\ r = [turns |-> r.turns, transferred |-> r.transferred]
    BY DEF Log!Report
  <1>1. /\ record' = [record EXCEPT ![c] = [@ EXCEPT !.ended = TRUE, !.turns = r.turns,
                                                   !.transferred = r.transferred]]
        /\ P' = [P EXCEPT ![c] = @ \cup {r}]
        /\ posted' = posted /\ failed' = failed
        /\ r.turns >= record[c].turns /\ (record[c].transferred => r.transferred)
    BY DEF Log!Close
  <1>2. /\ record'[c].ended /\ record'[c].turns = r.turns /\ record'[c].transferred = r.transferred
        /\ \A x \in Calls \ {c} : record'[x] = record[x]
        /\ record' \in [Calls -> [started : BOOLEAN, ended : BOOLEAN,
                                  turns : 0..MaxTurns, transferred : BOOLEAN]]
    <2> DEFINE new == [record[c] EXCEPT !.ended = TRUE, !.turns = r.turns,
                                        !.transferred = r.transferred]
    <2>1. /\ new \in [started : BOOLEAN, ended : BOOLEAN,
                      turns : 0..MaxTurns, transferred : BOOLEAN]
          /\ new.ended /\ new.turns = r.turns /\ new.transferred = r.transferred
      BY <1>a, <1>b
    <2>2. record' = [record EXCEPT ![c] = new]
      BY <1>a, <1>1
    <2> HIDE DEF new
    <2>3. QED
      BY <1>a, <2>1, <2>2
  <1>3. Log!LogTypeOK'
    <2> HIDE DEF P
    <2>1. P' \in [Calls -> SUBSET Log!Report]
      BY <1>a, <1>1
    <2> USE DEF P
    <2>2. QED
      BY <1>a, <1>1, <1>2, <2>1 DEF Log!LogTypeOK
  <1>4. /\ Log!Sent(c)' = Log!Sent(c) \cup {r}
        /\ \A x \in Calls \ {c} : Log!Sent(x)' = Log!Sent(x)
    BY <1>a, <1>1 DEF Log!Sent
  <1>5. /\ Log!Contents(c)' = r
        /\ \A x \in Calls \ {c} : Log!Contents(x)' = Log!Contents(x)
    BY <1>b, <1>2 DEF Log!Contents
  <1>6. ASSUME NEW s \in Log!Sent(c) PROVE Log!AddsTo(r, s)
    <2>1. s.turns \in Nat /\ record[c].turns \in Nat
      BY <1>a, MaxTurnsAssumption DEF Log!Sent, Log!Report
    <2>2. record[c].turns >= s.turns /\ (s.transferred => record[c].transferred)
      BY <1>a DEF Log!ReportsAgree, Log!AddsTo, Log!Contents
    <2>3. QED
      BY <1>b, <1>1, <2>1, <2>2, MaxTurnsAssumption DEF Log!AddsTo
  <1>7. Log!AddsTo(r, r)
    BY <1>b, MaxTurnsAssumption DEF Log!AddsTo
  <1>8. Log!ReportsAgree'
    BY <1>a, <1>4, <1>5, <1>6, <1>7 DEF Log!ReportsAgree, Log!AddsTo
  <1>9. Log!LastWordSent'
    BY <1>a, <1>2, <1>4, <1>5 DEF Log!LastWordSent
  <1>10. QED
    BY <1>3, <1>8, <1>9 DEF Log!LogInv

LEMMA LogKeeps == Log!LogInv /\ [Log!LogNext]_(Log!logVars) => Log!LogInv'
  <1> SUFFICES ASSUME Log!LogInv, [Log!LogNext]_(Log!logVars) PROVE Log!LogInv'
    OBVIOUS
  <1> DEFINE P == [x \in Calls |-> Pending(x)]
  <1>a. /\ record \in [Calls -> [started : BOOLEAN, ended : BOOLEAN,
                                 turns : 0..MaxTurns, transferred : BOOLEAN]]
        /\ P \in [Calls -> SUBSET Log!Report]
        /\ posted \in [Calls -> SUBSET Log!Report]
        /\ failed \in [Calls -> SUBSET Log!Report]
    BY DEF Log!LogInv, Log!LogTypeOK
  <1>1. ASSUME NEW c \in Calls, Log!Open(c) PROVE Log!LogInv'
    <2>1. record' = [record EXCEPT ![c].started = TRUE] /\ P' = P /\ posted' = posted /\ failed' = failed
      BY <1>1 DEF Log!Open
    <2>2. /\ record' \in [Calls -> [started : BOOLEAN, ended : BOOLEAN,
                                    turns : 0..MaxTurns, transferred : BOOLEAN]]
          /\ \A x \in Calls : /\ record'[x].ended = record[x].ended
                              /\ record'[x].turns = record[x].turns
                              /\ record'[x].transferred = record[x].transferred
      BY <1>a, <2>1
    <2>3. Log!LogTypeOK'
      BY <1>a, <2>1, <2>2 DEF Log!LogTypeOK
    <2>4. \A x \in Calls : Log!Sent(x)' = Log!Sent(x) /\ Log!Contents(x)' = Log!Contents(x)
      BY <2>1, <2>2 DEF Log!Sent, Log!Contents
    <2>5. QED
      BY <2>2, <2>3, <2>4, LogFramed
  <1>2. ASSUME NEW c \in Calls, NEW r \in P[c], Log!Settle(c, r) PROVE Log!LogInv'
    <2>1. /\ P' = [P EXCEPT ![c] = P'[c]] /\ P'[c] \in {P[c], P[c] \ {r}} /\ record' = record
          /\ \/ posted' = [posted EXCEPT ![c] = @ \cup {r}] /\ failed' = failed
             \/ failed' = [failed EXCEPT ![c] = @ \cup {r}] /\ posted' = posted
      BY <1>2, <1>a DEF Log!Settle
    <2>2. r \in Log!Report
      BY <1>2, <1>a
    <2>3. Log!LogTypeOK'
      <3>1. P' \in [Calls -> SUBSET Log!Report]
        BY <1>a, <2>1
      <3>2. posted' \in [Calls -> SUBSET Log!Report] /\ failed' \in [Calls -> SUBSET Log!Report]
        BY <1>a, <2>1, <2>2
      <3>3. QED
        BY <1>a, <2>1, <3>1, <3>2 DEF Log!LogTypeOK
    <2>4. \A x \in Calls : Log!Sent(x)' = Log!Sent(x) /\ Log!Contents(x)' = Log!Contents(x)
      BY <1>2, <1>a, <2>1 DEF Log!Sent, Log!Contents
    <2>5. QED
      BY <2>1, <2>3, <2>4, LogFramed
  <1>3. CASE UNCHANGED Log!logVars
    BY <1>3 DEF Log!logVars, Log!LogInv, Log!LogTypeOK, Log!ReportsAgree, Log!LastWordSent,
       Log!Sent, Log!Contents, Log!AddsTo
  <1>4. QED
    BY <1>1, <1>2, <1>3, LogClosingKeeps DEF Log!LogNext

\* Of any two reports of a call (end_call may run twice, and pushes overlap) one
\* only adds to the other, and the record of an ended call is the last of them.
THEOREM VersionsAgree == Spec => [](Log!ReportsAgree /\ Log!LastWordSent)
  <1>1. Log!LogInv => Log!ReportsAgree /\ Log!LastWordSent
    BY DEF Log!LogInv
  <1>2. QED
    BY <1>1, LogStarts, LogKeeps, LogImplemented, PTL DEF ImplementsLog, Log!LogSpec

\* A closed record never loses what it said, also when end_call runs again.
THEOREM RecordsNeverRegress == Spec => RecordNeverRegresses
  <1> DEFINE Grows == \A c \in Calls : record[c].ended =>
          /\ record'[c].ended
          /\ record'[c].turns >= record[c].turns
          /\ record[c].transferred => record'[c].transferred
  <1>1. ASSUME IInv, [Next]_vars PROVE Grows
    <2>1. /\ record \in [Calls -> Record]
          /\ \A x \in Calls : record[x].turns \in Nat
      BY <1>1, MaxTurnsAssumption DEF IInv, TypeOK, Record
    <2>2. [Log!LogNext]_(Log!logVars)
      BY <1>1, LogStep
    <2>3. ASSUME NEW c \in Calls, Log!Open(c) PROVE Grows
      BY <2>1, <2>3 DEF Record, Log!Open
    <2>4. ASSUME NEW c \in Calls, NEW r \in Log!Report, Log!Close(c, r) PROVE Grows
      <3>1. ASSUME NEW x \in Calls, x # c PROVE record'[x] = record[x]
        BY <2>1, <2>4, <3>1 DEF Log!Close
      <3>2. record'[c].ended /\ record'[c].turns = r.turns /\ record'[c].transferred = r.transferred
        BY <2>1, <2>4 DEF Log!Close, Record
      <3>3. r.turns >= record[c].turns /\ (record[c].transferred => r.transferred)
        BY <2>4 DEF Log!Close
      <3>4. QED
        BY <2>1, <3>1, <3>2, <3>3
    <2>5. ASSUME record' = record PROVE Grows
      BY <2>1, <2>5
    <2>6. QED
      BY <2>2, <2>3, <2>4, <2>5 DEF Log!LogNext, Log!Settle, Log!logVars
  <1>2. QED
    BY <1>1, InductiveInvariant, PTL DEF Spec, RecordNeverRegresses


\* Every closing of a record is on its way to the platform, accepted or logged
\* as failed: what the record of an ended call says was sent.
THEOREM EndedCallsAreReported == Spec => []EndedCallIsReported
  <1>1. ASSUME Log!LastWordSent, NEW c \in Calls, record[c].ended
        PROVE  Contents(c) \in Pending(c) \cup posted[c] \cup failed[c]
    <2>1. Contents(c) = Log!Contents(c)
      BY DEF Contents, Log!Contents
    <2>2. Log!Sent(c) = Pending(c) \cup posted[c] \cup failed[c]
      BY DEF Log!Sent
    <2>3. QED
      BY <1>1, <2>1, <2>2 DEF Log!LastWordSent
  <1>2. Log!LastWordSent => EndedCallIsReported
    BY <1>1 DEF EndedCallIsReported
  <1>3. QED
    BY <1>2, VersionsAgree, PTL


-----------------------------------------------------------------------------
(* How many versions of a call the platform hears.  A version is told once *)
(* its push has begun.  Each of the two handlers has one chance left to    *)
(* begin one: the webhook while it runs or may still be asked, and the     *)
(* callback while it is due.  Nothing gives a chance back.                 *)

Told(c) == Pending(c) \cup posted[c] \cup failed[c]
HookMay(c) == hook[c].pc \notin {"idle", "push"} \/ phase[c] \in {"idle", "listening"}
StatusMay(c) == phase[c] \notin {"closed", "lost"}
Chances(c) == (IF HookMay(c) THEN 1 ELSE 0) + (IF StatusMay(c) THEN 1 ELSE 0)
ToldInv(c) == IsFiniteSet(Told(c)) /\ Cardinality(Told(c)) + Chances(c) <= 2

TellsNothing(c) ==
    Told(c)' \subseteq Told(c) /\ (HookMay(c)' => HookMay(c)) /\ (StatusMay(c)' => StatusMay(c))
HookTells(c) ==
    /\ \E r : Told(c)' \subseteq Told(c) \cup {r}
    /\ HookMay(c) /\ ~HookMay(c)' /\ (StatusMay(c)' => StatusMay(c))
StatusTells(c) ==
    /\ \E r : Told(c)' \subseteq Told(c) \cup {r}
    /\ StatusMay(c) /\ ~StatusMay(c)' /\ (HookMay(c)' => HookMay(c))

\* A chance is used up by what it tells.
LEMMA ToldKept ==
    ASSUME NEW c \in Calls, ToldInv(c), TellsNothing(c) \/ HookTells(c) \/ StatusTells(c)
    PROVE  ToldInv(c)'
  <1>1. IsFiniteSet(Told(c)) /\ Cardinality(Told(c)) \in Nat /\ Cardinality(Told(c)) + Chances(c) <= 2
    BY FS_CardinalityType DEF ToldInv
  <1>2. CASE TellsNothing(c)
    <2>1. /\ IsFiniteSet(Told(c)') /\ Cardinality(Told(c)') \in Nat
          /\ Cardinality(Told(c)') <= Cardinality(Told(c))
      BY <1>1, <1>2, FS_Subset, FS_CardinalityType DEF TellsNothing
    <2>2. Chances(c)' <= Chances(c) /\ Chances(c) \in Nat /\ Chances(c)' \in Nat
      BY <1>2 DEF TellsNothing, Chances
    <2>3. QED
      BY <1>1, <2>1, <2>2 DEF ToldInv
  <1>3. CASE HookTells(c) \/ StatusTells(c)
    <2>1. PICK r : Told(c)' \subseteq Told(c) \cup {r}
      BY <1>3 DEF HookTells, StatusTells
    <2>2. /\ IsFiniteSet(Told(c) \cup {r}) /\ Cardinality(Told(c) \cup {r}) \in Nat
          /\ Cardinality(Told(c) \cup {r}) <= Cardinality(Told(c)) + 1
      <3>1. /\ IsFiniteSet(Told(c) \cup {r})
            /\ Cardinality(Told(c) \cup {r}) \in {Cardinality(Told(c)), Cardinality(Told(c)) + 1}
        BY <1>1, FS_AddElement
      <3>2. QED
        BY <1>1, <3>1
    <2>3. /\ IsFiniteSet(Told(c)') /\ Cardinality(Told(c)') \in Nat
          /\ Cardinality(Told(c)') <= Cardinality(Told(c) \cup {r})
      BY <2>1, <2>2, FS_Subset, FS_CardinalityType
    <2>4. Chances(c)' + 1 <= Chances(c) /\ Chances(c) \in Nat /\ Chances(c)' \in Nat
      BY <1>3 DEF HookTells, StatusTells, Chances
    <2>5. QED
      BY <1>1, <2>2, <2>3, <2>4 DEF ToldInv
  <1>4. QED
    BY <1>2, <1>3

\* A call whose handlers, phase and reports stay as they are tells nothing.
LEMMA StillTellsNothing ==
    ASSUME NEW c \in Calls, hook'[c].pc = hook[c].pc, hook'[c].report = hook[c].report,
           status'[c] = status[c], phase'[c] = phase[c],
           posted'[c] = posted[c], failed'[c] = failed[c]
    PROVE  TellsNothing(c)
  BY DEF TellsNothing, Told, Pending, HookMay, StatusMay

LEMMA ToldStep ==
    ASSUME IInv, [Next]_vars, NEW y \in Calls
    PROVE  TellsNothing(y) \/ HookTells(y) \/ StatusTells(y)
  <1>a. TypeOK /\ \A c \in Calls : ProtocolInv(c)
    BY DEF IInv, CallInv
  <1>b. ASSUME NEW c \in Calls, c # y, hook'[y] = hook[y], status'[y] = status[y],
               phase'[y] = phase[y], posted'[y] = posted[y], failed'[y] = failed[y]
        PROVE  TellsNothing(y)
    BY <1>b, StillTellsNothing
  <1>c. ASSUME NEW c \in Calls, NEW pc, NEW h, hook' = [hook EXCEPT ![c] = h], h.pc = pc,
               hook[c].pc \notin {"idle", "push"}, pc \notin {"idle", "push"},
               UNCHANGED <<status, phase, posted, failed>>
        PROVE  TellsNothing(y)
    <2>1. CASE c # y
      BY <1>a, <1>b, <1>c, <2>1 DEF TypeOK
    <2>2. CASE c = y
      <3>1. hook'[y].pc \notin {"idle", "push"}
        BY <1>a, <1>c, <2>2 DEF TypeOK
      <3>2. QED
        BY <1>c, <2>2, <3>1 DEF TellsNothing, Told, Pending, HookMay, StatusMay
    <2>3. QED
      BY <2>1, <2>2
  <1>1. ASSUME NEW c \in Calls,
               \/ \E speech \in BOOLEAN : IncomingNew(c, speech)
               \/ IncomingSilent(c) \/ IncomingSpeech(c)
        PROVE  TellsNothing(y)
    <2>a. ASSUME NEW x \in BOOLEAN, NEW pc \in {"fetch", "voice", "refresh"}, NEW z,
                 Ask(c, x, pc, z), UNCHANGED <<status, posted, failed>>
          PROVE  /\ UNCHANGED <<status, posted, failed>>
                 /\ hook[c].pc = "idle" /\ phase[c] \in {"idle", "listening"}
                 /\ phase' = [phase EXCEPT ![c] = "asking"]
                 /\ hook'[c].pc \in {"fetch", "voice", "refresh"}
                 /\ \A d \in Calls \ {c} : hook'[d] = hook[d]
      <3>1. Request(pc, x, z).pc = pc
        BY DEF Request
      <3>2. hook' = [hook EXCEPT ![c] = Request(pc, x, z)]
        BY <2>a DEF Ask
      <3>3. /\ hook'[c].pc \in {"fetch", "voice", "refresh"}
            /\ \A d \in Calls \ {c} : hook'[d] = hook[d]
        BY <1>a, <3>1, <3>2 DEF TypeOK
      <3>4. phase[c] \in {"idle", "listening"}
        BY <2>a DEF Ask
      <3>5. QED
        BY <2>a, <3>3, <3>4 DEF Ask
    <2>1. /\ UNCHANGED <<status, posted, failed>>
          /\ hook[c].pc = "idle" /\ phase[c] \in {"idle", "listening"}
          /\ phase' = [phase EXCEPT ![c] = "asking"]
          /\ hook'[c].pc \in {"fetch", "voice", "refresh"}
          /\ \A d \in Calls \ {c} : hook'[d] = hook[d]
      <3>1. \/ \E x \in BOOLEAN : Ask(c, x, "fetch", NoSession)
            \/ Ask(c, FALSE, "voice", NoSession) \/ Ask(c, TRUE, "refresh", store[c])
        BY <1>1 DEF IncomingNew, IncomingSilent, IncomingSpeech
      <3>2. UNCHANGED <<status, posted, failed>>
        BY <1>1 DEF IncomingNew, IncomingSilent, IncomingSpeech
      <3>3. CASE \E x \in BOOLEAN : Ask(c, x, "fetch", NoSession)
        BY <2>a, <3>2, <3>3
      <3>4. CASE Ask(c, FALSE, "voice", NoSession)
        BY <2>a, <3>2, <3>4
      <3>5. CASE Ask(c, TRUE, "refresh", store[c])
        BY <2>a, <3>2, <3>5
      <3>6. QED
        BY <3>1, <3>3, <3>4, <3>5
    <2>2. CASE c # y
      BY <1>a, <1>b, <2>1, <2>2 DEF TypeOK
    <2>3. CASE c = y
      <3>1. hook'[y].pc \in {"fetch", "voice", "refresh"} /\ phase'[y] = "asking"
        BY <1>a, <2>1, <2>3 DEF TypeOK
      <3>2. QED
        BY <2>1, <2>3, <3>1 DEF TellsNothing, Told, Pending, HookMay, StatusMay
    <2>4. QED
      BY <2>2, <2>3
  <1>2. ASSUME NEW c \in Calls,
               \/ \E s \in Sessions : StartSession(c, s)
               \/ \E reply \in Reply, x \in BOOLEAN : ModelTurn(c, reply, x)
               \/ GreetSilent(c) \/ GreetSpeech(c) \/ GreetGone(c) \/ UserTurn(c) \/ SaveTurn(c)
        PROVE  TellsNothing(y)
    <2>1. /\ UNCHANGED <<status, phase, posted, failed>>
          /\ hook[c].pc \in {"fetch", "greet", "refresh", "llm", "reply"}
      BY <1>2 DEF StartSession, Build, GreetSilent, GreetSpeech, GreetGone, UserTurn, ModelTurn,
                  SaveTurn
    <2>2. hook[c] \in Hook
      BY <1>a DEF TypeOK
    <2>3. CASE (\E s \in Sessions : StartSession(c, s)) \/ GreetSilent(c) \/ UserTurn(c)
      <3>1. PICK pc \in {"greet", "voice", "llm"} : Wait(c, pc)
        BY <2>3 DEF StartSession, Build, GreetSilent, UserTurn
      <3>2. [hook[c] EXCEPT !.pc = pc].pc = pc
        BY <2>2, UpdatedPc
      <3>3. hook' = [hook EXCEPT ![c] = [hook[c] EXCEPT !.pc = pc]]
        BY <3>1 DEF Wait
      <3>4. QED
        BY <1>c, <2>1, <3>2, <3>3
    <2>4. CASE GreetSpeech(c)
      <3>1. hook' = [hook EXCEPT ![c] = [hook[c] EXCEPT !.pc = "refresh", !.sess = store[c]]]
        BY <2>4 DEF GreetSpeech
      <3>2. [hook[c] EXCEPT !.pc = "refresh", !.sess = store[c]].pc = "refresh"
        BY <2>2 DEF Hook
      <3>3. QED
        BY <1>c, <2>1, <3>1, <3>2
    <2>5. CASE GreetGone(c)
      <3>1. PICK pc \in {"voice", "fetch"} :
               hook' = [hook EXCEPT ![c] = [hook[c] EXCEPT !.pc = pc, !.again = TRUE]]
        BY <2>5 DEF GreetGone
      <3>2. [hook[c] EXCEPT !.pc = pc, !.again = TRUE].pc = pc
        BY <2>2 DEF Hook
      <3>3. QED
        BY <1>c, <2>1, <3>1, <3>2
    <2>6. CASE \E reply \in Reply, x \in BOOLEAN : ModelTurn(c, reply, x)
      <3>1. PICK reply \in Reply : hook' = [hook EXCEPT ![c] = [hook[c] EXCEPT !.pc = "reply", !.reply = reply]]
        BY <2>6 DEF ModelTurn
      <3>2. [hook[c] EXCEPT !.pc = "reply", !.reply = reply].pc = "reply"
        BY <2>2 DEF Hook
      <3>3. QED
        BY <1>c, <2>1, <3>1, <3>2
    <2>7. CASE SaveTurn(c)
      <3>1. hook' = [hook EXCEPT ![c] = [hook[c] EXCEPT !.pc = "voice", !.sess = NoSession]]
        BY <2>7 DEF SaveTurn
      <3>2. [hook[c] EXCEPT !.pc = "voice", !.sess = NoSession].pc = "voice"
        BY <2>2 DEF Hook
      <3>3. QED
        BY <1>c, <2>1, <3>1, <3>2
    <2>8. QED
      BY <1>2, <2>3, <2>4, <2>5, <2>6, <2>7
  \* What an answered webhook leaves behind.
  <1>d. ASSUME NEW c \in Calls, NEW reply \in Reply, Respond(c, reply)
        PROVE  /\ hook'[c] = NoHook /\ NoHook.pc = "idle"
               /\ \/ phase'[c] = phase[c]
                  \/ phase[c] = "asking" /\ phase'[c] \in {"listening", "over", "dialing"}
               /\ reply # "gather" => phase'[c] # "listening" \/ phase'[c] = phase[c]
               /\ c # y => hook'[y] = hook[y] /\ phase'[y] = phase[y]
    BY <1>a, <1>d DEF TypeOK, Respond, NoHook, Request, Reply
  <1>3. ASSUME NEW c \in Calls, Speak(c) \/ HangupNothing(c) PROVE TellsNothing(y)
    <2>1. /\ UNCHANGED <<status, posted, failed>> /\ hook[c].pc = "voice"
          /\ \E reply \in Reply : Respond(c, reply)
      BY <1>3, <1>a DEF TypeOK, Hook, Speak, HangupNothing, Reply
    <2>2. CASE c # y
      BY <1>b, <1>d, <2>1, <2>2
    <2>3. CASE c = y
      <3>1. /\ hook'[y].pc = "idle" /\ HookMay(y)
            /\ StatusMay(y)' => StatusMay(y)
        BY <1>d, <2>1, <2>3 DEF HookMay, StatusMay
      <3>2. Told(y)' \subseteq Told(y)
        BY <2>1, <3>1 DEF Told, Pending
      <3>3. QED
        BY <3>1, <3>2 DEF TellsNothing
    <2>4. QED
      BY <2>2, <2>3
  <1>4. ASSUME NEW c \in Calls, HangupEnds(c) PROVE TellsNothing(y) \/ HookTells(y)
    <2>1. /\ UNCHANGED <<status, phase, posted, failed>> /\ hook[c].pc = "voice"
          /\ hook' = [hook EXCEPT ![c] = [@ EXCEPT !.pc = "push", !.report = ReportOf(store[c])]]
      BY <1>4 DEF HangupEnds
    <2>2. CASE c # y
      BY <1>a, <1>b, <2>1, <2>2 DEF TypeOK
    <2>3. CASE c = y
      <3>1. hook'[y].pc = "push" /\ hook'[y].report = ReportOf(store[c])
        BY <1>a, <2>1, <2>3 DEF TypeOK, Hook
      <3>2. phase[y] \notin {"idle", "listening"}
        BY <1>a, <2>1, <2>3 DEF ProtocolInv
      <3>3. Told(y)' \subseteq Told(y) \cup {ReportOf(store[c])}
        BY <2>1, <2>3, <3>1 DEF Told, Pending
      <3>4. HookMay(y) /\ ~HookMay(y)' /\ (StatusMay(y)' => StatusMay(y))
        BY <2>1, <2>3, <3>1, <3>2 DEF HookMay, StatusMay
      <3>5. QED
        BY <3>3, <3>4 DEF HookTells
    <2>4. QED
      BY <2>2, <2>3
  \* A delivery moves a report from being pushed to posted or failed.
  <1>e. ASSUME NEW c \in Calls, NEW r \in Told(c), NEW ok \in BOOLEAN, Delivered(c, r, ok)
        PROVE  /\ posted'[c] \cup failed'[c] \subseteq Told(c)
               /\ c # y => posted'[y] = posted[y] /\ failed'[y] = failed[y]
    BY <1>a, <1>e DEF TypeOK, Delivered, Told
  <1>5. ASSUME NEW c \in Calls, NEW ok \in BOOLEAN, HangupPushed(c, ok) PROVE TellsNothing(y)
    <2>1. /\ hook[c].pc = "push" /\ UNCHANGED status
          /\ Delivered(c, hook[c].report, ok) /\ Respond(c, "hangup")
          /\ hook[c].report \in Told(c) /\ "hangup" \in Reply
      BY <1>5 DEF HangupPushed, Told, Pending, Reply
    <2>2. CASE c # y
      BY <1>b, <1>d, <1>e, <2>1, <2>2
    <2>3. CASE c = y
      <3>1. /\ hook'[y].pc = "idle" /\ phase[y] \notin {"idle", "listening"}
            /\ phase'[y] \notin {"idle", "listening"} /\ (StatusMay(y)' => StatusMay(y))
        BY <1>a, <1>d, <2>1, <2>3 DEF ProtocolInv, StatusMay
      <3>2. Told(y)' \subseteq Told(y)
        BY <1>e, <2>1, <2>3, <3>1 DEF Told, Pending
      <3>3. QED
        BY <3>1, <3>2 DEF TellsNothing, HookMay
    <2>4. QED
      BY <2>2, <2>3
  <1>6. ASSUME NEW c \in Calls, StatusEnds(c) PROVE TellsNothing(y) \/ StatusTells(y)
    <2>1. /\ UNCHANGED <<hook, posted, failed>> /\ phase[c] = "over"
          /\ phase' = [phase EXCEPT ![c] = "closed"]
          /\ status' = [status EXCEPT ![c] = [pc |-> "push", report |-> ReportOf(store[c])]]
      BY <1>6 DEF StatusEnds
    <2>2. CASE c # y
      BY <1>a, <1>b, <2>1, <2>2 DEF TypeOK
    <2>3. CASE c = y
      <3>1. phase'[y] = "closed" /\ status'[y] = [pc |-> "push", report |-> ReportOf(store[c])]
        BY <1>a, <2>1, <2>3 DEF TypeOK
      <3>2. Told(y)' \subseteq Told(y) \cup {ReportOf(store[c])}
        BY <2>1, <3>1 DEF Told, Pending
      <3>3. StatusMay(y) /\ ~StatusMay(y)' /\ (HookMay(y)' => HookMay(y))
        BY <2>1, <2>3, <3>1 DEF HookMay, StatusMay
      <3>4. QED
        BY <3>2, <3>3 DEF StatusTells
    <2>4. QED
      BY <2>2, <2>3
  <1>7. ASSUME NEW c \in Calls, NEW ok \in BOOLEAN, StatusPushed(c, ok) PROVE TellsNothing(y)
    <2>1. /\ status[c].pc = "push" /\ UNCHANGED <<hook, phase>>
          /\ Delivered(c, status[c].report, ok) /\ status' = [status EXCEPT ![c] = NoStatus]
          /\ status[c].report \in Told(c) /\ NoStatus.pc = "idle"
      BY <1>7 DEF StatusPushed, Told, Pending, NoStatus
    <2>2. CASE c # y
      BY <1>a, <1>b, <1>e, <2>1, <2>2 DEF TypeOK
    <2>3. CASE c = y
      <3>1. status'[y].pc = "idle"
        BY <1>a, <2>1, <2>3 DEF TypeOK
      <3>2. Told(y)' \subseteq Told(y)
        BY <1>e, <2>1, <2>3, <3>1 DEF Told, Pending
      <3>3. QED
        BY <2>1, <3>2 DEF TellsNothing, HookMay, StatusMay
    <2>4. QED
      BY <2>2, <2>3
  <1>8. ASSUME NEW c \in Calls, StatusNothing(c) \/ CallEnds(c) \/ StatusLost(c)
        PROVE  TellsNothing(y)
    <2>1. /\ UNCHANGED <<hook, status, posted, failed>>
          /\ \/ phase[c] = "over" /\ \E p \in {"closed", "lost"} : phase' = [phase EXCEPT ![c] = p]
             \/ phase[c] \in {"asking", "listening", "dialing"} /\ phase' = [phase EXCEPT ![c] = "over"]
      BY <1>8 DEF StatusNothing, CallEnds, StatusLost
    <2>2. CASE c # y
      BY <1>a, <1>b, <2>1, <2>2 DEF TypeOK
    <2>3. CASE c = y
      <3>1. \/ phase[y] = "over" /\ phase'[y] \in {"closed", "lost"}
            \/ phase[y] \in {"asking", "listening", "dialing"} /\ phase'[y] = "over"
        BY <1>a, <2>1, <2>3 DEF TypeOK
      <3>2. QED
        BY <2>1, <3>1 DEF TellsNothing, Told, Pending, HookMay, StatusMay
    <2>4. QED
      BY <2>2, <2>3
  <1>9. CASE Tick
    <2>1. hook'[y].pc = hook[y].pc /\ hook'[y].report = hook[y].report
      BY <1>9, <1>a DEF TypeOK, Hook, Tick
    <2>2. QED
      BY <1>9, <2>1, StillTellsNothing DEF Tick
  <1>10. CASE (\E c \in Calls : ReportAsked(c)) \/ UNCHANGED vars
    BY <1>10, StillTellsNothing DEF ReportAsked, vars
  <1>11. QED
    BY <1>1, <1>2, <1>3, <1>4, <1>5, <1>6, <1>7, <1>8, <1>9, <1>10
    DEF Next, HookStep, Caller, StatusStep, Callback

\* The platform hears at most two versions of a call, however the hangup, the
\* callback and a session started anew interleave.
THEOREM AtMostTwoVersions == Spec => []AtMostOneRevision
  <1> DEFINE All == \A c \in Calls : ToldInv(c)
  <1>1. Init => All
    <2> SUFFICES ASSUME Init, NEW c \in Calls PROVE ToldInv(c)
      OBVIOUS
    <2>1. Told(c) = {}
      BY DEF Init, Told, Pending, NoHook, Request, NoStatus
    <2>2. IsFiniteSet(Told(c)) /\ Cardinality(Told(c)) = 0
      BY <2>1, FS_EmptySet
    <2>3. Chances(c) <= 2 /\ Chances(c) \in Nat
      BY DEF Chances
    <2>4. QED
      BY <2>2, <2>3 DEF ToldInv
  <1>2. IInv /\ All /\ [Next]_vars => All'
    BY ToldKept, ToldStep
  <1>3. All => AtMostOneRevision
    <2> SUFFICES ASSUME NEW c \in Calls, ToldInv(c) PROVE Cardinality(posted[c] \cup failed[c]) <= 2
      BY DEF AtMostOneRevision
    <2>1. Cardinality(Told(c)) <= 2 /\ Cardinality(Told(c)) \in Nat
      BY FS_CardinalityType DEF ToldInv, Chances
    <2>2. posted[c] \cup failed[c] \subseteq Told(c)
      BY DEF Told
    <2>3. IsFiniteSet(posted[c] \cup failed[c]) /\ Cardinality(posted[c] \cup failed[c]) \in Nat
          /\ Cardinality(posted[c] \cup failed[c]) <= Cardinality(Told(c))
      BY <2>2, FS_Subset, FS_CardinalityType DEF ToldInv
    <2>4. QED
      BY <2>1, <2>3
  <1>4. QED
    BY <1>1, <1>2, <1>3, InductiveInvariant, PTL DEF Spec
-----------------------------------------------------------------------------
(* Webhooks come to an answer.                                             *)

\* Every step of a webhook leaves fewer awaits before its answer.
LEMMA HookNears ==
    ASSUME TypeOK, NEW c \in Calls, HookStep(c)
    PROVE  /\ Awaits(hook'[c]) < Awaits(hook[c])
           /\ \A d \in Calls : d # c => hook'[d] = hook[d]
  <1>a. hook[c] \in Hook /\ hook \in [Calls -> Hook] /\ hook[c].again \in BOOLEAN
    BY DEF TypeOK, Hook
  <1>b. Awaits(NoHook) = 0
    BY DEF Awaits, NoHook, Request
  <1>1. ASSUME NEW s \in Sessions, StartSession(c, s)
        PROVE  /\ Awaits(hook'[c]) < Awaits(hook[c])
               /\ \A d \in Calls : d # c => hook'[d] = hook[d]
    <2>1. hook' = [hook EXCEPT ![c] = [@ EXCEPT !.pc = "greet"]] /\ hook[c].pc = "fetch"
      BY <1>1 DEF StartSession, Build, Wait
    <2>2. hook'[c].pc = "greet" /\ hook'[c].again = hook[c].again
      BY <2>1, <1>a DEF Hook
    <2>3. QED
      BY <2>1, <2>2, <1>a DEF Awaits
  <1>2. CASE GreetSilent(c)
    <2>1. hook' = [hook EXCEPT ![c] = [@ EXCEPT !.pc = "voice"]] /\ hook[c].pc = "greet"
      BY <1>2 DEF GreetSilent, Wait
    <2>2. hook'[c].pc = "voice"
      BY <2>1, <1>a DEF Hook
    <2>3. QED
      BY <2>1, <2>2, <1>a DEF Awaits
  <1>3. CASE GreetSpeech(c)
    <2>1. hook' = [hook EXCEPT ![c] = [@ EXCEPT !.pc = "refresh", !.sess = store[c]]]
          /\ hook[c].pc = "greet"
      BY <1>3 DEF GreetSpeech
    <2>2. hook'[c].pc = "refresh"
      BY <2>1, <1>a DEF Hook
    <2>3. QED
      BY <2>1, <2>2, <1>a DEF Awaits
  <1>4. CASE GreetGone(c)
    <2>1. hook' = [hook EXCEPT ![c] = [@ EXCEPT !.pc = IF hook[c].again THEN "voice" ELSE "fetch",
                                               !.again = TRUE]]
          /\ hook[c].pc = "greet"
      BY <1>4 DEF GreetGone
    <2>2. hook'[c].pc = (IF hook[c].again THEN "voice" ELSE "fetch") /\ hook'[c].again
      BY <2>1, <1>a DEF Hook
    <2>3. QED
      BY <2>1, <2>2, <1>a DEF Awaits
  <1>5. CASE UserTurn(c)
    <2>1. hook' = [hook EXCEPT ![c] = [@ EXCEPT !.pc = "llm"]] /\ hook[c].pc = "refresh"
      BY <1>5 DEF UserTurn, Wait
    <2>2. hook'[c].pc = "llm"
      BY <2>1, <1>a DEF Hook
    <2>3. QED
      BY <2>1, <2>2, <1>a DEF Awaits
  <1>6. ASSUME NEW reply \in Reply, NEW x \in BOOLEAN, ModelTurn(c, reply, x)
        PROVE  /\ Awaits(hook'[c]) < Awaits(hook[c])
               /\ \A d \in Calls : d # c => hook'[d] = hook[d]
    <2>1. hook' = [hook EXCEPT ![c] = [@ EXCEPT !.pc = "reply", !.reply = reply]]
          /\ hook[c].pc = "llm"
      BY <1>6 DEF ModelTurn
    <2>2. hook'[c].pc = "reply"
      BY <2>1, <1>a DEF Hook
    <2>3. QED
      BY <2>1, <2>2, <1>a DEF Awaits
  <1>7. CASE SaveTurn(c)
    <2>1. hook' = [hook EXCEPT ![c] = [@ EXCEPT !.pc = "voice", !.sess = NoSession]]
          /\ hook[c].pc = "reply"
      BY <1>7 DEF SaveTurn
    <2>2. hook'[c].pc = "voice"
      BY <2>1, <1>a DEF Hook
    <2>3. QED
      BY <2>1, <2>2, <1>a DEF Awaits
  <1>8. CASE HangupEnds(c)
    <2>1. hook' = [hook EXCEPT ![c] = [@ EXCEPT !.pc = "push", !.report = ReportOf(store[c])]]
          /\ hook[c].pc = "voice"
      BY <1>8 DEF HangupEnds
    <2>2. hook'[c].pc = "push"
      BY <2>1, <1>a DEF Hook
    <2>3. QED
      BY <2>1, <2>2, <1>a DEF Awaits
  <1>9. ASSUME hook[c].pc \in {"voice", "push"}, hook' = [hook EXCEPT ![c] = NoHook]
        PROVE  /\ Awaits(hook'[c]) < Awaits(hook[c])
               /\ \A d \in Calls : d # c => hook'[d] = hook[d]
    <2>1. Awaits(hook[c]) \in {1, 2}
      BY <1>9 DEF Awaits
    <2>2. QED
      BY <1>9, <2>1, <1>a, <1>b
  <1>10. CASE Speak(c) \/ HangupNothing(c) \/ \E ok \in BOOLEAN : HangupPushed(c, ok)
    BY <1>9, <1>10 DEF Speak, HangupNothing, HangupPushed, Respond
  <1>11. QED
    BY <1>1, <1>2, <1>3, <1>4, <1>5, <1>6, <1>7, <1>8, <1>10 DEF HookStep

\* Twilio's patience apart, a webhook is at most nine awaits from its answer, and
\* no hangup, callback, prune or expiry sends it back.
THEOREM WebhooksGoOn == Spec => WebhookGoesOn
  <1> DEFINE GoesOn(c) ==
          hook[c].pc # "idle" =>
              \/ Awaits(hook'[c]) < Awaits(hook[c])
              \/ hook'[c] = [hook[c] EXCEPT !.elapsed = hook'[c].elapsed]
  <1>1. ASSUME TypeOK, [Next]_vars, NEW c \in Calls PROVE GoesOn(c)
    <2>a. hook[c] \in Hook /\ hook[c] = [hook[c] EXCEPT !.elapsed = hook[c].elapsed]
      BY <1>1 DEF TypeOK, Hook
    <2>1. ASSUME NEW d \in Calls, HookStep(d) PROVE GoesOn(c)
      <3>1. CASE d = c
        BY <1>1, <2>1, <3>1, HookNears
      <3>2. CASE d # c
        <4>1. hook'[c] = hook[c]
          BY <1>1, <2>1, <3>2, HookNears
        <4>2. QED
          BY <2>a, <4>1
      <3>3. QED
        BY <3>1, <3>2
    <2>2. ASSUME UNCHANGED hook PROVE GoesOn(c)
      BY <2>a, <2>2
    <2>3. ASSUME NEW d \in Calls, NEW r, hook[d].pc = "idle", hook' = [hook EXCEPT ![d] = r]
          PROVE  GoesOn(c)
      <3>1. CASE d = c
        BY <2>3, <3>1
      <3>2. CASE d # c
        <4>1. hook'[c] = hook[c]
          BY <1>1, <2>3, <3>2 DEF TypeOK
        <4>2. QED
          BY <2>a, <4>1
      <3>3. QED
        BY <3>1, <3>2
    <2>4. ASSUME NEW d \in Calls, Caller(d) PROVE GoesOn(c)
      BY <2>2, <2>3, <2>4 DEF Caller, IncomingNew, IncomingSilent, IncomingSpeech, Ask, CallEnds
    <2>5. ASSUME NEW d \in Calls, StatusStep(d) \/ Callback(d) \/ ReportAsked(d) PROVE GoesOn(c)
      BY <2>2, <2>5 DEF StatusStep, StatusPushed, Callback, StatusEnds, StatusNothing, StatusLost,
                        ReportAsked
    <2>6. CASE Tick
      <3>1. hook[c].pc # "idle" => hook'[c] = [hook[c] EXCEPT !.elapsed = @ + 1]
        BY <2>6 DEF Tick
      <3>2. ASSUME NEW n, hook'[c] = [hook[c] EXCEPT !.elapsed = n]
            PROVE  hook'[c].elapsed = n
        BY <2>a, <3>2 DEF Hook
      <3>3. QED
        BY <3>1, <3>2
    <2>7. CASE UNCHANGED vars
      BY <2>2, <2>7 DEF vars
    <2>8. QED
      BY <1>1, <2>1, <2>4, <2>5, <2>6, <2>7 DEF Next
  <1> DEFINE AllGoOn ==
          \A c \in Calls : hook[c].pc # "idle" =>
              \/ Awaits(hook'[c]) < Awaits(hook[c])
              \/ hook'[c] = [hook[c] EXCEPT !.elapsed = hook'[c].elapsed]
  <1>2. ASSUME TypeOK, [Next]_vars PROVE AllGoOn
    BY <1>1, <1>2
  <1>3. QED
    BY <1>2, TypeCorrect, PTL DEF Spec, WebhookGoesOn

=============================================================================
