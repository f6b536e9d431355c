------------------------ MODULE RedisSessionsProofs ------------------------
(***************************************************************************)
(* Proofs about RedisSessions, for any number of instances and requests.   *)
(***************************************************************************)
EXTENDS RedisSessions, FiniteSetTheorems, TLAPS

-----------------------------------------------------------------------------
(* What a step of the engine does to its own request and to the call.      *)

TurnNext == {"has", "turn", "again"}

\* The request keeps its kind, never returns from a reply to a turn, and
\* changes the call's phase only by answering it.
Moves(r) ==
    /\ req' \in [Requests -> Request]
    /\ \A s \in Requests : s # r => req'[s] = req[s]
    /\ req[r].pc # "idle"
    /\ req'[r].pc # "idle" => req'[r].kind = req[r].kind
    /\ req'[r].pc # "idle" /\ req'[r].next \in TurnNext => req[r].next \in TurnNext
    /\ req[r].kind \notin Hooks /\ req'[r].pc # "idle" => req'[r].next = req[r].next
    /\ req'[r].pc # "idle" /\ req'[r].next = "report" => req[r].next = "report"
    /\ \/ phase' = phase
       \/ /\ phase = "asking" /\ req[r].kind \in Hooks /\ req'[r].pc = "idle"
          /\ phase' \in {"listening", "over"}

LEMMA NoRequestTyped == NoRequest \in Request /\ NoRequest.pc = "idle"
<1>1. ASSUME Instances # {} PROVE (CHOOSE i \in Instances : TRUE) \in Instances
  BY <1>1
<1>2. QED BY <1>1, InstancesAssumption DEF NoRequest, Arrived, Request, Sessions, Hooks

LEMMA ReadMoves ==
  ASSUME TypeOK, NEW r \in Requests, req[r].pc # "idle", UNCHANGED phase,
         NEW next \in {"has", "turn", "again", "play", "sorry", "end"}, Read(r, next),
         next \in TurnNext => req[r].next \in TurnNext,
         req[r].kind \in Hooks
  PROVE  Moves(r) /\ req'[r].pc = "get" /\ req'[r].next = next
<1>1. req[r] \in Request
  BY DEF TypeOK
<1>2. req' = [req EXCEPT ![r] = [req[r] EXCEPT !.pc = "get", !.next = next, !.copy = NoSession]]
  BY DEF Read, Move
<1>3. req'[r] = [req[r] EXCEPT !.pc = "get", !.next = next, !.copy = NoSession]
  BY <1>2 DEF TypeOK
<1>4. req'[r] \in Request
  BY <1>1, <1>3 DEF Request, Sessions
<1>5. req'[r].pc = "get" /\ req'[r].next = next /\ req'[r].kind = req[r].kind
  BY <1>1, <1>3 DEF Request
<1>6. req' \in [Requests -> Request] /\ \A s \in Requests : s # r => req'[s] = req[s]
  BY <1>2, <1>3, <1>4 DEF TypeOK
<1>7. QED BY <1>5, <1>6 DEF Moves

LEMMA WaitMoves ==
  ASSUME TypeOK, NEW r \in Requests, req[r].pc # "idle", UNCHANGED phase,
         NEW pc \in {"fetch", "store", "greet", "refresh", "drop", "delete"}, Wait(r, pc)
  PROVE  Moves(r) /\ req'[r] = [req[r] EXCEPT !.pc = pc]
  BY DEF TypeOK, Wait, Move, Moves, Request

LEMMA RespondMoves ==
  ASSUME TypeOK, NEW r \in Requests, req[r].pc # "idle",
         NEW then \in {"listening", "over"}, Respond(r, then)
  PROVE  Moves(r) /\ req'[r].pc = "idle"
  BY NoRequestTyped DEF TypeOK, Respond, Move, Moves

LEMMA AnswerMoves ==
  ASSUME TypeOK, NEW r \in Requests, req[r].pc # "idle", Answer(r)
  PROVE  Moves(r) /\ req'[r].pc = "idle"
  BY RespondMoves DEF Answer

\* After a failure the request is over or looks up the voice of an apology.
LEMMA FailMoves ==
  ASSUME TypeOK, NEW r \in Requests, req[r].pc # "idle", Fail(r)
  PROVE  Moves(r) /\ (req'[r].pc = "idle" \/ (req'[r].pc = "get" /\ req'[r].next = "sorry"))
<1>1. CASE req[r].kind \in Hooks /\ playback /\ req[r].next # "sorry"
  <2>1. Read(r, "sorry") /\ UNCHANGED phase
    BY <1>1 DEF Fail
  <2>2. QED BY <1>1, <2>1, ReadMoves DEF TurnNext
<1>2. CASE ~(req[r].kind \in Hooks /\ playback /\ req[r].next # "sorry")
  BY <1>2, RespondMoves DEF Fail
<1>3. QED BY <1>1, <1>2

\* A reply that is ready never leads back into a turn.
LEMMA SpeakMoves ==
  ASSUME TypeOK, NEW r \in Requests, req[r].pc # "idle", req[r].kind \in Hooks, Speak(r)
  PROVE  /\ Moves(r)
         /\ req'[r].pc = "idle" \/ (req'[r].pc = "get" /\ req'[r].next \notin TurnNext)
<1>1. CASE playback
  <2>1. Read(r, "play") /\ UNCHANGED phase
    BY <1>1 DEF Speak
  <2>2. QED BY <2>1, ReadMoves DEF TurnNext
<1>2. CASE ~playback /\ req[r].hangup
  <2>1. Read(r, "end") /\ UNCHANGED phase
    BY <1>2 DEF Speak
  <2>2. QED BY <2>1, ReadMoves DEF TurnNext
<1>3. CASE ~playback /\ ~req[r].hangup
  BY <1>3, AnswerMoves DEF Speak
<1>4. QED BY <1>1, <1>2, <1>3

\* Only has_session and a turn start a session that is missing.
LEMMA MissingMoves ==
  ASSUME TypeOK, ProtocolInv, NEW r \in Requests, req[r].pc # "idle", Missing(r)
  PROVE  /\ Moves(r)
         /\ \/ req'[r].pc \in {"idle", "get", "delete"}
            \/ req'[r].pc = "fetch" /\ req'[r].next \in {"has", "turn"} /\ req'[r].kind \in Hooks
<1>1. req[r].kind \in Hooks \/ req[r].next \in {"end", "report"}
  BY DEF TypeOK, Request, ProtocolInv, IsStatus
<1>2. CASE req[r].next \in {"has", "turn"} /\ Wait(r, "fetch") /\ UNCHANGED phase
  <2>1. Moves(r) /\ req'[r] = [req[r] EXCEPT !.pc = "fetch"]
    BY <1>2, WaitMoves
  <2>2. req[r].kind \in Hooks
    BY <1>1, <1>2
  <2>3. req[r] \in Request
    BY DEF TypeOK
  <2>4. req'[r].pc = "fetch" /\ req'[r].next = req[r].next /\ req'[r].kind = req[r].kind
    BY <2>1, <2>3 DEF Request
  <2>5. QED BY <1>2, <2>1, <2>2, <2>4
<1>3. CASE req[r].next = "again" /\ Fail(r)
  BY <1>3, FailMoves
<1>4. CASE req[r].next = "play" /\ req[r].hangup /\ Read(r, "end") /\ UNCHANGED phase
  <2>1. req[r].kind \in Hooks /\ "end" \notin TurnNext
    BY <1>1, <1>4 DEF TurnNext
  <2>2. QED BY <1>4, <2>1, ReadMoves
<1>5. CASE req[r].next = "play" /\ Answer(r)
  BY <1>5, AnswerMoves
<1>6. CASE req[r].next \in {"sorry", "report"} /\ Respond(r, "listening")
  BY <1>6, RespondMoves
<1>7. CASE req[r].next = "end" /\ Wait(r, "delete") /\ UNCHANGED phase
  BY <1>7, WaitMoves DEF TypeOK, Request
<1>8. QED BY <1>2, <1>3, <1>4, <1>5, <1>6, <1>7 DEF Missing

-----------------------------------------------------------------------------
(* What follows for the rest of the invariant.                             *)

LEMMA SlackSmall == Slack \in {0, 1}
  BY DEF Slack

\* A step keeps the order of requests, and lets the slack only grow.
LEMMA MovesProtocol ==
  ASSUME TypeOK, ProtocolInv, NEW r \in Requests, Moves(r)
  PROVE  ProtocolInv' /\ Slack <= Slack'
<1>1. \A s \in Requests : IsHook(s)' => IsHook(s)
  BY DEF Moves, IsHook
<1>2. \A s \in Requests : IsStatus(s)' => IsStatus(s) /\ req'[s].next = req[s].next
  BY DEF Moves, IsStatus, Hooks
<1>3. \A s \in Requests : InTurn(s)' => InTurn(s)
  BY <1>1 DEF InTurn, IsHook, Moves, TurnNext
<1>4. phase' = "closed" <=> phase = "closed"
  BY DEF Moves
<1>5. ASSUME NEW s \in Requests, IsHook(s)' PROVE phase' \notin {"idle", "listening"}
  <2>1. IsHook(s) /\ phase \notin {"idle", "listening"}
    BY <1>1, <1>5 DEF ProtocolInv
  <2>2. CASE phase' = phase
    BY <2>1, <2>2
  <2>3. CASE phase' # phase
    <3>1. IsHook(r) /\ req'[r].pc = "idle"
      BY <2>3 DEF Moves, IsHook
    <3>2. s = r
      BY <2>1, <3>1 DEF ProtocolInv
    <3>3. QED BY <1>5, <3>1, <3>2 DEF IsHook
  <2>4. QED BY <2>2, <2>3
<1>6. ASSUME NEW s \in Requests, IsStatus(s)' PROVE phase' = "closed" /\ req'[s].next = "end"
  BY <1>2, <1>4, <1>6 DEF ProtocolInv
<1>7. ASSUME NEW s \in Requests, NEW t \in Requests, IsHook(s)', IsHook(t)' PROVE s = t
  BY <1>1, <1>7 DEF ProtocolInv
<1>8. ASSUME NEW s \in Requests, req'[s].pc # "idle"
      PROVE  req'[s].next = "report" <=> req'[s].kind = "report"
  <2>1. CASE s # r
    BY <1>8, <2>1 DEF Moves, ProtocolInv
  <2>2. CASE s = r
    <3>1. req'[r].kind = req[r].kind /\ (req[r].next = "report" <=> req[r].kind = "report")
      BY <1>8, <2>2 DEF Moves, ProtocolInv
    <3>2. req[r].kind = "report" => req'[r].next = req[r].next
      BY <1>8, <2>2 DEF Moves, Hooks
    <3>3. req'[r].next = "report" => req[r].next = "report"
      BY <1>8, <2>2 DEF Moves
    <3>4. QED BY <2>2, <3>1, <3>2, <3>3
  <2>3. QED BY <2>1, <2>2
<1>9. ProtocolInv'
  BY <1>5, <1>6, <1>7, <1>8 DEF ProtocolInv
<1>10. Slack <= Slack'
  BY <1>3, <1>4 DEF Slack
<1>11. QED BY <1>9, <1>10

\* The other requests keep what they hold while no turn is answered.
LEMMA OthersKeep ==
  ASSUME IInv, NEW r \in Requests, Moves(r), answered' <= answered, answered' \in 0..MaxTurns,
         NEW s \in Requests, s # r
  PROVE  CopyInv(s)'
<1>1. Slack <= Slack' /\ Slack \in {0, 1} /\ Slack' \in {0, 1}
  BY MovesProtocol, SlackSmall DEF IInv, Slack
<1>2. req'[s] = req[s] /\ (IsHook(s)' <=> IsHook(s)) /\ (InTurn(s)' <=> InTurn(s))
  BY DEF Moves, IsHook, InTurn
<1>3. req[s].copy # NoSession => req[s].copy \in Nat
  BY NumbersAssumption DEF IInv, TypeOK, Request, Sessions
<1>4. answered \in Nat /\ answered' \in Nat
  BY NumbersAssumption DEF IInv, TypeOK
<1>5. CopyInv(s)
  BY DEF IInv
<1>6. QED BY <1>1, <1>2, <1>3, <1>4, <1>5 DEF CopyInv

\* The part of the type invariant a step of the engine may disturb, and the rest.
RestTyped ==
    /\ stored \in Sessions /\ left \in 0..TTL
    /\ stored = NoSession <=> left = 0
    /\ record \in [Instances -> {"none", "open", "ended"}]
    /\ answered \in 0..MaxTurns
    /\ removed \in BOOLEAN /\ raised \in BOOLEAN

LEMMA Assembled ==
  ASSUME IInv, NEW r \in Requests, Moves(r), playback' = playback, RestTyped',
         stored' # NoSession => answered' <= stored' + Slack',
         answered' <= answered, CopyInv(r)', RecordInv'
  PROVE  IInv'
<1>1. ProtocolInv'
  BY MovesProtocol DEF IInv
<1>2. \A s \in Requests : CopyInv(s)'
  BY OthersKeep DEF RestTyped
<1>3. TypeOK'
  BY DEF IInv, TypeOK, RestTyped, Moves, Phase
<1>4. QED BY <1>1, <1>2, <1>3 DEF IInv

\* Steps that leave whether there is a session, and who recorded it, as they were.
LEMMA RecordKept ==
  ASSUME IInv, NEW r \in Requests, Moves(r), removed' = removed,
         stored' = NoSession <=> stored = NoSession,
         \A i \in Instances : record'[i] = "none" <=> record[i] = "none",
         req'[r].pc \in {"fetch", "store"} /\ ~removed => stored = NoSession,
         req'[r].pc \in {"touch", "drop"} /\ ~removed => stored # NoSession
  PROVE  RecordInv'
<1>1. \A s \in Requests : s # r => req'[s] = req[s]
  BY DEF Moves
<1>2. QED BY <1>1 DEF IInv, RecordInv

\* Before and after a step that only moves a request on.
LEMMA QuietStep ==
  ASSUME IInv, NEW r \in Requests, Moves(r), KeyUnchanged,
         UNCHANGED <<playback, record, answered, removed, raised>>, CopyInv(r)',
         req'[r].pc \in {"fetch", "store"} /\ ~removed => stored = NoSession,
         req'[r].pc \in {"touch", "drop"} /\ ~removed => stored # NoSession
  PROVE  IInv'
<1>1. RestTyped'
  BY DEF IInv, TypeOK, KeyUnchanged, RestTyped
<1>2. RecordInv'
  BY RecordKept DEF KeyUnchanged
<1>3. Slack <= Slack' /\ Slack \in {0, 1} /\ Slack' \in {0, 1}
  BY MovesProtocol, SlackSmall DEF IInv, Slack
<1>4. stored \in Int \/ stored = NoSession
  BY NumbersAssumption DEF IInv, TypeOK, Sessions
<1>5. answered \in Nat
  BY NumbersAssumption DEF IInv, TypeOK
<1>6. stored' # NoSession => answered' <= stored' + Slack'
  BY <1>3, <1>4, <1>5 DEF IInv, KeyUnchanged
<1>7. QED BY <1>1, <1>2, <1>5, <1>6, Assembled

LEMMA SetExTyped ==
  ASSUME NEW turns \in 0..MaxTurns, SetEx(turns)
  PROVE  /\ stored' = turns /\ stored' \in Sessions /\ stored' # NoSession
         /\ left' \in 0..TTL /\ left' # 0
  BY NumbersAssumption, NoSessionAssumption DEF SetEx, Sessions

\* get writes back what it read, for a webhook or the callback.
LEMMA WriteStep ==
  ASSUME IInv, NEW r \in Requests, req[r].pc = "touch", req[r].kind # "report",
         Moves(r), SetEx(req[r].copy),
         UNCHANGED <<playback, answered, removed>>, raised' \in BOOLEAN,
         record' \in [Instances -> {"none", "open", "ended"}],
         \A i \in Instances : record'[i] = "none" <=> record[i] = "none",
         req'[r].pc \notin {"fetch", "store"}, CopyInv(r)'
  PROVE  IInv'
<1>1. /\ req[r].copy \in 0..MaxTurns /\ answered <= req[r].copy + Slack
      /\ ~removed => stored # NoSession
  BY DEF IInv, TypeOK, Request, Sessions, CopyInv, RecordInv
<1>2. /\ stored' = req[r].copy /\ stored' \in Sessions /\ stored' # NoSession
      /\ left' \in 0..TTL /\ left' # 0
  BY <1>1, SetExTyped
<1>3. RestTyped'
  BY <1>2 DEF IInv, TypeOK, RestTyped
<1>4. RecordInv'
  <2>1. CASE removed
    BY <2>1 DEF RecordInv
  <2>2. CASE ~removed
    BY <1>1, <1>2, <2>2, RecordKept
  <2>3. QED BY <2>1, <2>2
<1>5. Slack <= Slack' /\ Slack \in {0, 1} /\ Slack' \in {0, 1}
  BY MovesProtocol, SlackSmall DEF IInv, Slack
<1>6. answered \in Nat
  BY NumbersAssumption DEF IInv, TypeOK
<1>7. answered' <= stored' + Slack'
  BY <1>1, <1>2, <1>5, <1>6
<1>8. QED BY <1>3, <1>4, <1>6, <1>7, Assembled

\* A session is saved, or removed, without a turn having been answered.
LEMMA SetStep ==
  ASSUME IInv, NEW r \in Requests, Moves(r), playback' = playback, raised' \in BOOLEAN,
         NEW turns \in 0..MaxTurns, SetEx(turns), answered' \in 0..MaxTurns,
         answered' <= answered, answered' <= turns, CopyInv(r)', RecordInv',
         removed' \in BOOLEAN, record' \in [Instances -> {"none", "open", "ended"}]
  PROVE  IInv'
<1>1. /\ stored' = turns /\ stored' \in Sessions /\ stored' # NoSession
      /\ left' \in 0..TTL /\ left' # 0
  BY SetExTyped
<1>2. RestTyped'
  BY <1>1 DEF RestTyped
<1>3. Slack' \in {0, 1}
  BY DEF Slack
<1>4. answered' <= stored' + Slack'
  <2>1. turns \in Nat /\ answered' \in Nat
    BY NumbersAssumption
  <2>2. \A n, m \in Nat : n <= m => n <= m + 0 /\ n <= m + 1
    OBVIOUS
  <2>3. answered' <= turns + 0 /\ answered' <= turns + 1
    BY <2>1, <2>2
  <2>4. QED BY <1>1, <1>3, <2>3
<1>5. QED BY <1>2, <1>4, Assembled

\* get writes back what it read, for a report: turns may be undone.
LEMMA ReportWrites ==
  ASSUME IInv, NEW r \in Requests, req[r].pc = "touch", req[r].kind = "report", Moves(r),
         WrittenBack(r), UNCHANGED <<playback, record, removed>>, raised' \in BOOLEAN,
         req'[r].pc \notin {"fetch", "store"}, CopyInv(r)'
  PROVE  IInv'
<1>1. req[r].copy \in 0..MaxTurns /\ SetEx(req[r].copy) /\ (~removed => stored # NoSession)
  BY DEF IInv, TypeOK, Request, Sessions, CopyInv, RecordInv, WrittenBack
<1>2. stored' # NoSession
  BY <1>1, SetExTyped
<1>3. answered' \in 0..MaxTurns /\ answered' <= answered /\ answered' <= req[r].copy
  <2>1. answered \in Nat /\ req[r].copy \in Nat /\ answered \in 0..MaxTurns
    BY <1>1, NumbersAssumption DEF IInv, TypeOK
  <2>2. answered' = IF req[r].copy < answered THEN req[r].copy ELSE answered
    BY DEF WrittenBack
  <2>3. QED BY <1>1, <2>1, <2>2
<1>4. RecordInv'
  <2>1. CASE removed
    BY <2>1 DEF RecordInv
  <2>2. CASE ~removed
    BY <1>1, <1>2, <2>2, RecordKept
  <2>3. QED BY <2>1, <2>2
<1>5. QED BY <1>1, <1>3, <1>4, SetStep DEF IInv, TypeOK

LEMMA DelStep ==
  ASSUME IInv, NEW r \in Requests, Moves(r), Del, removed' = TRUE,
         UNCHANGED <<playback, record, answered, raised>>, CopyInv(r)'
  PROVE  IInv'
<1>1. RestTyped'
  BY NumbersAssumption DEF IInv, TypeOK, Del, RestTyped, Sessions
<1>2. RecordInv' /\ stored' = NoSession /\ answered' <= answered
  BY NumbersAssumption DEF RecordInv, Del, IInv, TypeOK
<1>3. QED BY <1>1, <1>2, Assembled

-----------------------------------------------------------------------------
(* Every step preserves the invariant.                                     *)

\* The copy invariant asks nothing of a request that answers, reads or deletes.
LEMMA FreeCopy ==
  ASSUME NEW r, req'[r].pc \in {"idle", "get", "delete", "drop"}
  PROVE  CopyInv(r)'
  BY DEF CopyInv

\* A turn is a webhook's, and nothing was undone meanwhile.
LEMMA TurnIsHook ==
  ASSUME IInv, NEW r \in Requests, req[r].pc # "idle", req[r].next \in TurnNext
  PROVE  IsHook(r) /\ InTurn(r) /\ Slack = 0 /\ req[r].kind # "report" /\ req[r].kind \in Hooks
  BY DEF IInv, TypeOK, Request, ProtocolInv, IsHook, IsStatus, InTurn, Slack, TurnNext, Hooks

LEMMA GetNothingKeeps ==
  ASSUME IInv, NEW r \in Requests, GetNothing(r) PROVE IInv'
<1>1. /\ Moves(r)
      /\ \/ req'[r].pc \in {"idle", "get", "delete"}
         \/ req'[r].pc = "fetch" /\ req'[r].next \in {"has", "turn"} /\ req'[r].kind \in Hooks
  BY MissingMoves DEF GetNothing, IInv
<1>2. CopyInv(r)'
  BY <1>1 DEF CopyInv, IsHook, InTurn
<1>3. QED BY <1>1, <1>2, QuietStep DEF GetNothing

LEMMA GetValueKeeps ==
  ASSUME IInv, NEW r \in Requests, GetValue(r) PROVE IInv'
<1>1. stored \in Sessions /\ stored # NoSession /\ req[r] \in Request /\ req[r].pc = "get"
  BY DEF IInv, TypeOK, GetValue
<1>2. req' = [req EXCEPT ![r] = [req[r] EXCEPT !.pc = "touch", !.copy = stored]]
  BY DEF GetValue, Move
<1>3. req'[r] = [req[r] EXCEPT !.pc = "touch", !.copy = stored] /\ req'[r] \in Request
  BY <1>1, <1>2 DEF IInv, TypeOK, Request
<1>4. Moves(r)
  BY <1>1, <1>2, <1>3 DEF IInv, TypeOK, Moves, GetValue, Request
<1>5. Slack <= Slack' /\ Slack \in {0, 1} /\ Slack' \in {0, 1}
  BY <1>4, MovesProtocol, SlackSmall DEF IInv, Slack
<1>6. stored \in Nat /\ answered \in Nat
  BY <1>1, NumbersAssumption DEF Sessions, IInv, TypeOK
<1>7. answered' <= stored + Slack'
  BY <1>1, <1>5, <1>6 DEF IInv, GetValue
<1>8. req'[r].pc = "touch" /\ req'[r].copy = stored
  BY <1>1, <1>3 DEF Request
<1>9. CopyInv(r)'
  BY <1>1, <1>7, <1>8 DEF CopyInv
<1>10. QED BY <1>1, <1>4, <1>8, <1>9, QuietStep DEF GetValue

LEMMA KnownKeeps ==
  ASSUME IInv, NEW r \in Requests, Known(r) PROVE IInv'
<1>1. Written(r, "has") /\ req[r].pc = "touch" /\ req[r].next = "has"
  BY DEF Known, Written
<1>2. req[r].kind # "report" /\ req[r].kind \in Hooks
  BY <1>1, TurnIsHook DEF TurnNext
<1>3. Moves(r) /\ req'[r].pc \in {"idle", "get"}
  <2>1. CASE Speak(r)
    BY <1>1, <1>2, <2>1, SpeakMoves DEF IInv
  <2>2. CASE Read(r, "turn") /\ UNCHANGED phase
    BY <1>1, <1>2, <2>2, ReadMoves DEF IInv, TurnNext
  <2>3. QED BY <2>1, <2>2 DEF Known
<1>4. QED BY <1>1, <1>2, <1>3, FreeCopy, WriteStep DEF Known, Written, IInv, TypeOK

LEMMA TurnStaleKeeps ==
  ASSUME IInv, NEW r \in Requests, TurnStale(r) PROVE IInv'
<1>1. req[r].pc = "touch" /\ req[r].next \in {"turn", "again"} /\ SetEx(req[r].copy)
      /\ UNCHANGED <<playback, answered, removed, record, raised>>
  BY DEF TurnStale, Written
<1>2. Moves(r) /\ req'[r] = [req[r] EXCEPT !.pc = "refresh"]
  BY <1>1, WaitMoves DEF TurnStale, IInv
<1>3. req[r] \in Request /\ answered \in Nat
  BY NumbersAssumption DEF IInv, TypeOK
<1>4. /\ req'[r].pc = "refresh" /\ req'[r].copy = req[r].copy
      /\ req'[r].next = req[r].next /\ req'[r].kind = req[r].kind
  BY <1>2, <1>3 DEF Request
<1>5. InTurn(r) /\ IsHook(r) /\ Slack = 0 /\ req[r].kind # "report"
  BY <1>1, TurnIsHook DEF TurnNext
<1>6. InTurn(r)' /\ IsHook(r)'
  BY <1>4, <1>5 DEF InTurn, IsHook
<1>7. req[r].copy # NoSession /\ answered <= req[r].copy + 0
  BY <1>1, <1>5 DEF IInv, CopyInv
<1>8. req[r].copy \in Nat
  BY <1>3, <1>7, NumbersAssumption DEF Request, Sessions
<1>9. answered' <= req'[r].copy
  BY <1>1, <1>3, <1>4, <1>7, <1>8
<1>10. CopyInv(r)'
  BY <1>4, <1>6, <1>7, <1>9 DEF CopyInv
<1>11. QED BY <1>1, <1>2, <1>4, <1>5, <1>10, WriteStep DEF IInv, TypeOK

\* The three commands after which the plain configuration raises.
LEMMA PlainKeeps ==
  ASSUME IInv, NEW r \in Requests, TurnPlain(r) \/ VoicePlain(r) \/ EndPlain(r) PROVE IInv'
<1>1. /\ req[r].pc = "touch" /\ SetEx(req[r].copy) /\ Fail(r) /\ raised' = TRUE
      /\ UNCHANGED <<playback, answered, removed>>
  BY DEF TurnPlain, VoicePlain, EndPlain, Written
<1>2. Moves(r) /\ req'[r].pc \in {"idle", "get"}
  BY <1>1, FailMoves DEF IInv
<1>3. /\ record' \in [Instances -> {"none", "open", "ended"}]
      /\ \A i \in Instances : record'[i] = "none" <=> record[i] = "none"
  BY DEF TurnPlain, VoicePlain, EndPlain, IInv, TypeOK, Request
<1>4. req[r].kind # "report"
  BY <1>1 DEF TurnPlain, VoicePlain, EndPlain, Written, IInv, ProtocolInv
<1>5. QED BY <1>1, <1>2, <1>3, <1>4, FreeCopy, WriteStep

LEMMA ReportPlainKeeps ==
  ASSUME IInv, NEW r \in Requests, ReportPlain(r) PROVE IInv'
<1>1. /\ req[r].pc = "touch" /\ WrittenBack(r) /\ Fail(r) /\ raised' = TRUE
      /\ UNCHANGED <<playback, record, removed>>
  BY DEF ReportPlain
<1>2. req[r].kind = "report"
  BY <1>1 DEF ReportPlain, IInv, ProtocolInv
<1>3. Moves(r) /\ req'[r].pc \in {"idle", "get"}
  BY <1>1, FailMoves DEF IInv
<1>4. QED BY <1>1, <1>2, <1>3, FreeCopy, ReportWrites

LEMMA EndUnknownKeeps ==
  ASSUME IInv, NEW r \in Requests, EndUnknown(r) PROVE IInv'
<1>1. /\ req[r].pc = "touch" /\ SetEx(req[r].copy)
      /\ UNCHANGED <<playback, answered, removed, record, raised>>
  BY DEF EndUnknown, Written
<1>2. Moves(r) /\ req'[r] = [req[r] EXCEPT !.pc = "delete"]
  BY <1>1, WaitMoves DEF EndUnknown, IInv
<1>3. req'[r].pc = "delete"
  BY <1>2 DEF IInv, TypeOK, Request
<1>4. CopyInv(r)'
  BY <1>3, FreeCopy
<1>5. req[r].kind # "report"
  BY <1>1 DEF EndUnknown, Written, IInv, ProtocolInv
<1>6. QED BY <1>1, <1>2, <1>3, <1>4, <1>5, WriteStep DEF IInv, TypeOK

LEMMA TouchFailsKeeps ==
  ASSUME IInv, NEW r \in Requests, TouchFails(r) PROVE IInv'
<1>1. req[r].pc = "touch" /\ UNCHANGED <<playback, record, phase, removed, raised>>
  BY DEF TouchFails
<1>2. Moves(r) /\ req'[r] = [req[r] EXCEPT !.pc = "drop"]
  BY <1>1, WaitMoves DEF TouchFails, IInv
<1>3. req'[r].pc = "drop"
  BY <1>2 DEF IInv, TypeOK, Request
<1>4. CopyInv(r)'
  BY <1>3, FreeCopy
<1>5. CASE KeyUnchanged /\ UNCHANGED answered
  <2>1. ~removed => stored # NoSession
    BY <1>1 DEF IInv, RecordInv
  <2>2. QED BY <1>1, <1>2, <1>3, <1>4, <1>5, <2>1, QuietStep
<1>6. CASE WrittenBack(r)
  <2>1. CASE req[r].kind = "report"
    BY <1>1, <1>2, <1>3, <1>4, <1>6, <2>1, ReportWrites DEF IInv, TypeOK
  <2>2. CASE req[r].kind # "report"
    BY <1>1, <1>2, <1>3, <1>4, <1>6, <2>2, WriteStep DEF IInv, TypeOK, WrittenBack
  <2>3. QED BY <2>1, <2>2
<1>7. QED BY <1>5, <1>6 DEF TouchFails

LEMMA DropKeeps ==
  ASSUME IInv, NEW r \in Requests, Drop(r) PROVE IInv'
<1>1. /\ Moves(r)
      /\ \/ req'[r].pc \in {"idle", "get", "delete"}
         \/ req'[r].pc = "fetch" /\ req'[r].next \in {"has", "turn"} /\ req'[r].kind \in Hooks
  BY MissingMoves DEF Drop, IInv
<1>2. CopyInv(r)'
  BY <1>1 DEF CopyInv, IsHook, InTurn
<1>3. QED BY <1>1, <1>2, DelStep DEF Drop

\* The webhook saves the session: no other request is about to.
LEMMA HookSaves ==
  ASSUME IInv, NEW r \in Requests, Moves(r), IsHook(r), req'[r].pc \notin {"fetch", "store"},
         NEW s \in Requests
  PROVE  req'[s].pc \notin {"fetch", "store"}
<1>1. CASE s = r
  BY <1>1
<1>2. CASE s # r
  <2>1. ~IsHook(s)
    BY <1>2 DEF IInv, ProtocolInv
  <2>2. req'[s] = req[s]
    BY <1>2 DEF Moves
  <2>3. QED BY <2>1, <2>2 DEF IInv, CopyInv
<1>3. QED BY <1>1, <1>2

LEMMA HookRecorded ==
  ASSUME IInv, NEW r \in Requests, Moves(r), IsHook(r), req'[r].pc \notin {"fetch", "store"},
         stored' # NoSession, UNCHANGED <<record, removed>>
  PROVE  RecordInv'
  BY HookSaves DEF IInv, RecordInv

LEMMA CommandFailsKeeps ==
  ASSUME IInv, NEW r \in Requests, CommandFails(r) PROVE IInv'
<1>1. /\ req[r].pc # "idle" /\ Fail(r)
      /\ UNCHANGED <<playback, record, raised>>
  BY DEF CommandFails
<1>2. Moves(r) /\ req'[r].pc \in {"idle", "get"}
  BY <1>1, FailMoves DEF IInv
<1>3. CopyInv(r)'
  BY <1>2, FreeCopy
<1>4. CASE KeyUnchanged /\ UNCHANGED <<answered, removed>>
  BY <1>1, <1>2, <1>3, <1>4, QuietStep
<1>5. CASE Del /\ removed' = TRUE /\ answered' = answered
  BY <1>1, <1>2, <1>3, <1>5, DelStep
<1>6. CASE req[r].pc = "store" /\ SetEx(0) /\ answered' = 0 /\ removed' = removed
  <2>1. 0 \in 0..MaxTurns /\ answered' <= answered /\ answered' \in 0..MaxTurns /\ answered' <= 0
    BY <1>6, NumbersAssumption DEF IInv, TypeOK
  <2>2. stored' = 0 /\ stored' # NoSession
    BY <1>6, <2>1, SetExTyped
  <2>3. IsHook(r)
    BY <1>6 DEF IInv, CopyInv
  <2>4. RecordInv'
    BY <1>1, <1>2, <1>6, <2>2, <2>3, HookRecorded
  <2>5. QED BY <1>1, <1>2, <1>3, <1>6, <2>1, <2>4, SetStep DEF IInv, TypeOK
<1>7. CASE req[r].pc = "save" /\ SetEx(req[r].copy) /\ UNCHANGED <<answered, removed>>
  <2>1. req[r].copy \in 0..MaxTurns /\ answered < req[r].copy /\ InTurn(r)
    BY <1>7 DEF IInv, TypeOK, Request, Sessions, CopyInv
  <2>2. answered' <= req[r].copy /\ answered' <= answered /\ answered' \in 0..MaxTurns
    BY <1>7, <2>1, NumbersAssumption DEF IInv, TypeOK
  <2>3. stored' = req[r].copy /\ stored' # NoSession
    BY <1>7, <2>1, SetExTyped
  <2>4. RecordInv'
    BY <1>1, <1>2, <1>7, <2>1, <2>3, HookRecorded DEF InTurn
  <2>5. QED BY <1>1, <1>2, <1>3, <1>7, <2>1, <2>2, <2>4, SetStep DEF IInv, TypeOK
<1>8. QED BY <1>4, <1>5, <1>6, <1>7 DEF CommandFails

LEMMA FetchedKeeps ==
  ASSUME IInv, NEW r \in Requests, Fetched(r) PROVE IInv'
<1>1. req[r].pc = "fetch" /\ InTurn(r) /\ req[r] \in Request
  BY DEF Fetched, IInv, CopyInv, TypeOK
<1>2. CASE Wait(r, "store") /\ UNCHANGED phase
  <2>1. Moves(r) /\ req'[r] = [req[r] EXCEPT !.pc = "store"]
    BY <1>1, <1>2, WaitMoves DEF IInv
  <2>2. req'[r].pc = "store" /\ req'[r].next = req[r].next /\ req'[r].kind = req[r].kind
    BY <1>1, <2>1 DEF Request
  <2>3. CopyInv(r)'
    BY <1>1, <2>2 DEF CopyInv, InTurn, IsHook
  <2>4. ~removed => stored = NoSession
    BY <1>1 DEF IInv, RecordInv
  <2>5. QED BY <2>1, <2>2, <2>3, <2>4, QuietStep DEF Fetched
<1>3. CASE Fail(r)
  <2>1. Moves(r) /\ req'[r].pc \in {"idle", "get"}
    BY <1>1, <1>3, FailMoves DEF IInv
  <2>2. QED BY <2>1, FreeCopy, QuietStep DEF Fetched
<1>4. QED BY <1>2, <1>3 DEF Fetched

LEMMA StartKeeps ==
  ASSUME IInv, NEW r \in Requests, Start(r) PROVE IInv'
<1>1. req[r].pc = "store" /\ InTurn(r) /\ IsHook(r) /\ req[r] \in Request
  BY DEF Start, IInv, CopyInv, TypeOK
<1>2. Moves(r) /\ req'[r] = [req[r] EXCEPT !.pc = "greet"]
  BY <1>1, WaitMoves DEF Start, IInv
<1>3. req'[r].pc = "greet" /\ req'[r].next = req[r].next /\ req'[r].kind = req[r].kind
  BY <1>1, <1>2 DEF Request
<1>4. CopyInv(r)'
  BY <1>1, <1>3 DEF CopyInv, InTurn, IsHook
<1>5. 0 \in 0..MaxTurns /\ answered' <= answered /\ answered' \in 0..MaxTurns /\ answered' <= 0
  BY NumbersAssumption DEF IInv, TypeOK, Start
<1>6. stored' # NoSession
  BY <1>5, SetExTyped DEF Start
<1>7. req[r].at \in Instances /\ record \in [Instances -> {"none", "open", "ended"}]
  BY <1>1 DEF Request, IInv, TypeOK
<1>8. record' \in [Instances -> {"none", "open", "ended"}]
  BY <1>7 DEF Start
<1>9. RecordInv'
  <2>1. CASE removed
    BY <2>1 DEF RecordInv, Start
  <2>2. CASE ~removed
    <3>1. \A i \in Instances : record[i] = "none"
      BY <1>1, <2>2 DEF IInv, RecordInv
    <3>2. \A i \in Instances : record'[i] # "none" => i = req[r].at
      BY <1>7, <3>1 DEF Start
    <3>3. \A s \in Requests : req'[s].pc \notin {"fetch", "store"}
      BY <1>1, <1>2, <1>3, HookSaves
    <3>4. QED BY <1>6, <3>2, <3>3 DEF RecordInv
  <2>3. QED BY <2>1, <2>2
<1>10. QED BY <1>2, <1>4, <1>5, <1>8, <1>9, SetStep DEF Start, IInv, TypeOK

LEMMA GreetedKeeps ==
  ASSUME IInv, NEW r \in Requests, Greeted(r) PROVE IInv'
<1>1. req[r].pc = "greet" /\ req[r].next \in TurnNext
  BY DEF Greeted, IInv, CopyInv, InTurn, TurnNext
<1>2. req[r].kind \in Hooks /\ req[r] \in Request
  BY <1>1, TurnIsHook DEF IInv, TypeOK
<1>3. ASSUME NEW next \in {"turn", "again"}, Read(r, next), UNCHANGED phase
      PROVE  Moves(r) /\ req'[r].pc = "get"
  BY <1>1, <1>2, <1>3, ReadMoves DEF IInv
<1>4. Moves(r) /\ req'[r].pc \in {"idle", "get"}
  BY <1>1, <1>2, <1>3, SpeakMoves DEF Greeted, IInv
<1>5. QED BY <1>4, FreeCopy, QuietStep DEF Greeted

LEMMA UserTurnKeeps ==
  ASSUME IInv, NEW r \in Requests, UserTurn(r) PROVE IInv'
<1>1. /\ req[r].pc = "refresh" /\ InTurn(r) /\ IsHook(r) /\ req[r] \in Request
      /\ req[r].copy # NoSession /\ answered <= req[r].copy /\ req[r].copy < MaxTurns
  BY DEF UserTurn, IInv, CopyInv, TypeOK, InTurn
<1>2. /\ req[r].copy \in Nat /\ req[r].copy + 1 \in 0..MaxTurns /\ answered \in Nat
      /\ req[r].copy + 1 # NoSession
  BY <1>1, NumbersAssumption, NoSessionAssumption DEF Request, Sessions, IInv, TypeOK
<1>3. req' = [req EXCEPT ![r] = [req[r] EXCEPT !.pc = "model", !.copy = req[r].copy + 1]]
  BY DEF UserTurn, Move
<1>4. /\ req'[r] = [req[r] EXCEPT !.pc = "model", !.copy = req[r].copy + 1]
      /\ req'[r] \in Request
  BY <1>1, <1>2, <1>3 DEF IInv, TypeOK, Request, Sessions
<1>5. /\ req'[r].pc = "model" /\ req'[r].copy = req[r].copy + 1
      /\ req'[r].next = req[r].next /\ req'[r].kind = req[r].kind
  BY <1>1, <1>4 DEF Request
<1>6. Moves(r)
  BY <1>1, <1>3, <1>4, <1>5 DEF IInv, TypeOK, Moves, UserTurn
<1>7. answered < req[r].copy + 1
  BY <1>1, <1>2
<1>8. CopyInv(r)'
  BY <1>1, <1>2, <1>5, <1>7 DEF CopyInv, InTurn, IsHook, UserTurn
<1>9. QED BY <1>5, <1>6, <1>8, QuietStep DEF UserTurn

LEMMA ModelTurnKeeps ==
  ASSUME IInv, NEW r \in Requests, ModelTurn(r) PROVE IInv'
<1>1. /\ req[r].pc = "model" /\ InTurn(r) /\ IsHook(r) /\ req[r] \in Request
      /\ req[r].copy # NoSession /\ answered < req[r].copy
  BY DEF ModelTurn, IInv, CopyInv, TypeOK, InTurn
<1>2. PICK hangup \in BOOLEAN :
        req' = [req EXCEPT ![r] = [req[r] EXCEPT !.pc = "save", !.hangup = hangup]]
  BY DEF ModelTurn, Move
<1>3. req'[r] = [req[r] EXCEPT !.pc = "save", !.hangup = hangup] /\ req'[r] \in Request
  BY <1>1, <1>2 DEF IInv, TypeOK, Request
<1>4. /\ req'[r].pc = "save" /\ req'[r].copy = req[r].copy
      /\ req'[r].next = req[r].next /\ req'[r].kind = req[r].kind
  BY <1>1, <1>3 DEF Request
<1>5. Moves(r)
  BY <1>1, <1>2, <1>3, <1>4 DEF IInv, TypeOK, Moves, ModelTurn
<1>6. CopyInv(r)'
  BY <1>1, <1>4 DEF CopyInv, InTurn, IsHook, ModelTurn
<1>7. QED BY <1>4, <1>5, <1>6, QuietStep DEF ModelTurn

LEMMA DeleteKeeps ==
  ASSUME IInv, NEW r \in Requests, Delete(r) PROVE IInv'
<1>1. Moves(r) /\ req'[r].pc = "idle"
  BY AnswerMoves DEF Delete, IInv
<1>2. QED BY <1>1, FreeCopy, DelStep DEF Delete

\* A turn is answered: a callback that read the session before may undo this one.
LEMMA SaveKeeps ==
  ASSUME IInv, NEW r \in Requests, Save(r) PROVE IInv'
<1>1. /\ req[r].pc = "save" /\ InTurn(r) /\ IsHook(r) /\ req[r].kind \in Hooks
      /\ req[r].copy \in 0..MaxTurns /\ answered < req[r].copy /\ SetEx(req[r].copy)
  BY DEF Save, IInv, CopyInv, TypeOK, InTurn, IsHook, Request, Sessions
<1>2. /\ Moves(r)
      /\ req'[r].pc = "idle" \/ (req'[r].pc = "get" /\ req'[r].next \notin TurnNext)
  BY <1>1, SpeakMoves DEF Save, IInv
<1>3. stored' = req[r].copy /\ stored' \in Sessions /\ stored' # NoSession
      /\ left' \in 0..TTL /\ left' # 0
  BY <1>1, SetExTyped
<1>4. /\ answered \in Nat /\ req[r].copy \in Nat /\ req[r].copy <= MaxTurns
      /\ answered + 1 <= req[r].copy /\ MaxTurns \in Nat
  BY <1>1, NumbersAssumption DEF IInv, TypeOK
<1>5. answered' = answered + 1
  BY <1>4 DEF Save
<1>6. RestTyped'
  BY <1>3, <1>4, <1>5 DEF RestTyped, Save, IInv, TypeOK
<1>7. TypeOK'
  BY <1>2, <1>6 DEF IInv, TypeOK, RestTyped, Moves, Phase, Save
<1>8. ProtocolInv' /\ Slack' \in {0, 1}
  BY <1>2, MovesProtocol DEF IInv, Slack
<1>9. stored' # NoSession => answered' <= stored' + Slack'
  BY <1>3, <1>4, <1>5, <1>8
<1>10. ~\E s \in Requests : InTurn(s)'
  <2>1. ASSUME NEW s \in Requests, s # r PROVE ~InTurn(s)'
    BY <1>1, <1>2, <2>1 DEF IInv, ProtocolInv, Moves, InTurn, IsHook
  <2>2. ~InTurn(r)'
    BY <1>2 DEF InTurn, IsHook, TurnNext
  <2>3. QED BY <2>1, <2>2
<1>11. ASSUME NEW s \in Requests PROVE CopyInv(s)'
  <2>1. CASE s = r
    BY <1>2, <2>1, FreeCopy
  <2>2. CASE s # r
    <3>1. req'[s] = req[s] /\ ~IsHook(s) /\ CopyInv(s)
      BY <1>1, <1>2, <2>2 DEF Moves, IInv, ProtocolInv
    <3>2. CASE req[s].pc # "touch" \/ req[s].kind = "report"
      BY <3>1, <3>2 DEF CopyInv, InTurn
    <3>3. CASE req[s].pc = "touch" /\ req[s].kind # "report"
      <4>1. IsStatus(s) /\ phase = "closed"
        BY <3>1, <3>3 DEF IInv, ProtocolInv, TypeOK, Request, IsHook, IsStatus
      <4>2. phase' = "closed" /\ Slack = 0
        BY <1>1, <1>2, <4>1 DEF Moves, Slack
      <4>3. Slack' = 1
        BY <1>10, <4>2 DEF Slack
      <4>4. req[s].copy \in Nat /\ req[s].copy # NoSession /\ answered <= req[s].copy + 0
        BY <3>1, <3>3, <4>2, NumbersAssumption DEF CopyInv, IInv, TypeOK, Request, Sessions
      <4>5. answered' <= req[s].copy + Slack'
        BY <1>4, <1>5, <4>3, <4>4
      <4>6. QED BY <3>1, <3>3, <4>4, <4>5 DEF CopyInv
    <3>4. QED BY <3>2, <3>3
  <2>3. QED BY <2>1, <2>2
<1>12. RecordInv'
  BY <1>1, <1>2, <1>3, HookRecorded DEF Save
<1>13. QED BY <1>7, <1>8, <1>9, <1>11, <1>12 DEF IInv

LEMMA EngineKeeps ==
  ASSUME IInv, NEW r \in Requests, EngineStep(r) PROVE IInv'
  BY GetNothingKeeps, GetValueKeeps, KnownKeeps, TurnStaleKeeps, PlainKeeps, ReportPlainKeeps,
     EndUnknownKeeps, TouchFailsKeeps, DropKeeps, CommandFailsKeeps, FetchedKeeps, StartKeeps, GreetedKeeps,
     UserTurnKeeps, ModelTurnKeeps, SaveKeeps, DeleteKeeps
  DEF EngineStep

-----------------------------------------------------------------------------
(* Steps of Twilio, of time and of failures.                               *)

\* Requests come and go: what the others hold depends on the slack alone.
LEMMA Elsewhere ==
  ASSUME IInv, TypeOK', ProtocolInv', UNCHANGED <<stored, answered, removed>>,
         \A i \in Instances : record'[i] = record[i] \/ record'[i] = "none",
         \A r \in Requests : req'[r] = req[r] \/ req'[r].pc \in {"idle", "get"},
         Slack <= Slack'
  PROVE  IInv'
<1>1. Slack \in {0, 1} /\ Slack' \in {0, 1} /\ answered \in Nat
  BY SlackSmall, NumbersAssumption DEF Slack, IInv, TypeOK
<1>2. stored' # NoSession => answered' <= stored' + Slack'
  <2>1. SUFFICES ASSUME stored # NoSession PROVE answered <= stored + Slack'
    OBVIOUS
  <2>2. stored \in Nat /\ answered <= stored + Slack
    BY <2>1, NumbersAssumption DEF IInv, TypeOK, Sessions
  <2>3. \A n, m, a, b \in Nat : n <= m + a /\ a <= b => n <= m + b
    OBVIOUS
  <2>4. Slack \in Nat /\ Slack' \in Nat
    BY <1>1
  <2>5. QED BY <1>1, <2>2, <2>3, <2>4
<1>3. ASSUME NEW r \in Requests PROVE CopyInv(r)'
  <2>1. CASE req'[r].pc \in {"idle", "get"}
    BY <2>1, FreeCopy
  <2>2. CASE req'[r] = req[r]
    <3>1. CopyInv(r) /\ (IsHook(r)' <=> IsHook(r)) /\ (InTurn(r)' <=> InTurn(r))
      BY <2>2 DEF IInv, IsHook, InTurn
    <3>2. req[r].copy # NoSession => req[r].copy \in Nat
      BY NumbersAssumption DEF IInv, TypeOK, Request, Sessions
    <3>3. QED BY <1>1, <2>2, <3>1, <3>2 DEF CopyInv
  <2>3. QED BY <2>1, <2>2
<1>4. RecordInv'
  BY DEF IInv, RecordInv
<1>5. QED BY <1>2, <1>3, <1>4 DEF IInv

LEMMA ArriveMoves ==
  ASSUME IInv, NEW r \in Requests, NEW i \in Instances, NEW kind \in Hooks \cup {"status", "report"},
         NEW next \in {"has", "end", "report"}, Arrive(r, i, kind, "get", next),
         phase' \in Phase
  PROVE  /\ TypeOK'
         /\ req'[r].pc = "get" /\ req'[r].kind = kind /\ req'[r].next = next
         /\ \A s \in Requests : s # r => req'[s] = req[s]
<1>1. Arrived(kind, i, "get", next) \in Request
  BY DEF Arrived, Request, Sessions
<1>2. req' = [req EXCEPT ![r] = Arrived(kind, i, "get", next)]
  BY DEF Arrive, Move
<1>3. QED BY <1>1, <1>2 DEF Arrive, Arrived, KeyUnchanged, IInv, TypeOK

LEMMA IncomingKeeps ==
  ASSUME IInv, NEW r \in Requests, NEW i \in Instances, Incoming(r, i) PROVE IInv'
<1>1. phase \in {"idle", "listening"} /\ phase' = "asking"
  BY DEF Incoming
<1>2. PICK kind \in Hooks : Arrive(r, i, kind, "get", "has")
  BY DEF Incoming, Hooks
<1>3. /\ TypeOK'
      /\ req'[r].pc = "get" /\ req'[r].kind = kind /\ req'[r].next = "has"
      /\ \A s \in Requests : s # r => req'[s] = req[s]
  BY <1>1, <1>2, ArriveMoves DEF Phase
<1>4. \A s \in Requests : ~IsHook(s) /\ ~IsStatus(s)
  BY <1>1 DEF IInv, ProtocolInv
<1>5. ProtocolInv'
  BY <1>1, <1>3, <1>4 DEF IInv, ProtocolInv, IsHook, IsStatus, Hooks
<1>6. Slack = 0 /\ Slack' = 0
  BY <1>1 DEF Slack
<1>7. QED BY <1>2, <1>3, <1>5, <1>6, Elsewhere DEF Arrive, KeyUnchanged

LEMMA StatusKeeps ==
  ASSUME IInv, NEW r \in Requests, NEW i \in Instances, Status(r, i) PROVE IInv'
<1>1. phase = "over" /\ phase' = "closed" /\ Arrive(r, i, "status", "get", "end")
  BY DEF Status
<1>2. /\ TypeOK'
      /\ req'[r].pc = "get" /\ req'[r].kind = "status" /\ req'[r].next = "end"
      /\ \A s \in Requests : s # r => req'[s] = req[s]
  BY <1>1, ArriveMoves DEF Phase
<1>3. \A s \in Requests : ~IsStatus(s)
  BY <1>1 DEF IInv, ProtocolInv
<1>4. ProtocolInv'
  BY <1>1, <1>2, <1>3 DEF IInv, ProtocolInv, IsHook, IsStatus, Hooks
<1>5. Slack = 0 /\ Slack' \in {0, 1}
  BY <1>1 DEF Slack
<1>6. Slack <= Slack'
  BY <1>5
<1>7. QED BY <1>1, <1>2, <1>4, <1>6, Elsewhere DEF Arrive, KeyUnchanged

LEMMA ReportKeeps ==
  ASSUME IInv, NEW r \in Requests, NEW i \in Instances, Report(r, i) PROVE IInv'
<1>1. phase' = phase /\ Arrive(r, i, "report", "get", "report") /\ req[r].pc = "idle"
  BY DEF Report, Arrive
<1>2. /\ TypeOK'
      /\ req'[r].pc = "get" /\ req'[r].kind = "report" /\ req'[r].next = "report"
      /\ \A s \in Requests : s # r => req'[s] = req[s]
  BY <1>1, ArriveMoves DEF IInv, TypeOK
<1>3. ProtocolInv'
  BY <1>1, <1>2 DEF IInv, ProtocolInv, IsHook, IsStatus, Hooks
<1>4. \A s \in Requests : InTurn(s)' => InTurn(s)
  BY <1>1, <1>2 DEF InTurn, IsHook, Hooks
<1>5. Slack <= Slack'
  BY <1>1, <1>4 DEF Slack
<1>6. QED BY <1>1, <1>2, <1>3, <1>5, Elsewhere DEF Arrive, KeyUnchanged

LEMMA EndsKeeps ==
  ASSUME IInv, CallEnds \/ StatusLost PROVE IInv'
<1>1. /\ phase \in {"asking", "listening", "over"} /\ phase' \in {"over", "lost"}
      /\ UNCHANGED <<playback, stored, left, record, req, answered, removed, raised>>
  BY DEF CallEnds, StatusLost, KeyUnchanged
<1>2. TypeOK' /\ ProtocolInv'
  BY <1>1 DEF IInv, TypeOK, Phase, ProtocolInv, IsHook, IsStatus
<1>3. Slack = 0 /\ Slack' = 0
  BY <1>1 DEF Slack
<1>4. QED BY <1>1, <1>2, <1>3, Elsewhere

LEMMA RestartKeeps ==
  ASSUME IInv, NEW i \in Instances, Restart(i) PROVE IInv'
<1>1. /\ \A r \in Requests : req'[r] = req[r] \/ req'[r] = NoRequest
      /\ phase' = phase \/ (phase = "asking" /\ phase' = "over")
      /\ \A j \in Instances : record'[j] = record[j] \/ record'[j] = "none"
      /\ UNCHANGED <<playback, stored, left, answered, removed, raised>>
  BY DEF Restart, KeyUnchanged, IInv, TypeOK
<1>2. record' \in [Instances -> {"none", "open", "ended"}] /\ req' \in [Requests -> Request]
  BY NoRequestTyped DEF Restart, IInv, TypeOK
<1>3. TypeOK'
  BY <1>1, <1>2 DEF IInv, TypeOK, Phase
<1>4. \A r \in Requests : req'[r] = req[r] \/ req'[r].pc = "idle"
  BY <1>1, NoRequestTyped
<1>5. ProtocolInv'
  BY <1>1, <1>4 DEF IInv, ProtocolInv, IsHook, IsStatus
<1>6. Slack <= Slack'
  BY <1>1, <1>4 DEF Slack, InTurn, IsHook
<1>7. QED BY <1>1, <1>3, <1>4, <1>5, <1>6, Elsewhere

LEMMA TickKeeps ==
  ASSUME IInv, Tick PROVE IInv'
<1>1. /\ left \in Nat /\ left > 0 /\ left <= TTL /\ TTL \in Nat /\ left' = left - 1
      /\ stored \in Sessions /\ stored # NoSession
  BY NumbersAssumption DEF IInv, TypeOK, Tick
<1>2. /\ stored' = NoSession <=> left' = 0
      /\ left' \in 0..TTL /\ stored' \in Sessions
  BY <1>1 DEF Tick, Sessions
<1>3. TypeOK'
  BY <1>2 DEF IInv, TypeOK, Tick
<1>4. ProtocolInv' /\ Slack' = Slack /\ \A r \in Requests : CopyInv(r)'
  BY DEF IInv, Tick, ProtocolInv, IsHook, IsStatus, InTurn, Slack, CopyInv
<1>5. stored' = NoSession \/ stored' = stored
  BY DEF Tick
<1>6. RecordInv'
  <2>1. CASE left = 1
    BY <2>1 DEF Tick, RecordInv
  <2>2. CASE left # 1
    BY <2>2 DEF Tick, IInv, RecordInv
  <2>3. QED BY <2>1, <2>2
<1>7. QED BY <1>3, <1>4, <1>5, <1>6 DEF IInv, Tick

-----------------------------------------------------------------------------
(* The theorems.                                                           *)

LEMMA InitHolds == Init => IInv
<1>1. SUFFICES ASSUME Init PROVE IInv
  OBVIOUS
<1>2. TypeOK
  <2>1. req \in [Requests -> Request]
    BY <1>1, NoRequestTyped DEF Init
  <2>2. stored \in Sessions /\ left \in 0..TTL /\ answered \in 0..MaxTurns
    BY <1>1, NumbersAssumption DEF Init, Sessions
  <2>3. QED BY <1>1, <2>1, <2>2 DEF Init, TypeOK, Phase
<1>3. \A r \in Requests : req[r].pc = "idle"
  BY <1>1, NoRequestTyped DEF Init
<1>4. QED BY <1>1, <1>2, <1>3 DEF Init, IInv, ProtocolInv, IsHook, IsStatus, CopyInv, RecordInv

LEMMA StepKeeps == IInv /\ [Next]_vars => IInv'
<1>1. SUFFICES ASSUME IInv, [Next]_vars PROVE IInv'
  OBVIOUS
<1>2. CASE Next
  BY <1>1, <1>2, EngineKeeps, IncomingKeeps, StatusKeeps, ReportKeeps, EndsKeeps,
     RestartKeeps, TickKeeps
  DEF Next
<1>3. CASE UNCHANGED vars
  BY <1>1, <1>3 DEF vars, IInv, TypeOK, ProtocolInv, IsHook, IsStatus, InTurn, Slack, CopyInv,
     RecordInv
<1>4. QED BY <1>1, <1>2, <1>3

\* The invariant of the sessions in Redis and of the requests that hold copies of
\* them (redis_session.py, get and save) holds in every reachable state.
THEOREM RedisInvariant == Spec => []IInv
  BY InitHolds, StepKeeps, PTL DEF Spec

\* Type correctness: also that a session in Redis always has an expiry (save).
THEOREM RedisTypes == Spec => []TypeOK
<1>1. IInv => TypeOK
  BY DEF IInv
<1>2. QED BY <1>1, RedisInvariant, PTL

\* Whatever instances serve a call, the session in Redis holds the turns answered
\* in it that no report asked for has undone, but for one that a callback may have
\* undone (get writing back what it read).
THEOREM TurnsAreKept == Spec => []TurnsKept
<1>1. IInv => TurnsKept
  BY NumbersAssumption DEF IInv, TypeOK, Sessions, TurnsKept, Slack
<1>2. QED BY <1>1, RedisInvariant, PTL

\* A call whose session stays in Redis has one record, among however many instances.
THEOREM OneRecordEach == Spec => []OneRecord
<1>1. ASSUME IInv, ~removed
      PROVE  Cardinality({i \in Instances : record[i] # "none"}) <= 1
  <2> DEFINE R == {i \in Instances : record[i] # "none"}
  <2>1. \A i, j \in R : i = j
    BY <1>1 DEF IInv, RecordInv
  <2>2. CASE R = {}
    BY <2>2, FS_EmptySet
  <2>3. CASE R # {}
    <3>1. PICK i \in R : TRUE
      BY <2>3
    <3>2. R = {i}
      BY <2>1, <3>1
    <3>3. Cardinality(R) = 1
      BY <3>2, FS_Singleton
    <3>4. QED BY <3>3
  <2>4. QED BY <2>2, <2>3
<1>2. IInv => OneRecord
  BY <1>1 DEF OneRecord
<1>3. QED BY <1>2, RedisInvariant, PTL
-----------------------------------------------------------------------------
(* A request's work runs out.                                              *)

LEMMA WorkCounted ==
  /\ \A next \in {"has", "turn", "again", "play", "sorry", "end", "report"} : Purpose(next) \in 1..6
  /\ \A pc \in {"get", "touch", "drop", "fetch", "store", "greet", "refresh", "model",
                 "save", "delete"} : Command(pc) \in 0..9
<1>1. \A next \in {"has", "turn", "again", "play", "sorry", "end", "report"} : Purpose(next) \in 1..6
  BY DEF Purpose
<1>2. \A pc \in {"get", "touch", "drop", "fetch", "store", "greet", "refresh", "model",
                 "save", "delete"} : Command(pc) \in 0..9
  BY DEF Command
<1>3. QED BY <1>1, <1>2

LEMMA WorkBounded ==
  ASSUME NEW q \in Request
  PROVE  /\ Work(q) \in Nat
         /\ q.pc = "idle" => Work(q) = 0
         /\ q.pc # "idle" => /\ Work(q) = 10 * Purpose(q.next) + Command(q.pc)
                            /\ Purpose(q.next) \in 1..6 /\ Command(q.pc) \in 0..9
<1>1. CASE q.pc = "idle"
  BY <1>1 DEF Work
<1>2. CASE q.pc # "idle"
  <2>1. Purpose(q.next) \in 1..6 /\ Command(q.pc) \in 0..9
    BY <1>2, WorkCounted DEF Request
  <2>2. QED BY <1>2, <2>1 DEF Work
<1>3. QED BY <1>1, <1>2

\* The request has less to do, and nobody else's changes.
Nearer(r) ==
    /\ req' \in [Requests -> Request]
    /\ \A s \in Requests : s # r => req'[s] = req[s]
    /\ phase' = phase \/ phase = "asking"
    /\ Work(req'[r]) < Work(req[r])

\* It goes on with a later purpose, with a later command, or not at all.
LEMMA NearerBy ==
  ASSUME TypeOK, NEW r \in Requests, Moves(r),
         \/ req'[r].pc = "idle"
         \/ Purpose(req'[r].next) < Purpose(req[r].next)
         \/ req'[r].next = req[r].next /\ Command(req'[r].pc) < Command(req[r].pc)
  PROVE  Nearer(r)
<1>1. req[r] \in Request /\ req'[r] \in Request /\ req[r].pc # "idle"
  BY DEF TypeOK, Moves
<1>2. /\ Work(req[r]) = 10 * Purpose(req[r].next) + Command(req[r].pc)
      /\ Purpose(req[r].next) \in 1..6 /\ Command(req[r].pc) \in 0..9
  BY <1>1, WorkBounded
<1>3. Work(req'[r]) < Work(req[r])
  <2>1. CASE req'[r].pc = "idle"
    BY <1>1, <1>2, <2>1, WorkBounded
  <2>2. CASE req'[r].pc # "idle"
    <3>1. /\ Work(req'[r]) = 10 * Purpose(req'[r].next) + Command(req'[r].pc)
          /\ Purpose(req'[r].next) \in 1..6 /\ Command(req'[r].pc) \in 0..9
      BY <1>1, <2>2, WorkBounded
    <3>2. CASE Purpose(req'[r].next) < Purpose(req[r].next)
      BY <1>2, <3>1, <3>2
    <3>3. CASE req'[r].next = req[r].next /\ Command(req'[r].pc) < Command(req[r].pc)
      BY <1>2, <3>1, <3>3
    <3>4. QED BY <2>2, <3>2, <3>3
  <2>3. QED BY <2>1, <2>2
<1>4. QED BY <1>3 DEF Moves, Nearer

LEMMA FailNears ==
  ASSUME TypeOK, ProtocolInv, NEW r \in Requests, req[r].pc # "idle", Fail(r)
  PROVE  Nearer(r)
<1>1. CASE req[r].kind \in Hooks /\ playback /\ req[r].next # "sorry"
  <2>1. Read(r, "sorry") /\ req[r] \in Request
    BY <1>1 DEF Fail, TypeOK
  <2>2. req'[r].next = "sorry"
    BY <2>1 DEF TypeOK, Read, Move, Request
  <2>3. Purpose(req'[r].next) < Purpose(req[r].next)
    BY <1>1, <2>1, <2>2 DEF Purpose, Request, ProtocolInv, Hooks
  <2>4. QED BY <2>3, FailMoves, NearerBy
<1>2. CASE ~(req[r].kind \in Hooks /\ playback /\ req[r].next # "sorry")
  <2>1. PICK then \in {"listening", "over"} : Respond(r, then)
    BY <1>2 DEF Fail
  <2>2. QED BY <2>1, RespondMoves, NearerBy
<1>3. QED BY <1>1, <1>2

\* A reply that is ready takes the request out of the turn.
LEMMA SpeakNears ==
  ASSUME TypeOK, NEW r \in Requests, req[r].pc # "idle", req[r].kind \in Hooks,
         req[r].next \in TurnNext, Speak(r)
  PROVE  Nearer(r)
<1>1. Moves(r)
  BY SpeakMoves
<1>2. CASE playback \/ req[r].hangup
  <2>1. PICK next \in {"play", "end"} : Read(r, next)
    BY <1>2 DEF Speak
  <2>2. req'[r].next = next
    BY <2>1 DEF TypeOK, Read, Move, Request
  <2>3. Purpose(req'[r].next) < Purpose(req[r].next)
    BY <2>1, <2>2 DEF Purpose, TurnNext
  <2>4. QED BY <1>1, <2>3, NearerBy
<1>3. CASE ~playback /\ ~req[r].hangup
  BY <1>1, <1>3, AnswerMoves, NearerBy DEF Speak
<1>4. QED BY <1>2, <1>3

LEMMA WaitNears ==
  ASSUME TypeOK, NEW r \in Requests, req[r].pc # "idle", UNCHANGED phase,
         NEW pc \in {"fetch", "store", "greet", "refresh", "drop", "delete"}, Wait(r, pc),
         Command(pc) < Command(req[r].pc)
  PROVE  Nearer(r)
<1>1. Moves(r) /\ req'[r] = [req[r] EXCEPT !.pc = pc]
  BY WaitMoves
<1>2. req[r] \in Request
  BY DEF TypeOK
<1>3. req'[r].pc = pc /\ req'[r].next = req[r].next
  BY <1>1, <1>2 DEF Request
<1>4. QED BY <1>1, <1>3, NearerBy

LEMMA ReadNears ==
  ASSUME TypeOK, NEW r \in Requests, req[r].pc # "idle", UNCHANGED phase,
         NEW next \in {"turn", "again", "end"}, Read(r, next),
         next \in TurnNext => req[r].next \in TurnNext,
         req[r].kind \in Hooks,
         Purpose(next) < Purpose(req[r].next)
  PROVE  Nearer(r)
<1>1. Moves(r) /\ req'[r].next = next
  BY ReadMoves
<1>2. QED BY <1>1, NearerBy

LEMMA MissingNears ==
  ASSUME TypeOK, ProtocolInv, NEW r \in Requests, req[r].pc \in {"get", "drop"}, Missing(r)
  PROVE  Nearer(r)
<1>1. CASE req[r].next \in {"has", "turn"} /\ Wait(r, "fetch") /\ UNCHANGED phase
  <2>1. Command("fetch") < Command(req[r].pc)
    BY DEF Command
  <2>2. QED BY <1>1, <2>1, WaitNears
<1>2. CASE req[r].next = "again" /\ Fail(r)
  BY <1>2, FailNears
<1>3. CASE req[r].next = "play" /\ req[r].hangup /\ Read(r, "end") /\ UNCHANGED phase
  <2>1. req[r].kind \in Hooks
    BY <1>3 DEF ProtocolInv, IsStatus, TypeOK, Request
  <2>2. Purpose("end") < Purpose(req[r].next) /\ "end" \notin TurnNext
    BY <1>3 DEF Purpose, TurnNext
  <2>3. QED BY <1>3, <2>1, <2>2, ReadNears
<1>4. CASE req[r].next = "play" /\ Answer(r)
  BY <1>4, AnswerMoves, NearerBy
<1>5. CASE req[r].next \in {"sorry", "report"} /\ Respond(r, "listening")
  BY <1>5, RespondMoves, NearerBy
<1>6. CASE req[r].next = "end" /\ Wait(r, "delete") /\ UNCHANGED phase
  <2>1. Command("delete") < Command(req[r].pc)
    BY DEF Command
  <2>2. QED BY <1>6, <2>1, WaitNears
<1>7. QED BY <1>1, <1>2, <1>3, <1>4, <1>5, <1>6 DEF Missing

\* Every step of the engine: it never goes back to an earlier purpose.
LEMMA EngineNears ==
  ASSUME IInv, NEW r \in Requests, EngineStep(r)
  PROVE  Nearer(r)
<1> DEFINE q == req[r]
<1>1. TypeOK /\ ProtocolInv /\ CopyInv(r) /\ q \in Request
  BY DEF IInv, TypeOK
<1>2. q.kind \in Hooks \/ q.kind \in {"status", "report"}
  BY <1>1 DEF Request
<1>3. q.pc # "idle" /\ q.next \notin {"end", "report"} => q.kind \in Hooks
  BY <1>1, <1>2 DEF ProtocolInv, IsStatus
<1>4. CASE GetNothing(r)
  BY <1>1, <1>4, MissingNears DEF GetNothing
<1>5. CASE GetValue(r)
  <2>1. req' = [req EXCEPT ![r] = [q EXCEPT !.pc = "touch", !.copy = stored]]
        /\ q.pc = "get" /\ phase' = phase /\ stored \in Sessions
    BY <1>1, <1>5 DEF GetValue, Move, TypeOK
  <2>2. Moves(r) /\ req'[r].pc = "touch" /\ req'[r].next = q.next
    BY <1>1, <2>1 DEF Moves, TypeOK, Request
  <2>3. Command(req'[r].pc) < Command(q.pc)
    BY <2>1, <2>2 DEF Command
  <2>4. QED BY <1>1, <2>2, <2>3, NearerBy
<1>6. CASE Known(r)
  <2>1. q.pc = "touch" /\ q.next = "has" /\ q.kind \in Hooks /\ q.next \in TurnNext
    BY <1>3, <1>6 DEF Known, Written, TurnNext
  <2>2. CASE Speak(r)
    BY <1>1, <2>1, <2>2, SpeakNears
  <2>3. CASE Read(r, "turn") /\ UNCHANGED phase
    <3>1. Purpose("turn") < Purpose(q.next)
      BY <2>1 DEF Purpose
    <3>2. QED BY <1>1, <2>1, <2>3, <3>1, ReadNears
  <2>4. QED BY <1>6, <2>2, <2>3 DEF Known
<1>7. CASE TurnStale(r)
  <2>1. q.pc = "touch" /\ Wait(r, "refresh") /\ UNCHANGED phase
    BY <1>7 DEF TurnStale, Written
  <2>2. Command("refresh") < Command(q.pc)
    BY <2>1 DEF Command
  <2>3. QED BY <1>1, <2>1, <2>2, WaitNears
<1>8. CASE TurnPlain(r) \/ VoicePlain(r) \/ EndPlain(r) \/ ReportPlain(r)
  <2>1. q.pc = "touch" /\ Fail(r)
    BY <1>8 DEF TurnPlain, VoicePlain, EndPlain, ReportPlain, Written
  <2>2. QED BY <1>1, <2>1, FailNears
<1>9. CASE EndUnknown(r)
  <2>1. q.pc = "touch" /\ Wait(r, "delete") /\ UNCHANGED phase
    BY <1>9 DEF EndUnknown, Written
  <2>2. Command("delete") < Command(q.pc)
    BY <2>1 DEF Command
  <2>3. QED BY <1>1, <2>1, <2>2, WaitNears
<1>10. CASE TouchFails(r)
  <2>1. q.pc = "touch" /\ Wait(r, "drop") /\ UNCHANGED phase
    BY <1>10 DEF TouchFails
  <2>2. Command("drop") < Command(q.pc)
    BY <2>1 DEF Command
  <2>3. QED BY <1>1, <2>1, <2>2, WaitNears
<1>11. CASE Drop(r)
  BY <1>1, <1>11, MissingNears DEF Drop
<1>12. CASE CommandFails(r)
  <2>1. q.pc # "idle" /\ Fail(r)
    BY <1>12 DEF CommandFails
  <2>2. QED BY <1>1, <2>1, FailNears
<1>13. CASE Fetched(r)
  <2>1. q.pc = "fetch"
    BY <1>13 DEF Fetched
  <2>2. CASE Wait(r, "store") /\ UNCHANGED phase
    <3>1. Command("store") < Command(q.pc)
      BY <2>1 DEF Command
    <3>2. QED BY <1>1, <2>1, <2>2, <3>1, WaitNears
  <2>3. CASE Fail(r)
    BY <1>1, <2>1, <2>3, FailNears
  <2>4. QED BY <1>13, <2>2, <2>3 DEF Fetched
<1>14. CASE Start(r)
  <2>1. q.pc = "store" /\ Wait(r, "greet") /\ UNCHANGED phase
    BY <1>14 DEF Start
  <2>2. Command("greet") < Command(q.pc)
    BY <2>1 DEF Command
  <2>3. QED BY <1>1, <2>1, <2>2, WaitNears
<1>15. CASE Greeted(r)
  <2>1. q.pc = "greet" /\ q.kind \in Hooks
    BY <1>1, <1>15 DEF Greeted, CopyInv, IsHook
  <2>2. CASE q.next = "turn" /\ Read(r, "again") /\ UNCHANGED phase
    <3>1. Purpose("again") < Purpose(q.next) /\ q.next \in TurnNext
      BY <2>2 DEF Purpose, TurnNext
    <3>2. QED BY <1>1, <2>1, <2>2, <3>1, ReadNears
  <2>3. CASE q.next = "has" /\ Read(r, "turn") /\ UNCHANGED phase
    <3>1. Purpose("turn") < Purpose(q.next) /\ q.next \in TurnNext
      BY <2>3 DEF Purpose, TurnNext
    <3>2. QED BY <1>1, <2>1, <2>3, <3>1, ReadNears
  <2>4. CASE q.next = "has" /\ Speak(r)
    BY <1>1, <2>1, <2>4, SpeakNears DEF TurnNext
  <2>5. QED BY <1>15, <2>2, <2>3, <2>4 DEF Greeted
<1>16. CASE UserTurn(r)
  <2>1. q.pc = "refresh" /\ q.copy < MaxTurns /\ q.copy # NoSession
    BY <1>1, <1>16 DEF UserTurn, CopyInv
  <2>2. q.copy + 1 \in Sessions
    BY <1>1, <2>1, NumbersAssumption DEF Request, Sessions
  <2>3. Moves(r) /\ req'[r].pc = "model" /\ req'[r].next = q.next
    BY <1>1, <1>16, <2>1, <2>2 DEF UserTurn, Move, Moves, TypeOK, Request
  <2>4. Command(req'[r].pc) < Command(q.pc)
    BY <2>1, <2>3 DEF Command
  <2>5. QED BY <1>1, <2>3, <2>4, NearerBy
<1>17. CASE ModelTurn(r)
  <2>1. PICK hangup \in BOOLEAN : req' = [req EXCEPT ![r] = [q EXCEPT !.pc = "save", !.hangup = hangup]]
    BY <1>17 DEF ModelTurn, Move
  <2>2. q.pc = "model" /\ phase' = phase
    BY <1>17 DEF ModelTurn
  <2>3. Moves(r) /\ req'[r].pc = "save" /\ req'[r].next = q.next
    BY <1>1, <2>1, <2>2 DEF Moves, TypeOK, Request
  <2>4. Command(req'[r].pc) < Command(q.pc)
    BY <2>2, <2>3 DEF Command
  <2>5. QED BY <1>1, <2>2, <2>3, <2>4, NearerBy
<1>18. CASE Save(r)
  <2>1. q.pc = "save" /\ q.kind \in Hooks /\ q.next \in TurnNext /\ Speak(r)
    BY <1>1, <1>18 DEF Save, CopyInv, InTurn, IsHook, TurnNext
  <2>2. QED BY <1>1, <2>1, SpeakNears
<1>19. CASE Delete(r)
  <2>1. q.pc = "delete" /\ Answer(r)
    BY <1>19 DEF Delete
  <2>2. QED BY <1>1, <2>1, AnswerMoves, NearerBy
<1>20. QED BY <1>4, <1>5, <1>6, <1>7, <1>8, <1>9, <1>10, <1>11, <1>12, <1>13, <1>14, <1>15,
              <1>16, <1>17, <1>18, <1>19 DEF EngineStep

\* An ended call is not kept in Redis by its own requests: each gives the key new
\* time only on its way to its end (get and save), and none is started but for the
\* call's report (build_call_report).
THEOREM RequestsRunOut == Spec => WorkRunsOut
<1> DEFINE Fewer(r) ==
        Work(req'[r]) > Work(req[r]) => req[r].pc = "idle" /\ req'[r].kind = "report"
<1> DEFINE RunsOut ==
        (phase \in {"closed", "lost"}) =>
          /\ phase' = phase
          /\ \A r \in Requests : Work(req'[r]) > Work(req[r]) =>
                req[r].pc = "idle" /\ req'[r].kind = "report"
          /\ left' > left => \E r \in Requests : Work(req'[r]) < Work(req[r])
<1>1. ASSUME IInv, [Next]_vars PROVE RunsOut
  <2> SUFFICES ASSUME phase \in {"closed", "lost"}
               PROVE  /\ phase' = phase
                      /\ \A r \in Requests : Fewer(r)
                      /\ left' > left => \E r \in Requests : Work(req'[r]) < Work(req[r])
    OBVIOUS
  <2>1. \A r \in Requests : req[r] \in Request /\ Work(req[r]) \in Nat
    BY <1>1, WorkBounded DEF IInv, TypeOK
  <2>2. left \in Nat
    BY <1>1, NumbersAssumption DEF IInv, TypeOK
  <2>3. ASSUME NEW r \in Requests, EngineStep(r) PROVE RunsOut
    <3>1. Nearer(r)
      BY <1>1, <2>3, EngineNears
    <3>2. phase' = phase
      BY <3>1 DEF Nearer
    <3>3. ASSUME NEW s \in Requests PROVE Fewer(s)
      <4>1. CASE s = r
        <5>1. req'[r] \in Request
          BY <3>1 DEF Nearer
        <5>2. Work(req'[r]) \in Nat
          BY <5>1, WorkBounded
        <5>3. QED BY <2>1, <3>1, <4>1, <5>2 DEF Nearer
      <4>2. CASE s # r
        <5>1. req'[s] = req[s]
          BY <3>1, <4>2 DEF Nearer
        <5>2. QED BY <2>1, <5>1
      <4>3. QED BY <4>1, <4>2
    <3>4. QED BY <3>1, <3>2, <3>3 DEF Nearer
  <2>4. ASSUME UNCHANGED <<phase, req, left>> PROVE RunsOut
    BY <2>1, <2>2, <2>4
  <2>5. CASE Tick
    BY <2>1, <2>2, <2>5 DEF Tick
  <2>6. ASSUME NEW i \in Instances, Restart(i) PROVE RunsOut
    <3>1. phase' = phase /\ left' = left
      BY <2>6 DEF Restart, KeyUnchanged
    <3>2. ASSUME NEW r \in Requests PROVE Fewer(r)
      <4>1. req'[r] = NoRequest \/ req'[r] = req[r]
        BY <2>6 DEF Restart
      <4>2. Work(NoRequest) = 0
        BY NoRequestTyped, WorkBounded
      <4>3. QED BY <2>1, <4>1, <4>2
    <3>3. QED BY <2>2, <3>1, <3>2
  <2>7. ASSUME NEW r \in Requests, NEW i \in Instances, Report(r, i) PROVE RunsOut
    <3>1. req[r].pc = "idle" /\ phase' = phase /\ left' = left
      BY <2>7 DEF Report, Arrive, KeyUnchanged
    <3>2. req'[r].kind = "report" /\ \A s \in Requests : s # r => req'[s] = req[s]
      BY <1>1, <2>7, ArriveMoves DEF Report, IInv, TypeOK
    <3>3. ASSUME NEW s \in Requests PROVE Fewer(s)
      BY <2>1, <3>1, <3>2
    <3>4. QED BY <2>2, <3>1, <3>3
  <2>8. ASSUME NEW r \in Requests, NEW i \in Instances PROVE ~Incoming(r, i) /\ ~Status(r, i)
    BY DEF Incoming, Status
  <2>9. ~CallEnds /\ ~StatusLost
    BY DEF CallEnds, StatusLost
  <2>10. CASE UNCHANGED vars
    BY <2>4, <2>10 DEF vars
  <2>11. CASE Next
    BY <2>3, <2>5, <2>6, <2>7, <2>8, <2>9, <2>11 DEF Next
  <2>12. QED BY <1>1, <2>10, <2>11
<1>2. QED BY <1>1, RedisInvariant, PTL DEF Spec, WorkRunsOut

=============================================================================
